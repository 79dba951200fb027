# A verified model of the ESP32 slave controller

The firmware under `src/` turns an ESP32 into a network coprocessor. An STM32 master sends
frames over a UART; the firmware drives Wi-Fi (station and access point), Ethernet, a TCP
server, a UDP discovery listener and an NTP client for it, and reports what happens in frames
of its own. This directory holds TLA+ modules of the firmware's tasks, the TLC runs that check
them on small instances, and proofs for every value of the constants.

File names below are relative to the repository (`main.rs` is `src/main.rs` there).

## 1. The system

Every task is a thread; tasks share unbounded `mpsc` channels, two atomics and one transmit
queue, all made in `main.rs`.

| Component | State | Operations | Interacts through |
|---|---|---|---|
| `uart-rx-task` (`main.rs`, `master/protocol.rs`) | the byte buffer | read a chunk, cut valid frames out | `uart_rx_queue` to the main loop |
| `uart-tx-task` (`main.rs`) | none | write the next frame | `uart_tx_queue` from every task |
| main loop (`main.rs`) | `has_master_message`, `ready_tick` | boot, READY until the first packet, dispatch by message type | one channel per kind of message |
| `tcp-server` (`services/tcp_server.rs`) | listener, table of 4 clients, settings | settings, close command, data, accept, poll, timeout | three channels, sockets, `uart_tx_queue`, the gate |
| `eth-task` (`network/ethernet.rs`) | settings, `link_registered`, the driver | disable, apply addresses, start, wait for link and address, monitor, retry | its channel, `connected_links`, the gate |
| `wifi-task` (`network/wifi/`) | STA and AP settings, `link_registered`, three "reported" flags, the driver, `disconnect_reason` | configure, start, connect, wait for the address, monitor, scan, retry | three channels, event callbacks, `connected_links`, the gate |
| `ntp-client` (`services/ntp_client.rs`) | settings | link check, round over the servers, waits | its channel, `connected_links`, the gate |
| `udp-listener` (`services/udp_listener.rs`) | sockets, settings | bind, answer, round robin of response ports | its channel, the gate |
| watchdog (`system/wdt.rs`) | subscriptions | subscribe, feed | every task |

`connected_links` counts the interfaces that have an address, `lwip_socket_gate` the driver
tasks (Wi-Fi, Ethernet) that finished their initialisation.

What is hard here, and what makes each component correct:

* **TCP server.** Messages about a slot travel one way (`connected`, `disconnected`, data) and
  requests about it the other way, in separate channels and without a connection identity,
  while slots are reused by number. Correct means: the master can always rebuild the table from
  the frames; a request never reaches another connection than the one that held the slot when
  the main loop queued it; a dead or idle peer is found and reported. (A master that writes a
  request before it has seen the slot's `disconnected` frame may mean another connection. The
  protocol has no identity to tell, and nothing here covers it.)
* **UART framing.** Bytes come in arbitrary chunks, and noise or damage may look like a frame.
  Correct means: chunks do not matter, nothing is forged, damage is contained.
* **Link tasks.** Two threads add to and subtract from a shared `u8` at many places, while the
  driver's state and the settings change under them. Correct means: the counter is exact and
  agrees with what the master was told; every wait takes new settings; a lost link is reported.
* **NTP client.** It reads the counter once and then blocks for seconds per server, and when it
  finds no link it must not stay in its wait. Correct means also: the master can follow a round
  from the frames alone.
* **UDP listener.** Its sockets hold requests while its settings change, and the ports it
  answers to take turns by a counter that wraps. Correct means: an answer belongs to the
  settings the request came under; the ports alternate; no socket starves another.
* **Scan response.** A list of any length goes into frames of a limited length, numbered with a
  byte. Correct means: nothing is repeated or left out between the first frame and the last,
  whatever the mix of lengths, and the end is reached unless the numbers run out.
* **Main loop.** Frames of the master may arrive before READY is queued, tasks may end, resets
  may happen anywhere. Correct means: every boot starts with READY, READY goes on while no
  master answers and stops when one does, and what is for a running task reaches it in order.
* **Watchdog.** A subscribed task must feed in every wait. Correct means: it fires only in the
  states we know of.

`PROJECT.json` lists every component and every hazard with its source line.

## 2. Modules

| Module | Models | Code |
|---|---|---|
| `TcpServer` | the task's loop, phase by phase, with the three channels, the transmit queue, the master's picture (`view`) and the peers | `services/tcp_server.rs`, `master/messages/tcp_*.rs`, `service_state.rs` |
| `SlotRegister` | what the server promises: a slot changes hands only through `disconnected`, and no connection is in two slots | abstract |
| `MCTcpServer` | the symmetry of the connections | |
| `TcpServer_proofs` | theorems about `TcpServer` | |
| `UartFraming` | `pop_next_valid_frame`, `decode_packet`, `encode_packet` on a line that damages bytes | `master/protocol.rs`, `main.rs` |
| `Crc16` | `crc16_ccitt`, evaluated as it is | `master/protocol.rs` |
| `MCUartFraming` | three messages, with the real CRC | |
| `UartFraming_proofs` | theorems about `UartFraming` | |
| `LinkCounters` | `fetch_add` and `fetch_sub` on a `u8`, wrapping | `main.rs` |
| `EthernetTask` | `eth-task` | `network/ethernet.rs` |
| `WifiTask` | `wifi-task` | `network/wifi/*.rs` |
| `WifiWatchdog` | `WifiTask` with the watchdog, in its wait after a configuration error | `network/wifi/state.rs`, `system/wdt.rs` |
| `NtpClient` | `ntp-client` with the frame for each server | `services/ntp_client.rs`, `master/messages/service_settings.rs` |
| `Links` | the three tasks around the shared counters, by `INSTANCE ... WITH` | `main.rs` |
| `Links_proofs` | theorems about `Links`: safety | |
| `Links_liveness` | theorems about `Links`: what fairness gives | |
| `UdpListener` | `udp-listener` with its sockets, its datagrams and the watchdog | `services/udp_listener.rs`, `service_settings.rs`, `system/wdt.rs` |
| `MCUdpListener` | four messages of settings | |
| `UdpListener_proofs` | theorems about `UdpListener` | |
| `ScanResponse` | the scans of `wifi-task`: requests in a row, chunks, time | `network/wifi/scan.rs`, `master/messages/wifi_scan.rs`, `system/wdt.rs` |
| `ScanResponse_proofs` | theorems about `ScanResponse` | |
| `HostLink` | `main` from boot on, both queues to and from the master, resets | `main.rs`, `master/messages/ready.rs` |
| `Mailboxes` | what the main loop promises the tasks: messages are handed to the task they are for, each once and in their order | abstract |
| `HostLink_proofs` | theorems about `HostLink` | |
| `RecursionLemmas` | induction and recursion over data, for `UartFraming_proofs` and `HostLink_proofs` | |

How state corresponds to code:

* `pc` of a module names the place of its thread: a call that blocks or polls, or the point
  between two effects that other threads can see. An action is everything the thread does
  between two such places. In `EthernetTask`, `lost` is the point between queueing the
  `disconnected` frame in `monitor_link_state` and lowering the counter in its caller.
* Each `mpsc` channel is a sequence. A message of settings is reduced to what the control flow
  tests (`enabled`; whether there is a timeout; the number of NTP servers).
* A call into ESP-IDF or a socket that may fail is a disjunction. Errors of `is_connected` and
  `is_up` are left out: the code reads them as a lost link, which the driver's own changes of
  state already produce, and with them every link could end by an error that is no loss.
* The TCP server's `clients` maps a slot to the connection in it. In the models a frame or a
  request also carries that connection (`conn`, `occ`); the code does not send it, and no
  action of the server branches on it. The properties use it to say *which* peer was meant.
* `PollRead` and `CheckTimeout` are separate steps of one pass over a slot, as in
  `poll_clients`; peers may act between them.
* `HostLink` and the other modules meet at the channels: the `Send...` actions of `TcpServer`,
  `Links`, `UdpListener` and `ScanResponse` are `Dispatch` of `HostLink` seen from the task.
* Time is counted only where a property needs it: passes of the main loop in `HostLink`
  (`silence`), units no shorter than a slice of a wait in `UdpListener`, the length of a scan in
  `ScanResponse`, the wait that does not feed in `WifiWatchdog` (`unfed`). In a `recv` without a
  timeout no time passes while a message is in its channel. `Starved` is the watchdog's timeout, `Reset` what follows from it.
* In `ScanResponse` an access point is the length of its encoding. By the assumption `ItemFits`
  (names of an SSID have 32 bytes at most, a frame carries 1024) `SkipEntry` never happens; it
  stands there because the code has it.
* In `UdpListener` the settings of a datagram are known by `came`, the number of settings
  messages taken when it reached its socket; the code does not know it.
* History variables: `view` (TCP; what a master that applies the frames believes), `sent` and
  `received` (UART), `reported`, `staNews`, `apReport` (frames queued by the link tasks), `news`
  (NTP; the frames of a round), `answers` and `era` (UDP), `response` and `served` (scan),
  `arrived`, `firstOut`, `lateReady`, `silence` and `masterKnows` (main loop).
* The exits of the tasks on a closed channel are left out: `main` keeps every sender alive,
  except that of the network reset, whose channel is therefore always empty.

## 3. Runs

Runs are bounded by the number of messages that the master, and for TCP and UDP the peers, may
send, besides the sets of connections, frames and settings. `CHECK_DEADLOCK FALSE` stands where
the system really may stop: a task of TCP or of the links waits for settings for as long as the
master sends none, the receiver of the UART for bytes. The other modules never stop.

| Run | Instance | Properties |
|---|---|---|
| `tcp_safety` | 2 slots (4 in the code), 3 connections, 2 messages or payloads | `TypeOK`, `LogFaithful`, `RequestsKeepTarget`, `SlotsHoldLivePeers`, `ImplementsRegister` |
| `tcp_live` | 2 slots, 2 connections, 2 messages or payloads | `DeadPeerReported`, `IdleClientDropped`, `TablesConverge` |
| `tcp_reasons` (violation) | 1 slot | `DocumentedReasons` |
| `uart_framing` | 3 frames, some with the start byte in the payload, 1 damage | `TypeOK`, `ChunkingInvisible`, `CleanLineDelivers`, `DamageContained`, `DamageDetected`, `NothingForged` |
| `links` | 2 messages, 2 NTP servers | `LinkCountExact`, `CountFollowsReports`, `ApReportNotOpposite`, `NtpRoundReported`, `NeverBlocked`, `RoundHasLink`, `NtpResumes`, `LostLinkUncounted`, `SettingsTaken` |
| `eth_loss` (violation) | 2 messages | `LossReported` |
| `wifi_ap_stuck` (violation) | 2 messages, watchdog after 2 units | `ApCorrectionTaken` |
| `wifi_double_disconnect` (violation) | 2 messages | `SingleDisconnected` |
| `udp` | 2 settings out of 4, 3 datagrams, counter of width 2 | `TypeOK`, `AnswersInForce`, `RoundRobin`, `StarvesOnlyAfterBindFailure`, `SettingsTaken`, `EverySocketServed` |
| `udp_starves` (violation) | one settings message, the same request port twice | `NeverStarved` |
| `scan` | up to 5 access points of 2 lengths, frames of 9 bytes, 2 numbers, 3 requests | `TypeOK`, `ChunksInOrder`, `FramesFull`, `AnswerComplete`, `StarvesOnlyInBursts` |
| `host` | 2 tasks, READY every 5 passes, 2 frames of the master, 1 of the tasks, 1 reset | `FirstFrameIsReady`, `ReadyStopsInTime`, `ReadyPeriod`, `Dispatched`, `ImplementsMailboxes`, `Announced` |

Why the bounds are enough for the cases that matter:

* *TCP.* Slot reuse needs a slot, the connection that leaves it and one that takes it; the
  hazard of a stale request needs settings, a request and a peer that leaves. Two slots make
  "first free" a choice. Three connections for two slots reach the refusal and a freed slot that
  is contended for. Connections are symmetric; the run with liveness does without symmetry.
* *UART.* Payloads are at most two bytes (1500 in the code), so that a damaged length byte can
  claim too little, too much but allowed, and more than allowed. Three frames let a damaged
  one swallow its successor and leave one that must survive. The CRC is the real one.
  What is said of damage is said of frames without a start byte inside (`SofFree`), because a
  payload may hold a whole valid frame, and the parser finds the inner one once the header
  around it is damaged: the protocol does not escape its start byte. Two of the three messages
  are free of it and differ, so that a frame out of order or twice shows; the third is for the
  properties without that condition. `Crc16` evaluates the eight shifts of a byte once for every
  value of the register.
* *Links.* With two messages every pair of the three tasks is active together (an interface
  that comes and goes under a waiting NTP client; both interfaces on one counter), or settings
  arrive in each wait. Cable, access points and addresses change without a bound. The proofs
  cover all three at once.
* *UDP.* Two settings are a change; three datagrams are two answers in turn around one that is
  ignored or dropped with its socket. The counter wraps at its second step.
* *Scan.* The header of the array grows inside a frame, frames of one and of several entries
  occur, and five entries need more than the two numbers there are.
* *Main loop.* A frame may come at any moment of the period, a second one behind it; a reset
  may strike anywhere, also before READY was sent.

`SettingsTaken` is two properties. Of the links it says that in every wait the settings leave the
channel of the task, for three tasks and, for Wi-Fi, the station's channel; it has no clock, so
what the watchdog does in the wait meanwhile is the business of `wifi_ap_stuck`. Of the UDP listener it says that
every settings message is taken: the messages are counted in `era`, so that one lost to a reset
of the chip would violate it. `RoundHasLink` is about the start of a round and not its later servers.
`Dispatched` and `ImplementsMailboxes` give the order of the messages for one task; across kinds
of messages the code keeps none.

Fairness: weak fairness of each thread's step. FreeRTOS schedules every thread, the threads
block only in calls with a timeout or on a channel that the model makes the guard, and
`uart-tx-task` drains its queue unconditionally. Nothing is assumed of the master, of the peers
or of the drivers. The choice inside a step is free: `connect` may fail for ever.
`TablesConverge` and `DeadPeerReported` rely on finite traffic (`Budget`): a peer that sends
without a pause keeps `poll_clients` in its inner loop, a hazard of the code that the bound hides.
`udp` adds that time passes, that the wait for the lwIP gate ends (it has a limit of 120 s) and
that the watchdog resets the chip when it fires. `host` adds strong fairness of one thing that
is not the firmware's: of the READY frames that are transmitted again and again, the line does
not lose every one.

What the violated runs show (each quotes its document in `PROJECT.json`):

* `tcp_reasons`: a reset peer is reported with reason 0, which README 5.2 does not list.
* `eth_loss`: settings sent while Ethernet is monitored, then the cable pulled before the task
  is back in its wait for the link: the master never hears of the loss.
* `wifi_ap_stuck`: the access point is enabled, its configuration fails and the error is
  reported. Now only station settings wake the task up; the access point settings that would
  correct the error stay in their channel until the watchdog, which this wait does not feed,
  resets the chip.
* `udp_starves`: settings with the same request port twice pass the decoder; the second bind
  can only fail, the task waits for other settings without feeding its watchdog, and the chip is reset,
  while CONTEXT.md says that all wait loops feed.
* `wifi_double_disconnect`: an early disconnect sends two frames where CONTEXT.md says one.

## 4. Proofs

**`TcpServer_proofs`**, for every `MaxClients`, `Conns` and `Budget` allowed by the module's
assumptions: `TypeCorrect`, `LogIsFaithful` (`LogFaithful`), `TargetsKept`
(`RequestsKeepTarget`), `SlotsAreLive` (`SlotsHoldLivePeers`) and the refinement
`RegisterImplemented` (`ImplementsRegister`).

* The log part of the invariant says both that each queued frame is expected by a master that
  received those before it and that the whole queue leads to the server's table; it is inductive
  because frames are only appended at the end together with the change of the slot, and
  delivered at the front together with the change of `view`. Lemmas about `Believes` on `Append`
  and `Tail` carry both steps.
* `RequestsKeepTarget` is not inductive alone: that an occupied slot at the time of the request
  is empty or unchanged later needs that `Accept`, the only step that fills a slot, runs only
  after both channels were drained. `TargetsPresent` says that from the drain of a channel to
  the end of `Accept` every request in it whose slot was occupied still finds that occupant
  there, hence `Accept`, which fills free slots only, cannot give such a request another
  addressee.
* `SlotsHoldLivePeers` needs `Backlog`: what waits to be accepted is live, waits once and sits
  nowhere. Together they are `Seats`.
* The refinement maps the abstract table to `view`, what the master believes, so it is about the
  order of the frames and not about the server's table. The delivery of `connected` must find
  the slot free, which the log part gives, and the connection in no other slot of the view.
  The latter is `Once`: a connection is announced once in all. It is in the view, in a
  `connected` under way or in neither, each at most once, and whatever has been announced is
  neither new nor in the backlog, so that `Accept` cannot announce it again. Every other step
  leaves the view alone.

**`Links_proofs`**, for every behaviour of master and drivers: `CountersExact`
(`LinkCountExact`), `ReportsKept` (`CountFollowsReports`), `RoundsHaveLinks` (`RoundHasLink`),
`RoundsReported` (`NtpRoundReported`) and `ApReportsKept` (`ApReportNotOpposite`).
The invariant ties each thread's flag to its place (`registered` exactly in `gotip`, `monitor`
and `lost`), adds that the last report in `waitup` is `connected`, and says that the counter is
the sum of the flags; then an addition happens only from 0 or 1, a subtraction only from 1 or
2, and the wrap of the `u8` never occurs. `RoundsHaveLinks` follows: a positive counter means
that one of the flags is set. `RoundsReported` has an invariant of its own that relates servers
left to the frames of the round; `ApReportsKept` one that relates the last report about the
access point to the flag that the code keeps for it, place by place.

**`Links_liveness`**, for any traffic, any drivers and any number of servers, under the fairness
of the threads: `LossUncounted` (`LostLinkUncounted`), from `EthLossUncounted` and
`WifiLossUncounted`, and `NtpResumesWithLink` (`NtpResumes`). Each is a chain of the places
the thread passes: in each place a step of another thread leaves it there or makes the claim
true, its own step leads on, and fairness takes that step. The hypotheses:

* `EthNeverBlocked`, `WifiNeverBlocked`, `NtpNeverBlocked`: that in those places the thread's
  step is enabled. The provers do not reason about `ENABLED`; TLC checks the three as the
  invariant `NeverBlocked` of the run `links`. They say that such a task never waits for
  something that only the master or the driver can give.
* `ScansEnd`, for the Wi-Fi task: the master's scan requests end. The monitor serves them before
  it looks at its link (`wifi/mod.rs` 599), so a master that always has another one queued keeps
  it from the check for ever. The runs meet it because of `Budget`.

**`UdpListener_proofs`**, for any settings, any even width of the turn counter and any watchdog
limit of two units or more: `UdpTypeCorrect`, `UdpAnswersInForce`, `UdpRoundRobin` and
`UdpStarvesOnlyAfterBindFailure`. The type invariant says in its `Ready` part that all settings
from the decoder on are accepted ones and that the sockets are those of the settings or none,
hence the remainder by the number of response ports is never by zero. The others add: a
datagram in a socket came in the present era; the last answer left the counter one behind,
which, since the width is even, keeps its parity also when it wraps; and the time since the
last feed is at most that of the present wait, except in the wait after a failed bind.

**`ScanResponse_proofs`**, for any lengths that fit a frame, any number of access points, any
payload limit and any range of chunk numbers: `ScanTypeCorrect`, `ScanChunksInOrder`,
`ScanFramesFull`, `ScanAnswerComplete` and `ScanStarvesOnlyInBursts`. The invariant is that of
the outer loop (`Progress`): the last frame ends where the next begins, and the number of the
next frame is the count of those sent, except after the one that took the last number.
`ChunkAdvances` shows that a chunk is never empty. The last theorem assumes that one scan takes
no longer than the watchdog's timeout.

**`HostLink_proofs`**, for any tasks, any period, any traffic and any number of resets:
`HostTypeCorrect`, `HostFirstFrameIsReady`, `HostReadyStopsInTime`, `HostReadyPeriod`,
`HostDispatched` and the refinement `HostImplementsMailboxes` (`ImplementsMailboxes`). The
second needs that nothing was queued before `Announce` and that no task reports before it; the
third that a pass which gets to the broadcast without a master saw an empty queue, so that a
READY can only be late by the one that `Announce` or that pass queues; the fourth ties `silence`
to `readyTick` place by place. The fifth one is inductive, but each of its steps is a law of the
recursive function `MessagesFor`: what it finds in a queue with one message more at the end, and
in one without its first message. Both are proved by induction. The refinement says it of the
steps: `posted` is what arrived for a task, `handed` what is in its channel or was taken from
it, `open` the tasks that run. `Arrive` posts, `Dispatch` hands to the one task the frame is for
(`Dispatched` before the step says that it is the next of that task's messages) or to nobody, a
task that ends closes, a reset restarts, and every other step leaves the mailboxes alone.

**`UartFraming_proofs`**, for any set of messages, any noise, any sizes of reads, any number of
frames and of damaged bytes, and any limit of the payload up to 65535: `UartTypeCorrect`,
`ChunksDoNotMatter` (`ChunkingInvisible`), `CleanLineLosesNothing` (`CleanLineDelivers`),
`DamageStaysContained` (`DamageContained`) and `DamageForgesNothing` (`NothingForged`). All five
assume `CrcIsU16`, that `Crc` returns a number of 16 bits, which is the return type of
`crc16_ccitt`; it is a hypothesis of the theorems and not an `ASSUME`, because TLC cannot
evaluate it over all sequences. Nothing else about the checksum is used, except in the last,
which assumes that the CRC does its part. The invariant has five parts:

* `BufferIsTail`: `rxBuf` is the end of `received`, from the position `Pos` on.
* `Scanned`: *whatever bytes are still to come*, the reference parser finds in the whole stream
  what was delivered so far, followed by what it finds from `Pos` on. With the bytes to come
  quantified, a read preserves it, and each step of `pop_next_valid_frame` is one or several
  turns of the reference parser at `Pos`. When the thread waits, no turn is possible
  (`ParseStops`), hence `ChunkingInvisible`.
* `Layout`: the frames of the master lie end to end behind the last damage (`FrameStart`,
  counted from the end of the stream because damage moves the front), and each of their bytes
  behind the damage is what the master wrote. It speaks of the line and not of the parser; the
  parser follows by `WholeFrame`: at the start of a frame behind the damage, the candidate is
  that frame.
* `Clean`: without damage, `Pos` is the start of the frame after the last one delivered.
* `Contained`: for every frame out of reach of the damage, `Pos` is at or before its start, or
  at the start of a later frame with all in between just delivered. The hard step is that the
  parser cannot jump over the start (`BeforeFrameNext`): a candidate that begins in the damage
  ends before `OutOfReach`, because no claim above `MaxPayload` is believed, and one behind the
  damage begins with an SOF, which by `SofFree` is the start of a frame (`AtFrameStart`), so it
  is that frame. `NothingAhead` adds that the thread does not wait for ever with the frame
  already in its buffer.

`DamageForgesNothing` has the hypothesis `[]DamageDetected`, and an invariant of its own, `Trail`:
the frames delivered were found at places of the stream that ascend, each complete and valid
there, and all before `Pos`. A place behind the last damage holds an SOF, so it is the start of a
frame (`SofIsStart`), and what is valid there is that frame; a place at or before the damage is
the business of `DamageDetected`: what starts there and checks out is, in its turn, one of the
frames that started there. So the hypothesis says of windows of the damaged line what a checksum
is for, and the theorem makes of it what the main loop relies on: sent frames only, none twice,
none out of order, across both sides of the damage (`TrailMeans`). No property of the function
`Crc` alone implies it: bytes of two damaged frames may collide. TLC checks it with the real CRC.

Three corrections came from these proofs. `lastDamage` was the place of the last damage and not
the largest place of any; with a second damage before an earlier one the claim about the bytes
behind it was false. A run with one damage cannot meet that case; the proof did. And `TypeOK`
had to say what a thread that waits has left in its buffer (`Unfinished`), without which neither
`Scanned` nor `Contained` gives the property. Third, `NothingForged` was stated of all frames,
and held in the run only because its payloads are too short to hold a frame; now it is about
`SofFree` lines, and says more of them: a subsequence, where it was that each frame delivered
had been sent.

**`RecursionLemmas`.** The library's induction theorems take operators as parameters, which the
provers cannot instantiate. This module derives from the well-founded order of the natural
numbers the same principles about *sets*: a set of numbers that contains the first and is closed
under successor contains all (`SetInduction`, and from the other end `SetInductionFromEnd`), and
a step function that looks only at smaller (or larger) arguments has a solution
(`CourseOfValues`, `CourseFromEnd`). The recursive functions of the models (`MessagesFor`,
`ReferenceParse`, `StartsOf`) unfold by them.

Only model-checked:

* `NeverBlocked`, that a thread's step is enabled, and `DamageDetected`, that the CRC detects the
  damage: hypotheses of the theorems that use them.
* The liveness properties in which a thread works off a queue or a table (`SettingsTaken` of both
  runs, `DeadPeerReported`, `IdleClientDropped`, `TablesConverge`, `EverySocketServed`) or a count
  grows (`Announced`): their measure is a length, and induction over it under fairness needs
  temporal facts for each length, which the provers cannot combine.
* That the real `crc16_ccitt` returns a `u16`: its module uses `^^` of `Bitwise`. The runs
  evaluate it, and `TypeOK` would show a byte out of range.

## 5. Not modelled, and why

* Disconnect reasons, RSSI reports and the access point's client events of `wifi-task`: they
  only add frames; no step of the task depends on them.
* Field layouts of the MessagePack codecs, error texts, log lines: data without control. Of the
  ranges that decoders enforce, those of the UDP and NTP settings are modelled, because the tasks
  rely on them.
* The addresses of `ip.rs`, and repeated stops of DHCP: what `esp_netif` answers is external;
  applying addresses may fail in the models.
* NTP packets and the arithmetic of `sync_once`: success or failure.
* The watchdog in `tcp-server`, in the monitor of `wifi-task` and elsewhere: modelled are
  `udp-listener`, the scans of `wifi-task` and its wait after a configuration error. Subscription is one call at the start of a task.
* Chunks of scan results that the line loses: nothing in the protocol asks for them again.
* In `udp-listener`: a failing `set_nonblocking` and errors of `recv_from`, which are only logged.
* `master/transport.rs`, `master/config.rs`, `build.rs`: peripheral configuration.
* `tools/`: host scripts. `SNMP.md`: a draft that is not implemented.
* The contents of TCP payloads, hence a `write_all` that sends a part and then fails.

## 6. Plan

Done, in this order: the TCP server with its abstract register and proofs; UART framing; the
link tasks, the NTP client and their composition with proofs; the UDP listener with the
watchdog; the scan response; boot, READY and dispatch; proofs about these three; the refinement
of the register and the live peers of the TCP server; the dispatch; UART framing; what fairness
gives the link tasks; the mailboxes; that nothing is forged.

Every safety property of the passing runs is a theorem, except the two hypotheses above. Next:

1. The composed system: that the channels of `TcpServer`, `Links`, `UdpListener` and
   `ScanResponse` are the mailboxes of `HostLink` (a refinement of each `Send...` by `Hand`).
2. The wait of `tcp-server` after a failed bind, which does not feed the watchdog, with the
   clock of `UdpListener`.
3. Wi-Fi refinements: `disconnect_reason` with its callback, access point client events, the
   identity of the network across new station settings.

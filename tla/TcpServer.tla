---------------------------- MODULE TcpServer ----------------------------
(***************************************************************************)
(* The `tcp-server' task (services/tcp_server.rs) with everything it       *)
(* shares state with: the three mpsc queues the main loop fills from UART  *)
(* frames, the UART transmit queue that the `uart-tx' thread drains, the   *)
(* TCP peers, and the STM32 master that rebuilds the table of connections  *)
(* from the frames it receives.                                            *)
(*                                                                         *)
(* The task is one thread: `pc' is its place in the loop of `run' and      *)
(* `idx' the slot a `for' loop is at.  Messages from the master and events *)
(* of the peers interleave with it between any two of its steps.           *)
(***************************************************************************)
EXTENDS Integers, Sequences, Functions

CONSTANTS
    MaxClients,   \* MAX_CLIENTS, the number of connection slots
    Conns,        \* the TCP connections peers may open, each at most once
    NoConn,       \* a free slot (Option::None)
    Budget        \* bound: master requests plus payloads sent by peers

ASSUME MaxClientsAssumption == MaxClients \in Nat \ {0}
ASSUME NoConnAssumption == NoConn \notin Conns
ASSUME BudgetAssumption == Budget \in Nat

VARIABLES
    pc,          \* where the task is in `run'
    idx,         \* slot index of the loop it is in
    timeoutOn,   \* client_timeout # 0 in the settings in force
    listening,   \* listener.is_some()
    clients,     \* slot -> connection or NoConn
    expired,     \* connections with last_activity.elapsed() > timeout
    settingsQ,   \* tcp_settings channel: TRUE for a non-zero client_timeout
    commandQ,    \* tcp_command channel
    dataQ,       \* tcp_data channel
    uartTx,      \* uart_tx_queue channel
    view,        \* the master's table, rebuilt from the frames received
    peer,        \* what the remote end of each connection did last
    inbound,     \* payloads of each connection not read yet
    backlog,     \* connections the listener has not accepted yet
    budget       \* what is left of Budget

serverVars == <<pc, idx, timeoutOn, listening, clients, expired>>
queueVars  == <<settingsQ, commandQ, dataQ>>
peerVars   == <<peer, inbound, backlog>>
vars == <<serverVars, queueVars, uartTx, view, peerVars, budget>>

Slots == 0 .. MaxClients - 1
SlotValue == Conns \cup {NoConn}

\* TcpDisconnectReason
Undefined         == 0
ClientClosed      == 1
ServerClosed      == 2
InactivityTimeout == 3
NotConnected      == 4
Reasons == Undefined .. NotConnected

\* Frames to the master.  `conn' stands for the address that a connected
\* frame carries; in a data frame it is ghost: whose bytes these are.
Connected(i, c)    == [kind |-> "connected", index |-> i, conn |-> c, reason |-> 0]
Disconnected(i, r) == [kind |-> "disconnected", index |-> i, conn |-> NoConn, reason |-> r]
Data(i, c)         == [kind |-> "data", index |-> i, conn |-> c, reason |-> 0]
Frame == [kind : {"connected", "disconnected", "data"}, index : Slots,
          conn : SlotValue, reason : Reasons]

\* Requests of the master.  The decoders refuse an index that names no slot, so
\* the task's own range checks never fire.  `occ' is ghost: the connection in
\* the slot when the main loop put the request in the channel.
Command == [index : Slots, close : BOOLEAN, occ : SlotValue]
Request == [index : Slots, occ : SlotValue]

Places == {"first", "top", "bindwait", "settings", "closeall", "commands",
           "data", "accept", "poll", "timeout"}

Init ==
    /\ pc = "first" /\ idx = 0
    /\ timeoutOn = FALSE /\ listening = FALSE
    /\ clients = [i \in Slots |-> NoConn]
    /\ expired = {}
    /\ settingsQ = <<>> /\ commandQ = <<>> /\ dataQ = <<>>
    /\ uartTx = <<>>
    /\ view = [i \in Slots |-> NoConn]
    /\ peer = [c \in Conns |-> "new"]
    /\ inbound = [c \in Conns |-> 0]
    /\ backlog = <<>>
    /\ budget = Budget

---------------------------------------------------------------------------
(* Helpers of the task *)

Send(f) == uartTx' = Append(uartTx, f)

FreeSlots == {i \in Slots : clients[i] = NoConn}
Occupied(i) == i \in Slots \ FreeSlots

\* Seeded defect: slots below the first free one are offered too.
IsFirstFree_Taken(i) == i \in Slots /\ \A j \in FreeSlots : i <= j

IsFirstFree(i) == i \in FreeSlots /\ \A j \in FreeSlots : i <= j

\* The task drops its end of connection c.
Hangup(c) ==
    /\ peer' = [peer EXCEPT ![c] = "done"]
    /\ inbound' = [inbound EXCEPT ![c] = 0]
    /\ expired' = expired \ {c}

\* Seeded defect: the slot is freed and the master not told.
CloseSlot_Silent(i, reason) ==
    /\ clients' = [clients EXCEPT ![i] = NoConn]
    /\ Hangup(clients[i])
    /\ UNCHANGED <<uartTx, backlog>>

\* Seeded defect: the stream is closed but stays in its slot.
CloseSlot_Kept(i, reason) ==
    /\ Send(Disconnected(i, reason))
    /\ Hangup(clients[i])
    /\ UNCHANGED <<clients, backlog>>

\* An occupied slot is freed and the master is told why.
CloseSlot(i, reason) ==
    /\ clients' = [clients EXCEPT ![i] = NoConn]
    /\ Send(Disconnected(i, reason))
    /\ Hangup(clients[i])
    /\ UNCHANGED backlog

\* last_activity = Instant::now()
Touch(c) == expired' = expired \ {c}

---------------------------------------------------------------------------
(* The task, in the order of `run' *)

\* recv_timeout in a loop until the first settings arrive.
AwaitFirstSettings ==
    /\ pc = "first" /\ settingsQ # <<>>
    /\ timeoutOn' = Head(settingsQ) /\ settingsQ' = Tail(settingsQ)
    /\ pc' = "top"
    /\ UNCHANGED <<idx, listening, clients, expired, commandQ, dataQ,
                   uartTx, view, peerVars, budget>>

\* Top of the loop: open the listener unless it is open already.
OpenListener ==
    /\ pc = "top"
    /\ \/ listening /\ pc' = "settings" /\ UNCHANGED listening
       \/ ~listening /\ pc' = "settings" /\ listening' = TRUE
       \/ ~listening /\ pc' = "bindwait" /\ UNCHANGED listening
    /\ UNCHANGED <<idx, timeoutOn, clients, expired, queueVars,
                   uartTx, view, peerVars, budget>>

\* The blocking recv after a failed bind, then `continue'.
AwaitSettingsAfterBindFailure ==
    /\ pc = "bindwait" /\ settingsQ # <<>>
    /\ timeoutOn' = Head(settingsQ) /\ settingsQ' = Tail(settingsQ)
    /\ pc' = "top"
    /\ UNCHANGED <<idx, listening, clients, expired, commandQ, dataQ,
                   uartTx, view, peerVars, budget>>

\* try_recv returned settings: disconnect_all_clients starts.
TakeSettings ==
    /\ pc = "settings" /\ settingsQ # <<>>
    /\ timeoutOn' = Head(settingsQ) /\ settingsQ' = Tail(settingsQ)
    /\ pc' = "closeall" /\ idx' = 0
    /\ UNCHANGED <<listening, clients, expired, commandQ, dataQ,
                   uartTx, view, peerVars, budget>>

\* One slot of disconnect_all_clients.
DisconnectOne ==
    /\ pc = "closeall" /\ idx < MaxClients
    /\ idx' = idx + 1
    /\ \/ clients[idx] # NoConn /\ CloseSlot(idx, ServerClosed)
       \/ clients[idx] = NoConn /\ UNCHANGED <<clients, expired, uartTx, peerVars>>
    /\ UNCHANGED <<pc, timeoutOn, listening, queueVars, view, budget>>

\* listener = None: what waits in its backlog is reset with it.
CloseListener ==
    /\ pc = "closeall" /\ idx = MaxClients
    /\ listening' = FALSE
    /\ peer' = [c \in Conns |-> IF c \in Range(backlog) THEN "done" ELSE peer[c]]
    /\ inbound' = [c \in Conns |-> IF c \in Range(backlog) THEN 0 ELSE inbound[c]]
    /\ backlog' = <<>>
    /\ pc' = "settings" /\ idx' = 0
    /\ UNCHANGED <<timeoutOn, clients, expired, queueVars, uartTx, view, budget>>

\* No more settings.  drain_network_reset_events follows and finds nothing:
\* wifi/mod.rs drops the only sender of that channel when it spawns its task.
SettingsDrained ==
    /\ pc = "settings" /\ settingsQ = <<>>
    /\ pc' = "commands"
    /\ UNCHANGED <<idx, timeoutOn, listening, clients, expired, queueVars,
                   uartTx, view, peerVars, budget>>

\* One turn of drain_tcp_commands.
HandleCommand ==
    /\ pc = "commands" /\ commandQ # <<>>
    /\ LET cmd == Head(commandQ)
           found == cmd.close /\ Occupied(cmd.index)
       IN
         \/ found /\ CloseSlot(cmd.index, ServerClosed)
         \/ /\ ~found
            /\ UNCHANGED <<clients, expired, uartTx, peerVars>>
    /\ commandQ' = Tail(commandQ)
    /\ UNCHANGED <<pc, idx, timeoutOn, listening, settingsQ, dataQ, view, budget>>

CommandsDrained ==
    /\ pc = "commands" /\ commandQ = <<>>
    /\ pc' = "data"
    /\ UNCHANGED <<idx, timeoutOn, listening, clients, expired, queueVars,
                   uartTx, view, peerVars, budget>>

\* One turn of drain_tcp_data: a write that fails is only logged.
HandleData ==
    /\ pc = "data" /\ dataQ # <<>>
    /\ LET req == Head(dataQ) IN
         \/ /\ req.index \in FreeSlots
            /\ Send(Disconnected(req.index, NotConnected))
            /\ UNCHANGED expired
         \/ /\ Occupied(req.index)
            /\ Touch(clients[req.index])
            /\ UNCHANGED uartTx
         \/ /\ Occupied(req.index)
            /\ UNCHANGED <<expired, uartTx>>
    /\ dataQ' = Tail(dataQ)
    /\ UNCHANGED <<pc, idx, timeoutOn, listening, clients, settingsQ, commandQ,
                   view, peerVars, budget>>

\* Seeded defect: `if let' for `while let', so that requests are left over.
DataDrained_Early ==
    /\ pc = "data"
    /\ pc' = IF listening THEN "accept" ELSE "top"
    /\ UNCHANGED <<idx, timeoutOn, listening, clients, expired, queueVars,
                   uartTx, view, peerVars, budget>>

\* accept_new_clients and poll_clients run only with a listener.
DataDrained ==
    /\ pc = "data" /\ dataQ = <<>>
    /\ pc' = IF listening THEN "accept" ELSE "top"
    /\ UNCHANGED <<idx, timeoutOn, listening, clients, expired, queueVars,
                   uartTx, view, peerVars, budget>>

\* accept returned a stream and a slot is free for it.
Accept ==
    /\ pc = "accept" /\ backlog # <<>>
    /\ \E i \in Slots :
         /\ IsFirstFree(i)
         /\ clients' = [clients EXCEPT ![i] = Head(backlog)]
         /\ Send(Connected(i, Head(backlog)))
    /\ backlog' = Tail(backlog)
    /\ UNCHANGED <<pc, idx, timeoutOn, listening, expired, queueVars, view,
                   peer, inbound, budget>>

\* accept returned a stream that is dropped at once: every slot is taken, or
\* set_nonblocking failed.
Reject ==
    /\ pc = "accept" /\ backlog # <<>>
    /\ Hangup(Head(backlog))
    /\ backlog' = Tail(backlog)
    /\ UNCHANGED <<pc, idx, timeoutOn, listening, clients, queueVars,
                   uartTx, view, budget>>

\* accept would block, or failed: either ends the loop.
AcceptEnds ==
    /\ pc = "accept"
    /\ pc' = "poll" /\ idx' = 0
    /\ UNCHANGED <<timeoutOn, listening, clients, expired, queueVars,
                   uartTx, view, peerVars, budget>>

PollFreeSlot ==
    /\ pc = "poll" /\ idx < MaxClients /\ clients[idx] = NoConn
    /\ idx' = idx + 1
    /\ UNCHANGED <<pc, timeoutOn, listening, clients, expired, queueVars,
                   uartTx, view, peerVars, budget>>

\* The outcomes of stream.read: a payload, end of stream, an error, nothing.
CanRead(c)   == peer[c] # "rst" /\ inbound[c] > 0
AtEnd(c)     == peer[c] = "fin" /\ inbound[c] = 0
IsBroken(c)  == peer[c] = "rst"
WouldBlock(c) == peer[c] = "open" /\ inbound[c] = 0

PollRead ==
    /\ pc = "poll" /\ idx < MaxClients /\ clients[idx] # NoConn
    /\ CanRead(clients[idx])
    /\ inbound' = [inbound EXCEPT ![clients[idx]] = @ - 1]
    /\ Touch(clients[idx])
    /\ Send(Data(idx, clients[idx]))
    /\ UNCHANGED <<pc, idx, timeoutOn, listening, clients, queueVars, view,
                   peer, backlog, budget>>

\* Seeded defect: no break, so the inactivity check follows on a free slot.
PollEnd_FallsThrough ==
    /\ pc = "poll" /\ idx < MaxClients /\ clients[idx] # NoConn
    /\ \/ AtEnd(clients[idx]) /\ CloseSlot(idx, ClientClosed)
       \/ IsBroken(clients[idx]) /\ CloseSlot(idx, Undefined)
    /\ pc' = "timeout"
    /\ UNCHANGED <<idx, timeoutOn, listening, queueVars, view, budget>>

PollEnd ==
    /\ pc = "poll" /\ idx < MaxClients /\ clients[idx] # NoConn
    /\ \/ AtEnd(clients[idx]) /\ CloseSlot(idx, ClientClosed)
       \/ IsBroken(clients[idx]) /\ CloseSlot(idx, Undefined)
    /\ idx' = idx + 1
    /\ UNCHANGED <<pc, timeoutOn, listening, queueVars, view, budget>>

\* Seeded defect: end of stream taken for `nothing to read'.
PollWouldBlock_AtEnd ==
    /\ pc = "poll" /\ idx < MaxClients /\ clients[idx] # NoConn
    /\ WouldBlock(clients[idx]) \/ AtEnd(clients[idx])
    /\ pc' = "timeout"
    /\ UNCHANGED <<idx, timeoutOn, listening, clients, expired, queueVars,
                   uartTx, view, peerVars, budget>>

PollWouldBlock ==
    /\ pc = "poll" /\ idx < MaxClients /\ clients[idx] # NoConn
    /\ WouldBlock(clients[idx])
    /\ pc' = "timeout"
    /\ UNCHANGED <<idx, timeoutOn, listening, clients, expired, queueVars,
                   uartTx, view, peerVars, budget>>

\* Seeded defect: the meaning of a zero client_timeout is inverted.
CheckTimeout_Inverted ==
    /\ pc = "timeout"
    /\ \/ /\ ~timeoutOn /\ clients[idx] \in expired
          /\ CloseSlot(idx, InactivityTimeout)
       \/ /\ timeoutOn \/ clients[idx] \notin expired
          /\ UNCHANGED <<clients, expired, uartTx, peerVars>>
    /\ pc' = "poll" /\ idx' = idx + 1
    /\ UNCHANGED <<timeoutOn, listening, queueVars, view, budget>>

\* The inactivity check, after the reads: what arrived since is not seen.
CheckTimeout ==
    /\ pc = "timeout"
    /\ \/ /\ timeoutOn /\ clients[idx] \in expired
          /\ CloseSlot(idx, InactivityTimeout)
       \/ /\ ~timeoutOn \/ clients[idx] \notin expired
          /\ UNCHANGED <<clients, expired, uartTx, peerVars>>
    /\ pc' = "poll" /\ idx' = idx + 1
    /\ UNCHANGED <<timeoutOn, listening, queueVars, view, budget>>

PollDone ==
    /\ pc = "poll" /\ idx = MaxClients
    /\ pc' = "top" /\ idx' = 0
    /\ UNCHANGED <<timeoutOn, listening, clients, expired, queueVars,
                   uartTx, view, peerVars, budget>>

ServerStep ==
    \/ AwaitFirstSettings \/ OpenListener \/ AwaitSettingsAfterBindFailure
    \/ TakeSettings \/ DisconnectOne \/ CloseListener \/ SettingsDrained
    \/ HandleCommand \/ CommandsDrained \/ HandleData \/ DataDrained
    \/ Accept \/ Reject \/ AcceptEnds
    \/ PollFreeSlot \/ PollRead \/ PollEnd \/ PollWouldBlock
    \/ CheckTimeout \/ PollDone

---------------------------------------------------------------------------
(* The rest of the firmware: main loop and uart-tx, and the master *)

Spend == budget > 0 /\ budget' = budget - 1

SendSettings(on) ==
    /\ Spend
    /\ settingsQ' = Append(settingsQ, on)
    /\ UNCHANGED <<serverVars, commandQ, dataQ, uartTx, view, peerVars>>

SendCommand(i, close) ==
    /\ Spend
    /\ commandQ' = Append(commandQ, [index |-> i, close |-> close, occ |-> clients[i]])
    /\ UNCHANGED <<serverVars, settingsQ, dataQ, uartTx, view, peerVars>>

SendData(i) ==
    /\ Spend
    /\ dataQ' = Append(dataQ, [index |-> i, occ |-> clients[i]])
    /\ UNCHANGED <<serverVars, settingsQ, commandQ, uartTx, view, peerVars>>

\* A frame reaches the master, which notes who is in the slot now.
MasterReceives ==
    /\ uartTx # <<>>
    /\ uartTx' = Tail(uartTx)
    /\ view' = IF Head(uartTx).kind = "data" THEN view
               ELSE [view EXCEPT ![Head(uartTx).index] = Head(uartTx).conn]
    /\ UNCHANGED <<serverVars, queueVars, peerVars, budget>>

---------------------------------------------------------------------------
(* The peers *)

Connect(c) ==
    /\ listening /\ peer[c] = "new"
    /\ peer' = [peer EXCEPT ![c] = "open"]
    /\ backlog' = Append(backlog, c)
    /\ UNCHANGED <<serverVars, queueVars, uartTx, view, inbound, budget>>

PeerSends(c) ==
    /\ Spend /\ peer[c] = "open"
    /\ inbound' = [inbound EXCEPT ![c] = @ + 1]
    /\ UNCHANGED <<serverVars, queueVars, uartTx, view, peer, backlog>>

\* An orderly close, or a reset (also: the link to the peer is gone).
PeerLeaves(c, how) ==
    /\ peer[c] = "open"
    /\ peer' = [peer EXCEPT ![c] = how]
    /\ UNCHANGED <<serverVars, queueVars, uartTx, view, inbound, backlog, budget>>

\* The timeout, if there is one, elapses for an accepted connection.
Expire(c) ==
    /\ timeoutOn
    /\ c \in Range(clients) \ expired
    /\ expired' = expired \cup {c}
    /\ UNCHANGED <<pc, idx, timeoutOn, listening, clients, queueVars, uartTx,
                   view, peerVars, budget>>

Environment ==
    \/ MasterReceives
    \/ \E on \in BOOLEAN : SendSettings(on)
    \/ \E i \in Slots, close \in BOOLEAN : SendCommand(i, close)
    \/ \E i \in Slots : SendData(i)
    \/ \E c \in Conns : Connect(c)
    \/ \E c \in Conns : PeerSends(c)
    \/ \E c \in Conns, how \in {"fin", "rst"} : PeerLeaves(c, how)
    \/ \E c \in Conns : Expire(c)

Next == ServerStep \/ Environment

Spec == Init /\ [][Next]_vars

\* The task and the uart-tx thread are scheduled; nothing obliges the master
\* or the peers to do anything.
FairSpec == Spec /\ WF_vars(ServerStep) /\ WF_vars(MasterReceives)

---------------------------------------------------------------------------
(* Properties *)

\* Every variable stays in the range the Rust types and the decoders give it.
TypeOK ==
    /\ pc \in Places
    /\ idx \in 0 .. MaxClients
    /\ pc = "timeout" => idx < MaxClients /\ clients[idx] # NoConn
    /\ timeoutOn \in BOOLEAN
    /\ listening \in BOOLEAN
    /\ clients \in [Slots -> SlotValue]
    /\ expired \subseteq Conns
    /\ settingsQ \in Seq(BOOLEAN)
    /\ commandQ \in Seq(Command)
    /\ dataQ \in Seq(Request)
    /\ uartTx \in Seq(Frame)
    /\ view \in [Slots -> SlotValue]
    /\ peer \in [Conns -> {"new", "open", "fin", "rst", "done"}]
    /\ inbound \in [Conns -> Nat]
    /\ backlog \in Seq(Conns)
    /\ budget \in 0 .. Budget

\* Frame k of q changes what the master believes of slot i.
Sets(q, k, i) == q[k].kind # "data" /\ q[k].index = i

\* A master that holds table v and has received the first k - 1 frames of q
\* believes that slot i holds c.
Believes(v, q, i, k, c) ==
    \/ v[i] = c /\ \A j \in 1 .. k - 1 : ~Sets(q, j, i)
    \/ \E j \in 1 .. k - 1 :
         /\ Sets(q, j, i) /\ q[j].conn = c
         /\ \A m \in j + 1 .. k - 1 : ~Sets(q, m, i)

\* No event is lost: once the frames queued for it are delivered, the master's
\* table is the task's table of clients, slot by slot and peer by peer.
LogMatchesSlots ==
    \A i \in Slots : Believes(view, uartTx, i, Len(uartTx) + 1, clients[i])

\* Frame k makes sense to the master that receives it: a connection appears
\* only in a slot it believes free, a slot is released once and only while
\* occupied, NotConnected only answers for a slot it believes free, and bytes
\* of a peer arrive only while it believes that very peer to be in the slot.
FrameExpected(v, q, k) ==
    LET f == q[k] IN
      /\ f.kind = "connected" => f.conn # NoConn /\ Believes(v, q, f.index, k, NoConn)
      /\ f.kind = "disconnected" /\ f.reason # NotConnected =>
           f.conn = NoConn /\ \E c \in Conns : Believes(v, q, f.index, k, c)
      /\ f.kind = "disconnected" /\ f.reason = NotConnected =>
           f.conn = NoConn /\ Believes(v, q, f.index, k, NoConn)
      /\ f.kind = "data" => f.conn # NoConn /\ Believes(v, q, f.index, k, f.conn)

\* Every queued frame makes sense where it stands in the queue, though commands,
\* settings, reads and timeouts free slots that accept fills again at once.
LogWellFormed == \A k \in 1 .. Len(uartTx) : FrameExpected(view, uartTx, k)

\* The frames on their way to the master, applied one by one, each to a table that
\* it makes sense for, lead to the task's table of clients: no event of a slot is
\* lost, doubled or overtaken, whatever frees the slot.
LogFaithful == LogMatchesSlots /\ LogWellFormed

\* A request in a channel is never applied to a connection other than the one
\* that held the slot when the main loop queued it: the drains before `accept'
\* empty the channels before a slot that was freed can be taken again.
Kept(m) == m.occ # NoConn => clients[m.index] \in {m.occ, NoConn}
RequestsKeepTarget ==
    /\ \A m \in Range(commandQ) : Kept(m)
    /\ \A m \in Range(dataQ) : Kept(m)

\* A connection is in one slot at most, and only a live or half-closed peer
\* whose payloads were not thrown away is in one.
SlotsHoldLivePeers ==
    /\ \A i, j \in Slots : clients[i] = clients[j] /\ clients[i] # NoConn => i = j
    /\ \A i \in Slots : clients[i] # NoConn => peer[clients[i]] \in {"open", "fin", "rst"}
    /\ \A c \in Conns : inbound[c] > 0 => peer[c] \in {"open", "fin", "rst"}

\* The documented contract of the master's table (README 5.2): see SlotRegister.
Register == INSTANCE SlotRegister WITH reg <- view
ImplementsRegister == Register!Spec

\* README 5.2 lists the disconnect reasons 1 to 4.
DocumentedReasons ==
    \A k \in 1 .. Len(uartTx) :
        uartTx[k].kind = "disconnected" => uartTx[k].reason \in 1 .. 4

\* A peer that closed or reset its connection is taken out of its slot, and
\* the master hears of it.
DeadPeerReported ==
    \A c \in Conns :
        c \in Range(clients) /\ peer[c] \in {"fin", "rst"}
            ~> c \notin Range(clients) \cup Range(view)

\* An idle connection is dropped, unless it becomes active again or the
\* timeout is switched off.
IdleClientDropped ==
    \A c \in Conns : (c \in expired /\ timeoutOn) ~> (c \notin expired \/ ~timeoutOn)

\* When the traffic ends, the master's table becomes and stays the task's.
TablesConverge == <>[](view = clients)
===========================================================================

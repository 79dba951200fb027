--------------------------- MODULE UdpListener ---------------------------
(***************************************************************************)
(* The `udp-listener' thread (services/udp_listener.rs): it binds a socket *)
(* for every request port of its settings, answers discovery requests on   *)
(* the response ports in turn, and feeds the task watchdog                 *)
(* (system/wdt.rs) in its waits.                                           *)
(*                                                                         *)
(* Time is counted in units no shorter than any slice of a wait that       *)
(* feeds; steps between two waits take none.                               *)
(***************************************************************************)
EXTENDS Integers, Sequences, Functions

CONSTANTS
    Messages,     \* UdpListener settings the master may send, good or bad
    Types,        \* values of `type' in settings and requests
    RRWidth,      \* response_rr is a usize: it wraps at 2^32
    WdtLimit,     \* units of time after which the watchdog resets the chip
    MaxSettings,  \* bound: settings messages
    MaxRequests   \* bound: datagrams from the network

ASSUME MessagesAssumption == Messages \subseteq [req : Seq(Nat), resp : Seq(Nat), type : Types]
ASSUME WidthAssumption == RRWidth \in Nat \ {0} /\ RRWidth % 2 = 0
ASSUME BoundsAssumption == WdtLimit \in Nat \ {0, 1} /\ MaxSettings \in Nat /\ MaxRequests \in Nat

VARIABLES
    pc,        \* where the task is in `run'
    settings,  \* settings in force
    era,       \* ghost: how many settings messages were taken
    inbox,     \* udp_settings channel
    sockets,   \* the port each open socket is bound to
    waiting,   \* socket -> datagrams it holds
    idx,       \* socket that the poll is at
    rr,        \* response_rr
    answers,   \* history: the answers handed to send_to
    idle,      \* time spent in the current wait
    unfed,     \* time since the task last fed the watchdog
    sentSettings, sentRequests

taskVars  == <<pc, settings, era, inbox, sockets, waiting, idx, rr, answers>>
clockVars == <<idle, unfed>>
boundVars == <<sentSettings, sentRequests>>
vars == <<taskVars, clockVars, boundVars>>

\* Seeded defect: the response ports are not looked at.
Accepted_AnyResponse(s) ==
    /\ Len(s.req) \in 1 .. 2
    /\ 0 \notin Range(s.req)

\* validate_udp_listener
Accepted(s) ==
    /\ Len(s.req) \in 1 .. 2 /\ Len(s.resp) \in 1 .. 2
    /\ 0 \notin Range(s.req) /\ 0 \notin Range(s.resp)

NoSettings == [req |-> <<>>, resp |-> <<>>, type |-> "none"]
Datagram == [type : Types, came : Nat]
Places == {"first", "top", "gate", "open", "bindwait", "drain", "poll", "pause", "panic"}

Init ==
    /\ pc = "first" /\ settings = NoSettings /\ era = 0
    /\ inbox = <<>> /\ sockets = <<>> /\ waiting = <<>> /\ idx = 1
    /\ rr = 0 /\ answers = <<>>
    /\ idle = 0 /\ unfed = 0 /\ sentSettings = 0 /\ sentRequests = 0

---------------------------------------------------------------------------
(* The thread.  A step ends the wait before it. *)

Feed == idle' = 0 /\ unfed' = 0
NoFeed == idle' = 0 /\ UNCHANGED unfed

Take ==
    /\ inbox # <<>>
    /\ settings' = Head(inbox) /\ inbox' = Tail(inbox)
    /\ era' = era + 1

AwaitFirstSettings ==
    /\ pc = "first" /\ Take /\ pc' = "top"
    /\ NoFeed
    /\ UNCHANGED <<sockets, waiting, idx, rr, answers, boundVars>>

\* Seeded defect: the waits are sliced but do not feed.
WaitSlice_Unfed ==
    /\ \/ pc = "first" /\ inbox = <<>>
       \/ pc = "gate"
    /\ idle > 0 /\ NoFeed
    /\ UNCHANGED <<taskVars, boundVars>>

\* A second of recv_timeout, or fifty milliseconds of the lwIP gate, have passed.
WaitSlice ==
    /\ \/ pc = "first" /\ inbox = <<>>
       \/ pc = "gate"
    /\ idle > 0 /\ Feed
    /\ UNCHANGED <<taskVars, boundVars>>

LoopTop ==
    /\ pc = "top"
    /\ pc' = IF sockets = <<>> THEN "gate" ELSE "drain"
    /\ Feed
    /\ UNCHANGED <<settings, era, inbox, sockets, waiting, idx, rr, answers, boundVars>>

\* Both drivers signalled, or 120 s are over: the wait may end at any time.
GatePassed ==
    /\ pc = "gate" /\ pc' = "open"
    /\ NoFeed
    /\ UNCHANGED <<settings, era, inbox, sockets, waiting, idx, rr, answers, boundVars>>

\* open_sockets: one socket per request port; the first that cannot be bound
\* closes those before it.  A port can be bound once; any bind may fail.
OpenSockets ==
    /\ pc = "open"
    /\ \/ /\ IsInjective(settings.req)
          /\ sockets' = settings.req
          /\ waiting' = [i \in 1 .. Len(settings.req) |-> <<>>]
          /\ pc' = "drain"
       \/ /\ pc' = "bindwait"
          /\ UNCHANGED <<sockets, waiting>>
    /\ NoFeed
    /\ UNCHANGED <<settings, era, inbox, idx, rr, answers, boundVars>>

\* Seeded defect: bind is retried and nobody looks into the channel.
AwaitSettingsAfterBindFailure_Retry ==
    /\ pc = "bindwait" /\ pc' = "top"
    /\ NoFeed
    /\ UNCHANGED <<settings, era, inbox, sockets, waiting, idx, rr, answers, boundVars>>

\* The blocking recv after a failed bind, then `continue'.
AwaitSettingsAfterBindFailure ==
    /\ pc = "bindwait" /\ Take /\ pc' = "top"
    /\ NoFeed
    /\ UNCHANGED <<sockets, waiting, idx, rr, answers, boundVars>>

\* Seeded defect: the sockets of the old settings stay open.
TakeSettings_Kept ==
    /\ pc = "drain" /\ Take
    /\ NoFeed
    /\ UNCHANGED <<pc, sockets, waiting, idx, rr, answers, boundVars>>

\* One turn of the drain: the sockets are dropped, and what they held with them.
TakeSettings ==
    /\ pc = "drain" /\ Take
    /\ sockets' = <<>> /\ waiting' = <<>>
    /\ NoFeed
    /\ UNCHANGED <<pc, idx, rr, answers, boundVars>>

SettingsDrained ==
    /\ pc = "drain" /\ inbox = <<>>
    /\ pc' = IF sockets = <<>> THEN "pause" ELSE "poll"
    /\ idx' = 1
    /\ NoFeed
    /\ UNCHANGED <<settings, era, inbox, sockets, waiting, rr, answers, boundVars>>

Polling == pc = "poll" /\ idx <= Len(sockets)

\* The datagram that recv_from takes from the socket at idx.
Asked == Head(waiting[idx])

Receive ==
    /\ Polling /\ waiting[idx] # <<>>
    /\ waiting' = [waiting EXCEPT ![idx] = Tail(@)]
    /\ idx' = idx + 1
    /\ NoFeed
    /\ UNCHANGED <<settings, era, inbox, sockets, boundVars>>

ResponsePort == settings.resp[(rr % Len(settings.resp)) + 1]

\* Seeded defect: the turn passes with every datagram.
Ignore_Counted ==
    /\ Receive /\ Asked.type # settings.type
    /\ rr' = (rr + 1) % RRWidth
    /\ UNCHANGED <<pc, answers>>

\* Empty, no UTF-8, no JSON, or a type that is not asked for.
Ignore ==
    /\ Receive /\ Asked.type # settings.type
    /\ UNCHANGED <<pc, rr, answers>>

\* The turn passes to the next response port whether or not send_to succeeds;
\* the remainder by an empty list of ports panics, and a panic aborts.
Answer ==
    /\ Receive /\ Asked.type = settings.type
    /\ IF settings.resp = <<>>
       THEN pc' = "panic" /\ UNCHANGED <<rr, answers>>
       ELSE /\ answers' = Append(answers,
                 [via |-> sockets[idx], to |-> ResponsePort, by |-> settings,
                  era |-> era, asked |-> Asked])
            /\ rr' = (rr + 1) % RRWidth
            /\ UNCHANGED pc

\* Seeded defect: a pass ends after its first socket.
PollNothing_Break ==
    /\ Polling /\ waiting[idx] = <<>>
    /\ idx' = Len(sockets) + 1
    /\ NoFeed
    /\ UNCHANGED <<pc, settings, era, inbox, sockets, waiting, rr, answers, boundVars>>

\* recv_from would block.
PollNothing ==
    /\ Polling /\ waiting[idx] = <<>>
    /\ idx' = idx + 1
    /\ NoFeed
    /\ UNCHANGED <<pc, settings, era, inbox, sockets, waiting, rr, answers, boundVars>>

PollDone ==
    /\ pc = "poll" /\ idx > Len(sockets) /\ pc' = "pause"
    /\ NoFeed
    /\ UNCHANGED <<settings, era, inbox, sockets, waiting, idx, rr, answers, boundVars>>

\* delay_ms at the end of a pass
PauseOver ==
    /\ pc = "pause" /\ pc' = "top"
    /\ NoFeed
    /\ UNCHANGED <<settings, era, inbox, sockets, waiting, idx, rr, answers, boundVars>>

TaskStep ==
    \/ AwaitFirstSettings \/ WaitSlice \/ LoopTop \/ GatePassed
    \/ OpenSockets \/ AwaitSettingsAfterBindFailure
    \/ TakeSettings \/ SettingsDrained
    \/ Ignore \/ Answer \/ PollNothing \/ PollDone \/ PauseOver

---------------------------------------------------------------------------
(* The master, the network, time and the watchdog. *)

\* service_settings::decode hands on what it accepts; the rest is dropped.
SendSettings ==
    /\ sentSettings < MaxSettings /\ sentSettings' = sentSettings + 1
    /\ \E s \in Messages : Accepted(s) /\ inbox' = Append(inbox, s)
    /\ UNCHANGED <<pc, settings, era, sockets, waiting, idx, rr, answers,
                   clockVars, sentRequests>>

DatagramArrives ==
    /\ sentRequests < MaxRequests /\ sentRequests' = sentRequests + 1
    /\ \E i \in DOMAIN waiting, type \in Types :
         waiting' = [waiting EXCEPT ![i] = Append(@, [type |-> type, came |-> era])]
    /\ UNCHANGED <<pc, settings, era, inbox, sockets, idx, rr, answers,
                   clockVars, sentSettings>>

\* A unit of time passes in a wait; all last one unit but the blocking recv,
\* which returns at once when there is a message.
Tick ==
    /\ \/ pc \in {"first", "gate", "pause"} /\ idle = 0
       \/ pc = "bindwait" /\ inbox = <<>>
    /\ idle' = 1 /\ unfed' = unfed + 1
    /\ UNCHANGED <<taskVars, boundVars>>

\* wdt.rs: a subscribed task that does not feed in time has the chip reset.
Starved == unfed > WdtLimit

\* After the reset the task starts anew and knows nothing.
Reset ==
    /\ Starved
    /\ pc' = "first" /\ settings' = NoSettings
    /\ inbox' = <<>> /\ sockets' = <<>> /\ waiting' = <<>> /\ idx' = 1
    /\ rr' = 0 /\ Feed
    /\ UNCHANGED <<era, answers, boundVars>>

Next ==
    \/ ~Starved /\ (TaskStep \/ SendSettings \/ DatagramArrives \/ Tick)
    \/ Reset

Spec == Init /\ [][Next]_vars

\* The thread runs, its clock runs, and the wait of the lwIP gate has a limit.
FairSpec ==
    /\ Spec
    /\ WF_vars(~Starved /\ TaskStep) /\ WF_vars(~Starved /\ Tick)
    /\ WF_vars(~Starved /\ GatePassed) /\ WF_vars(Reset)

---------------------------------------------------------------------------
(* Properties. *)

\* The variables have their types; in particular no discovery request makes
\* the task panic, whatever settings the decoder lets through.
TypeOK ==
    /\ pc \in Places \ {"panic"}
    /\ settings \in {NoSettings} \cup Messages
    /\ inbox \in Seq(Messages)
    /\ sockets \in Seq(Nat) /\ DOMAIN waiting = DOMAIN sockets
    /\ \A i \in DOMAIN waiting : waiting[i] \in Seq(Datagram)
    /\ idx \in Nat \ {0} /\ rr \in 0 .. RRWidth - 1
    /\ era \in Nat /\ idle \in 0 .. 1 /\ unfed \in Nat

\* A request is answered by the settings it was sent under: it came after they
\* were taken, it asks for their type, and the answer leaves through one of
\* their request ports for one of their response ports, across every change.
AnswersInForce ==
    \A n \in DOMAIN answers :
        LET a == answers[n]
        IN  /\ a.asked.came = a.era /\ a.asked.type = a.by.type
            /\ a.via \in Range(a.by.req) /\ a.to \in Range(a.by.resp)

\* Two response ports take turns, also when response_rr wraps and whatever was
\* ignored in between.
RoundRobin ==
    \A n \in 1 .. Len(answers) - 1 :
        LET a == answers[n]
            b == answers[n + 1]
        IN  a.era = b.era /\ Len(a.by.resp) = 2 /\ a.by.resp[1] # a.by.resp[2]
              => a.to # b.to

\* The watchdog can only fire while the task is blocked after a failed bind.
StarvesOnlyAfterBindFailure == Starved => pc = "bindwait"

\* CONTEXT.md: feeds are placed in all long-running loops and wait loops.
NeverStarved == ~Starved

\* All settings that were sent are taken in the end: no wait of the task ignores
\* its channel, and none is still in it when the watchdog resets the chip.
SettingsTaken ==
    \A n \in 1 .. MaxSettings : sentSettings >= n ~> era >= n

\* A datagram in a socket is read or dropped with the socket: no socket waits
\* for ever behind another.
EverySocketServed ==
    \A i \in 1 .. 2 :
        (i \in DOMAIN waiting /\ waiting[i] # <<>>)
          ~> (i \notin DOMAIN waiting \/ waiting[i] = <<>>)
===========================================================================

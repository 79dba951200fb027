----------------------------- MODULE HostLink -----------------------------
(***************************************************************************)
(* The life of the firmware on the link to its master (main.rs): boot, the *)
(* announcement with READY, the dispatch of the frames received to the     *)
(* channels of the tasks, the queue of frames to send, and resets, after   *)
(* which all of it starts anew.                                            *)
(*                                                                         *)
(* A frame from the master is the task it is for, or "none" if no decoder  *)
(* takes it, and a serial number; of the frames to the master only READY   *)
(* is told from the others.  Framing is in UartFraming, the tasks are in   *)
(* TcpServer, Links, UdpListener and ScanResponse.                         *)
(***************************************************************************)
EXTENDS Integers, Sequences, SequencesExt

CONSTANTS
    Tasks,      \* the receivers of decoded messages
    Reasons,    \* BootReason
    Period,     \* passes between two READY
    MaxQueue,   \* bound: frames in the transmit queue when a second passes
    MaxFrames,  \* bound: frames of the master
    MaxStates,  \* bound: frames of the tasks
    MaxResets   \* bound: resets

ASSUME TasksAssumption == "none" \notin Tasks
ASSUME PeriodAssumption == Period \in Nat \ {0}
ASSUME BoundsAssumption == MaxQueue \in Nat /\ MaxFrames \in Nat /\ MaxStates \in Nat
                           /\ MaxResets \in Nat

VARIABLES
    pc,          \* where `main' is
    bootReason,  \* what esp_reset_reason answers
    hasMaster,   \* has_master_message
    readyTick,   \* ready_tick
    rxQueue,     \* frames from uart-rx-task
    channels,    \* task -> what was handed to it in this boot
    running,     \* tasks whose channel still has its receiver
    txQueue,     \* frames for uart-tx-task
    arrived,     \* history: what uart-rx-task delivered in this boot
    firstOut,    \* history: the first frame queued in this boot
    lateReady,   \* history: READY queued since the first frame arrived
    silence,     \* seconds since a READY was queued
    masterKnows, \* the master heard a READY of this boot
    sentFrames, sentStates, resets

hostVars  == <<pc, bootReason, hasMaster, readyTick, rxQueue, channels, running>>
ghostVars == <<arrived, firstOut, lateReady, silence>>
boundVars == <<sentFrames, sentStates, resets>>
vars == <<hostVars, txQueue, ghostVars, masterKnows, boundVars>>

Ready(reason) == [kind |-> "Ready", reason |-> reason]
State == [kind |-> "State"]
NoFrame == [kind |-> "None"]

Init ==
    /\ pc = "boot" /\ bootReason \in Reasons /\ hasMaster = FALSE /\ readyTick = 0
    /\ rxQueue = <<>> /\ channels = [t \in Tasks |-> <<>>] /\ running = Tasks
    /\ txQueue = <<>>
    /\ arrived = <<>> /\ firstOut = NoFrame /\ lateReady = 0 /\ silence = 0
    /\ masterKnows = FALSE
    /\ sentFrames = 0 /\ sentStates = 0 /\ resets = 0

---------------------------------------------------------------------------
(* Queueing *)

Queue(frame) ==
    /\ txQueue' = Append(txQueue, frame)
    /\ firstOut' = IF firstOut = NoFrame THEN frame ELSE firstOut

QueueReady ==
    /\ Queue(Ready(bootReason))
    /\ silence' = 0
    /\ lateReady' = IF arrived = <<>> THEN 0 ELSE lateReady + 1

---------------------------------------------------------------------------
(* main *)

\* uart-tx-task and uart-rx-task are spawned; from now on frames arrive.
StartUart ==
    /\ pc = "boot" /\ pc' = "announce"
    /\ UNCHANGED <<bootReason, hasMaster, readyTick, rxQueue, channels, running, txQueue,
                   ghostVars, masterKnows, boundVars>>

\* Seeded defect: the tasks are spawned before READY is queued.
Announce_Late ==
    /\ pc = "announce" /\ pc' = "spawned"
    /\ UNCHANGED <<bootReason, hasMaster, readyTick, rxQueue, channels, running, txQueue,
                   ghostVars, masterKnows, boundVars>>

\* READY is queued before any task is spawned that could queue something else.
Announce ==
    /\ pc = "announce" /\ pc' = "spawned"
    /\ QueueReady
    /\ UNCHANGED <<bootReason, hasMaster, readyTick, rxQueue, channels, running, arrived,
                   masterKnows, boundVars>>

EnterLoop ==
    /\ pc = "spawned" /\ pc' = "drain"
    /\ UNCHANGED <<bootReason, hasMaster, readyTick, rxQueue, channels, running, txQueue,
                   ghostVars, masterKnows, boundVars>>

\* Seeded defect: a message nobody takes ends the pass with what waits behind it.
Dispatch_DropsRest ==
    /\ pc = "drain" /\ rxQueue # <<>>
    /\ hasMaster' = TRUE
    /\ LET m == Head(rxQueue)
       IN  IF m.to \in running
           THEN channels' = [channels EXCEPT ![m.to] = Append(@, m)] /\ rxQueue' = Tail(rxQueue)
           ELSE rxQueue' = <<>> /\ UNCHANGED channels
    /\ UNCHANGED <<pc, bootReason, readyTick, running, txQueue, ghostVars, masterKnows, boundVars>>

\* Seeded defect: only a message that is decoded counts as the first packet.
Dispatch_Forgets ==
    /\ pc = "drain" /\ rxQueue # <<>>
    /\ hasMaster' = (Head(rxQueue).to # "none")
    /\ rxQueue' = Tail(rxQueue)
    /\ LET m == Head(rxQueue)
       IN  channels' = IF m.to \in running
                       THEN [channels EXCEPT ![m.to] = Append(@, m)] ELSE channels
    /\ UNCHANGED <<pc, bootReason, readyTick, running, txQueue, ghostVars, masterKnows, boundVars>>

\* Seeded defect: the decoder does not look at the interface a message is about.
Dispatch_ToAll ==
    /\ pc = "drain" /\ rxQueue # <<>>
    /\ hasMaster' = TRUE
    /\ rxQueue' = Tail(rxQueue)
    /\ channels' = [t \in Tasks |-> IF t \in running /\ Head(rxQueue).to \in Tasks
                                   THEN Append(channels[t], Head(rxQueue)) ELSE channels[t]]
    /\ UNCHANGED <<pc, bootReason, readyTick, running, txQueue, ghostVars, masterKnows, boundVars>>

\* Any valid frame is a sign of the master; it goes to the channel of its task
\* if its decoder takes it and the task still receives.
Dispatch ==
    /\ pc = "drain" /\ rxQueue # <<>>
    /\ hasMaster' = TRUE
    /\ rxQueue' = Tail(rxQueue)
    /\ LET m == Head(rxQueue)
       IN  channels' = IF m.to \in running
                       THEN [channels EXCEPT ![m.to] = Append(@, m)] ELSE channels
    /\ UNCHANGED <<pc, bootReason, readyTick, running, txQueue, ghostVars, masterKnows, boundVars>>

Drained ==
    /\ pc = "drain" /\ rxQueue = <<>> /\ pc' = "ready"
    /\ UNCHANGED <<bootReason, hasMaster, readyTick, rxQueue, channels, running, txQueue,
                   ghostVars, masterKnows, boundVars>>

\* Seeded defect: the counter stops at its end.
NextTick_Saturates == readyTick' = IF readyTick < Period THEN readyTick + 1 ELSE Period

\* Seeded defect: the counter takes one pass too many.
NextTick_OneMore == readyTick' = (readyTick + 1) % (Period + 1)

NextTick == readyTick' = (readyTick + 1) % Period

Broadcast ==
    /\ pc = "ready" /\ pc' = "delay"
    /\ IF ~hasMaster /\ readyTick = 0
       THEN QueueReady
       ELSE UNCHANGED <<txQueue, firstOut, silence, lateReady>>
    /\ NextTick
    /\ UNCHANGED <<bootReason, hasMaster, rxQueue, channels, running, arrived, masterKnows,
                   boundVars>>

\* A second passes; once the master is there nobody counts them, and no
\* further than past the period.
DelayOver ==
    /\ pc = "delay" /\ pc' = "drain" /\ Len(txQueue) <= MaxQueue
    /\ silence' = IF hasMaster \/ silence > Period THEN silence ELSE silence + 1
    /\ UNCHANGED <<bootReason, hasMaster, readyTick, rxQueue, channels, running, txQueue,
                   arrived, firstOut, lateReady, masterKnows, boundVars>>

MainStep ==
    \/ StartUart \/ Announce \/ EnterLoop \/ Dispatch \/ Drained \/ Broadcast \/ DelayOver

---------------------------------------------------------------------------
(* The tasks, the line, the master and resets *)

\* A task reports a state.
TaskReports ==
    /\ pc \notin {"boot", "announce"} /\ sentStates < MaxStates
    /\ sentStates' = sentStates + 1
    /\ Queue(State)
    /\ UNCHANGED <<hostVars, arrived, lateReady, silence, masterKnows, sentFrames, resets>>

\* A task whose driver cannot be initialised returns; its channel has no receiver.
TaskEnds ==
    /\ pc \notin {"boot", "announce"}
    /\ \E t \in running : running' = running \ {t}
    /\ UNCHANGED <<pc, bootReason, hasMaster, readyTick, rxQueue, channels, txQueue, ghostVars,
                   masterKnows, boundVars>>

\* A frame of the master reaches uart-rx-task; a READY need not have preceded it.
FrameArrives ==
    /\ pc # "boot" /\ sentFrames < MaxFrames /\ sentFrames' = sentFrames + 1
    /\ \E t \in Tasks \cup {"none"} :
         LET m == [to |-> t, n |-> sentFrames]
         IN  rxQueue' = Append(rxQueue, m) /\ arrived' = Append(arrived, m)
    /\ UNCHANGED <<pc, bootReason, hasMaster, readyTick, channels, running, txQueue, firstOut,
                   lateReady, silence, masterKnows, sentStates, resets>>

Transmit ==
    /\ pc # "boot" /\ txQueue # <<>> /\ txQueue' = Tail(txQueue)
    /\ UNCHANGED <<hostVars, ghostVars, boundVars>>

\* The master gets the frame whole.
Transmitted == Transmit /\ masterKnows' = (masterKnows \/ Head(txQueue).kind = "Ready")

\* The result of the write is ignored and the line may damage a frame: what is
\* not written in full is never written again.
TransmitLost == Transmit /\ UNCHANGED masterKnows

\* The watchdog, a panic or the supply: nothing survives but the reason.
Reset ==
    /\ resets < MaxResets /\ resets' = resets + 1
    /\ pc' = "boot" /\ bootReason' \in Reasons /\ hasMaster' = FALSE /\ readyTick' = 0
    /\ rxQueue' = <<>> /\ channels' = [t \in Tasks |-> <<>>] /\ running' = Tasks
    /\ txQueue' = <<>>
    /\ arrived' = <<>> /\ firstOut' = NoFrame /\ lateReady' = 0 /\ silence' = 0
    /\ masterKnows' = FALSE
    /\ UNCHANGED <<sentFrames, sentStates>>

Next ==
    \/ MainStep \/ TaskReports \/ TaskEnds \/ FrameArrives
    \/ Transmitted \/ TransmitLost \/ Reset

Spec == Init /\ [][Next]_vars

\* main and uart-tx-task are scheduled, and the line does not lose every READY
\* of a sequence without end.
FairSpec ==
    /\ Spec
    /\ WF_vars(MainStep) /\ WF_vars(Transmitted \/ TransmitLost)
    /\ SF_vars(Transmitted /\ Head(txQueue).kind = "Ready")

---------------------------------------------------------------------------
(* Properties *)

FrameFor(tasks) == [to : tasks, n : Nat]
OutFrame == {Ready(r) : r \in Reasons} \cup {State}

TypeOK ==
    /\ pc \in {"boot", "announce", "spawned", "drain", "ready", "delay"}
    /\ bootReason \in Reasons /\ hasMaster \in BOOLEAN /\ readyTick \in 0 .. Period - 1
    /\ rxQueue \in Seq(FrameFor(Tasks \cup {"none"}))
    /\ DOMAIN channels = Tasks /\ \A t \in Tasks : channels[t] \in Seq(FrameFor({t}))
    /\ running \in SUBSET Tasks /\ txQueue \in Seq(OutFrame)
    /\ arrived \in Seq(FrameFor(Tasks \cup {"none"}))
    /\ firstOut \in OutFrame \cup {NoFrame}
    /\ lateReady \in Nat /\ silence \in Nat /\ masterKnows \in BOOLEAN
    /\ sentFrames \in Nat /\ sentStates \in Nat /\ resets \in Nat

\* Whatever the tasks do, the first frame of a boot is READY with the reason of
\* the reset: the master learns of it before it sees any state of the new boot.
FirstFrameIsReady == firstOut \in {NoFrame, Ready(bootReason)}

\* README 3.3: READY is sent until the first valid frame.  The loop may send one
\* more that it could not know to be late, and none after that until a reset.
ReadyStopsInTime == lateReady <= 1

\* README 3.3: every five seconds.  A slave without a master is never silent for
\* longer.
ReadyPeriod == ~hasMaster => silence <= Period

\* The messages of q that are for task t, in order.
MessagesFor(t, q) ==
    LET Upto[n \in 0 .. Len(q)] ==
          IF n = 0 THEN <<>>
          ELSE IF q[n].to = t THEN Append(Upto[n - 1], q[n]) ELSE Upto[n - 1]
    IN  Upto[Len(q)]

\* Of what arrived, each running task was handed its messages in order, except
\* those that still wait in the queue of the main loop.
Dispatched ==
    \A t \in running :
        channels[t] \o MessagesFor(t, rxQueue) = MessagesFor(t, arrived)

\* The main loop and its channels are the mailboxes of the tasks: at every step,
\* and not only in the end, what a task was handed is the next message for it.
Mail == INSTANCE Mailboxes WITH
    posted <- [t \in Tasks |-> MessagesFor(t, arrived)], handed <- channels,
    open <- running, Message <- [to : Tasks, n : 0 .. MaxFrames - 1]
ImplementsMailboxes == Mail!Spec

\* A slave that nobody talks to makes itself known in the end, over a line that
\* loses any number of frames, after every reset.
Announced == ~hasMaster ~> hasMaster \/ masterKnows
============================================================================

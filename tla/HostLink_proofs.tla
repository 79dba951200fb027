------------------------- MODULE HostLink_proofs -------------------------
(* Proofs about HostLink: for any tasks, any period of READY, any traffic  *)
(* and any number of resets.                                               *)
EXTENDS HostLink, RecursionLemmas

LEMMA HeadTail ==
    ASSUME NEW S, NEW q \in Seq(S), q # <<>>
    PROVE  Head(q) \in S /\ Tail(q) \in Seq(S)
  BY SMT

LEMMA AppendType ==
    ASSUME NEW S, NEW q \in Seq(S), NEW e \in S
    PROVE  Append(q, e) \in Seq(S) /\ Append(q, e) # <<>>
  <1>1. Append(q, e) \in Seq(S) /\ Len(Append(q, e)) = Len(q) + 1
    BY SMT
  <1>2. Len(q) \in Nat /\ Len(<<>>) = 0
    BY SMT
  <1>. QED  BY <1>1, <1>2

LEMMA NextTickType ==
    ASSUME TypeOK, NextTick
    PROVE  /\ readyTick' \in 0 .. Period - 1
           /\ readyTick' = IF readyTick + 1 = Period THEN 0 ELSE readyTick + 1
  <1>1. readyTick \in 0 .. Period - 1 /\ Period \in Nat \ {0} /\ readyTick' = (readyTick + 1) % Period
    BY PeriodAssumption DEF TypeOK, NextTick
  <1>2. CASE readyTick + 1 = Period
    <2>1. (readyTick + 1) % Period = 0
      BY <1>1, <1>2
    <2>. QED  BY <2>1, <1>1, <1>2
  <1>3. CASE readyTick + 1 < Period
    <2>1. (readyTick + 1) % Period = readyTick + 1
      BY <1>1, <1>3
    <2>. QED  BY <2>1, <1>1, <1>3
  <1>. QED  BY <1>1, <1>2, <1>3

LEMMA QueueType ==
    ASSUME TypeOK, NEW frame \in OutFrame, Queue(frame)
    PROVE  txQueue' \in Seq(OutFrame) /\ firstOut' \in OutFrame \cup {NoFrame}
  BY AppendType DEF TypeOK, Queue

LEMMA QueueReadyType ==
    ASSUME TypeOK, QueueReady
    PROVE  /\ txQueue' \in Seq(OutFrame) /\ firstOut' \in OutFrame \cup {NoFrame}
           /\ lateReady' \in Nat /\ silence' \in Nat
  <1>1. Ready(bootReason) \in OutFrame
    BY DEF TypeOK, OutFrame
  <1>2. lateReady' \in Nat /\ silence' \in Nat
    BY DEF TypeOK, QueueReady
  <1>. QED  BY <1>1, <1>2, QueueType DEF QueueReady

LEMMA EmptyType ==
    /\ 0 \in 0 .. Period - 1 /\ <<>> \in Seq(OutFrame)
    /\ <<>> \in Seq(FrameFor(Tasks \cup {"none"}))
    /\ \A t \in Tasks : [u \in Tasks |-> <<>>][t] \in Seq(FrameFor({t}))
  BY PeriodAssumption

LEMMA TypeInit == Init => TypeOK
  <1>. SUFFICES ASSUME Init PROVE TypeOK
    OBVIOUS
  <1>1. /\ rxQueue \in Seq(FrameFor(Tasks \cup {"none"}))
        /\ arrived \in Seq(FrameFor(Tasks \cup {"none"}))
        /\ txQueue \in Seq(OutFrame) /\ \A t \in Tasks : channels[t] \in Seq(FrameFor({t}))
        /\ DOMAIN channels = Tasks
    BY EmptyType DEF Init
  <1>2. readyTick \in 0 .. Period - 1 /\ firstOut \in OutFrame \cup {NoFrame}
    BY EmptyType DEF Init
  <1>3. /\ pc = "boot" /\ bootReason \in Reasons /\ hasMaster = FALSE /\ running = Tasks
        /\ lateReady = 0 /\ silence = 0 /\ masterKnows = FALSE
        /\ sentFrames = 0 /\ sentStates = 0 /\ resets = 0
    BY DEF Init
  <1>. QED  BY <1>1, <1>2, <1>3 DEF TypeOK

LEMMA TypeStep == TypeOK /\ [Next]_vars => TypeOK'
  <1>. SUFFICES ASSUME TypeOK, [Next]_vars PROVE TypeOK'
    OBVIOUS
  <1>1. CASE StartUart
    BY <1>1 DEF StartUart, TypeOK, ghostVars, boundVars
  <1>2. CASE Announce
    BY <1>2, QueueReadyType DEF Announce, TypeOK, boundVars
  <1>3. CASE EnterLoop
    BY <1>3 DEF EnterLoop, TypeOK, ghostVars, boundVars
  <1>4. CASE Dispatch
    <2>. DEFINE m == Head(rxQueue)
    <2>1. m \in FrameFor(Tasks \cup {"none"}) /\ rxQueue' \in Seq(FrameFor(Tasks \cup {"none"}))
      BY <1>4, HeadTail DEF Dispatch, TypeOK
    <2>2. channels' = IF m.to \in running
                      THEN [channels EXCEPT ![m.to] = Append(@, m)] ELSE channels
      BY <1>4 DEF Dispatch
    <2>3. m \in FrameFor({m.to})
      BY <2>1 DEF FrameFor
    <2>. HIDE DEF m
    <2>4. \A t \in Tasks : channels'[t] \in Seq(FrameFor({t}))
      <3>1. CASE m.to \in running
        <4>1. m.to \in Tasks
          BY <3>1 DEF TypeOK
        <4>2. Append(channels[m.to], m) \in Seq(FrameFor({m.to}))
          BY <4>1, <2>3, AppendType DEF TypeOK
        <4>3. \A t \in Tasks : t # m.to => channels'[t] = channels[t]
          BY <3>1, <2>2
        <4>4. channels'[m.to] = Append(channels[m.to], m) \/ channels'[m.to] = channels[m.to]
          BY <3>1, <2>2
        <4>. QED  BY <4>1, <4>2, <4>3, <4>4 DEF TypeOK
      <3>2. CASE m.to \notin running
        BY <3>2, <2>2 DEF TypeOK
      <3>. QED  BY <3>1, <3>2
    <2>. QED  BY <2>1, <2>4, <1>4 DEF Dispatch, TypeOK, ghostVars, boundVars
  <1>5. CASE Drained
    BY <1>5 DEF Drained, TypeOK, ghostVars, boundVars
  <1>6. CASE Broadcast
    <2>1. readyTick' \in 0 .. Period - 1
      BY <1>6, NextTickType DEF Broadcast
    <2>2. /\ txQueue' \in Seq(OutFrame) /\ firstOut' \in OutFrame \cup {NoFrame}
          /\ lateReady' \in Nat /\ silence' \in Nat
      BY <1>6, QueueReadyType DEF Broadcast, TypeOK
    <2>. QED  BY <2>1, <2>2, <1>6 DEF Broadcast, TypeOK, boundVars
  <1>7. CASE DelayOver
    BY <1>7 DEF DelayOver, TypeOK, boundVars
  <1>8. CASE TaskReports
    <2>1. State \in OutFrame
      BY DEF OutFrame
    <2>2. txQueue' \in Seq(OutFrame) /\ firstOut' \in OutFrame \cup {NoFrame}
      BY <2>1, <1>8, QueueType DEF TaskReports
    <2>. QED  BY <2>2, <1>8 DEF TaskReports, TypeOK, hostVars
  <1>9. CASE TaskEnds
    BY <1>9 DEF TaskEnds, TypeOK, ghostVars, boundVars
  <1>10. CASE FrameArrives
    <2>1. PICK t \in Tasks \cup {"none"} :
             /\ rxQueue' = Append(rxQueue, [to |-> t, n |-> sentFrames])
             /\ arrived' = Append(arrived, [to |-> t, n |-> sentFrames])
      BY <1>10 DEF FrameArrives
    <2>2. [to |-> t, n |-> sentFrames] \in FrameFor(Tasks \cup {"none"})
      BY DEF FrameFor, TypeOK
    <2>3. /\ rxQueue' \in Seq(FrameFor(Tasks \cup {"none"}))
          /\ arrived' \in Seq(FrameFor(Tasks \cup {"none"}))
      BY <2>1, <2>2, AppendType DEF TypeOK
    <2>4. /\ sentFrames' = sentFrames + 1
          /\ UNCHANGED <<pc, bootReason, hasMaster, readyTick, channels, running, txQueue,
                         firstOut, lateReady, silence, masterKnows, sentStates, resets>>
      BY <1>10 DEF FrameArrives
    <2>5. /\ sentFrames' \in Nat /\ sentStates' \in Nat /\ resets' \in Nat
          /\ lateReady' \in Nat /\ silence' \in Nat /\ masterKnows' \in BOOLEAN
      BY <2>4 DEF TypeOK
    <2>6. /\ DOMAIN channels' = Tasks /\ \A u \in Tasks : channels'[u] \in Seq(FrameFor({u}))
          /\ running' \in SUBSET Tasks /\ txQueue' \in Seq(OutFrame)
          /\ firstOut' \in OutFrame \cup {NoFrame}
      BY <2>4 DEF TypeOK
    <2>7. /\ pc' \in {"boot", "announce", "spawned", "drain", "ready", "delay"}
          /\ bootReason' \in Reasons /\ hasMaster' \in BOOLEAN /\ readyTick' \in 0 .. Period - 1
      BY <2>4 DEF TypeOK
    <2>. QED  BY <2>3, <2>5, <2>6, <2>7 DEF TypeOK
  <1>11. CASE Transmit /\ masterKnows' \in BOOLEAN
    <2>1. txQueue' \in Seq(OutFrame)
      BY <1>11, HeadTail DEF Transmit, TypeOK
    <2>. QED  BY <2>1, <1>11 DEF Transmit, TypeOK, hostVars, ghostVars, boundVars
  <1>12. Transmitted \/ TransmitLost => Transmit /\ masterKnows' \in BOOLEAN
    BY DEF Transmitted, TransmitLost, TypeOK
  <1>13. CASE Reset
    <2>1. /\ resets' \in Nat /\ sentFrames' \in Nat /\ sentStates' \in Nat
          /\ pc' = "boot" /\ bootReason' \in Reasons /\ hasMaster' = FALSE /\ masterKnows' = FALSE
      BY <1>13 DEF Reset, TypeOK
    <2>2. readyTick' \in 0 .. Period - 1 /\ lateReady' \in Nat /\ silence' \in Nat
      BY <1>13, EmptyType DEF Reset
    <2>3. /\ rxQueue' \in Seq(FrameFor(Tasks \cup {"none"}))
          /\ arrived' \in Seq(FrameFor(Tasks \cup {"none"}))
          /\ txQueue' \in Seq(OutFrame) /\ \A t \in Tasks : channels'[t] \in Seq(FrameFor({t}))
          /\ DOMAIN channels' = Tasks
      BY <1>13, EmptyType DEF Reset
    <2>4. running' \in SUBSET Tasks /\ firstOut' \in OutFrame \cup {NoFrame}
      BY <1>13 DEF Reset
    <2>. QED  BY <2>1, <2>2, <2>3, <2>4 DEF TypeOK
  <1>14. CASE UNCHANGED vars
    BY <1>14 DEF vars, hostVars, ghostVars, boundVars, TypeOK
  <1>. QED
    BY <1>1, <1>2, <1>3, <1>4, <1>5, <1>6, <1>7, <1>8, <1>9, <1>10, <1>11, <1>12, <1>13,
       <1>14 DEF Next, MainStep

\* The host keeps its types through every reset.
THEOREM HostTypeCorrect == Spec => []TypeOK
  BY TypeInit, TypeStep, PTL DEF Spec

---------------------------------------------------------------------------
(* The announcement.                                                       *)

\* Nothing is queued before READY; what is queued first stays first.
First ==
    IF pc \in {"boot", "announce"} THEN firstOut = NoFrame ELSE firstOut = Ready(bootReason)

\* Before the first frame is handled all that arrived still waits, and a pass
\* that gets to the broadcast without a master saw an empty queue.
Late ==
    /\ lateReady <= 1
    /\ arrived = <<>> => lateReady = 0 /\ rxQueue = <<>>
    /\ ~hasMaster /\ arrived # <<>> => rxQueue # <<>>
    /\ ~hasMaster /\ pc \in {"boot", "announce", "ready"} => lateReady = 0
    /\ pc \in {"boot", "announce", "spawned"} => ~hasMaster

Due == IF readyTick = 0 THEN Period ELSE readyTick

\* The seconds of silence and the tick run together.
Clock ==
    ~hasMaster =>
        /\ pc \in {"boot", "announce", "spawned"} => readyTick = 0 /\ silence = 0
        /\ pc \in {"drain", "ready"} => silence <= Due
        /\ pc = "delay" => silence + 1 <= Due

AnnounceInv == First /\ Late /\ Clock

LEMMA AnnounceInit == Init => AnnounceInv
  BY DEF Init, AnnounceInv, First, Late, Clock

LEMMA FirstStep == TypeOK /\ First /\ [Next]_vars => First'
  <1>. SUFFICES ASSUME TypeOK, First, [Next]_vars PROVE First'
    OBVIOUS
  <1>1. CASE StartUart
    BY <1>1 DEF StartUart, First, ghostVars
  <1>2. CASE Announce
    BY <1>2 DEF Announce, QueueReady, Queue, First
  <1>3. CASE EnterLoop
    BY <1>3 DEF EnterLoop, First, ghostVars
  <1>4. CASE Dispatch
    BY <1>4 DEF Dispatch, First, ghostVars
  <1>5. CASE Drained
    BY <1>5 DEF Drained, First, ghostVars
  <1>6. CASE Broadcast
    BY <1>6 DEF Broadcast, QueueReady, Queue, First, Ready, NoFrame
  <1>7. CASE DelayOver
    BY <1>7 DEF DelayOver, First
  <1>8. CASE TaskReports
    BY <1>8 DEF TaskReports, Queue, First, hostVars, Ready, NoFrame
  <1>9. CASE TaskEnds
    BY <1>9 DEF TaskEnds, First, ghostVars
  <1>10. CASE FrameArrives
    BY <1>10 DEF FrameArrives, First
  <1>11. CASE Transmitted \/ TransmitLost
    BY <1>11 DEF Transmitted, TransmitLost, Transmit, First, hostVars, ghostVars
  <1>12. CASE Reset
    BY <1>12 DEF Reset, First
  <1>13. CASE UNCHANGED vars
    BY <1>13 DEF vars, hostVars, ghostVars, First
  <1>. QED
    BY <1>1, <1>2, <1>3, <1>4, <1>5, <1>6, <1>7, <1>8, <1>9, <1>10, <1>11, <1>12, <1>13
       DEF Next, MainStep

LEMMA LateStep == TypeOK /\ Late /\ [Next]_vars => Late'
  <1>. SUFFICES ASSUME TypeOK, Late, [Next]_vars PROVE Late'
    OBVIOUS
  <1>t. lateReady \in Nat /\ hasMaster \in BOOLEAN
    BY DEF TypeOK
  <1>1. CASE StartUart
    BY <1>1 DEF StartUart, Late, ghostVars
  <1>2. CASE Announce
    BY <1>2, <1>t DEF Announce, QueueReady, Late
  <1>3. CASE EnterLoop
    BY <1>3 DEF EnterLoop, Late, ghostVars
  <1>4. CASE Dispatch
    <2>1. /\ rxQueue # <<>> /\ hasMaster' = TRUE /\ pc = "drain" /\ pc' = pc
          /\ UNCHANGED <<arrived, lateReady>>
      BY <1>4 DEF Dispatch, ghostVars
    <2>. QED  BY <2>1 DEF Late
  <1>5. CASE Drained
    BY <1>5 DEF Drained, Late, ghostVars
  <1>6. CASE Broadcast
    BY <1>6, <1>t DEF Broadcast, QueueReady, Late
  <1>7. CASE DelayOver
    BY <1>7 DEF DelayOver, Late
  <1>8. CASE TaskReports
    BY <1>8 DEF TaskReports, Late, hostVars
  <1>9. CASE TaskEnds
    BY <1>9 DEF TaskEnds, Late, ghostVars
  <1>10. CASE FrameArrives
    <2>1. PICK t \in Tasks \cup {"none"} :
             /\ rxQueue' = Append(rxQueue, [to |-> t, n |-> sentFrames])
             /\ arrived' = Append(arrived, [to |-> t, n |-> sentFrames])
      BY <1>10 DEF FrameArrives
    <2>2. [to |-> t, n |-> sentFrames] \in FrameFor(Tasks \cup {"none"})
      BY DEF FrameFor, TypeOK
    <2>3. rxQueue' # <<>> /\ arrived' # <<>>
      BY <2>1, <2>2, AppendType DEF TypeOK
    <2>. QED  BY <2>3, <1>10 DEF FrameArrives, Late
  <1>11. CASE Transmitted \/ TransmitLost
    BY <1>11 DEF Transmitted, TransmitLost, Transmit, Late, hostVars, ghostVars
  <1>12. CASE Reset
    BY <1>12 DEF Reset, Late
  <1>13. CASE UNCHANGED vars
    BY <1>13 DEF vars, hostVars, ghostVars, Late
  <1>. QED
    BY <1>1, <1>2, <1>3, <1>4, <1>5, <1>6, <1>7, <1>8, <1>9, <1>10, <1>11, <1>12, <1>13
       DEF Next, MainStep

LEMMA ClockStep == TypeOK /\ Late /\ Clock /\ [Next]_vars => Clock'
  <1>. SUFFICES ASSUME TypeOK, Late, Clock, [Next]_vars PROVE Clock'
    OBVIOUS
  <1>t. /\ silence \in Nat /\ readyTick \in 0 .. Period - 1 /\ Period \in Nat \ {0}
        /\ hasMaster \in BOOLEAN
    BY PeriodAssumption DEF TypeOK
  <1>1. CASE StartUart
    BY <1>1 DEF StartUart, Clock, Due, ghostVars
  <1>2. CASE Announce
    BY <1>2 DEF Announce, QueueReady, Clock, Due
  <1>3. CASE EnterLoop
    BY <1>3, <1>t DEF EnterLoop, Clock, Due, ghostVars
  <1>4. CASE Dispatch
    BY <1>4 DEF Dispatch, Clock
  <1>5. CASE Drained
    BY <1>5 DEF Drained, Clock, Due, ghostVars
  <1>6. CASE Broadcast
    <2>1. readyTick' = IF readyTick + 1 = Period THEN 0 ELSE readyTick + 1
      BY <1>6, NextTickType DEF Broadcast
    <2>2. CASE ~hasMaster /\ readyTick = 0
      <3>1. silence' = 0 /\ pc' = "delay"
        BY <1>6, <2>2 DEF Broadcast, QueueReady
      <3>. QED  BY <3>1, <2>1, <2>2, <1>t DEF Clock, Due
    <2>3. CASE ~hasMaster /\ readyTick # 0
      <3>1. silence' = silence /\ pc = "ready" /\ pc' = "delay"
        BY <1>6, <2>3 DEF Broadcast
      <3>2. silence <= readyTick
        BY <3>1, <2>3 DEF Clock, Due
      <3>. QED  BY <3>1, <3>2, <2>1, <2>3, <1>t DEF Clock, Due
    <2>4. CASE hasMaster
      BY <2>4, <1>6 DEF Broadcast, Clock
    <2>. QED  BY <2>2, <2>3, <2>4
  <1>7. CASE DelayOver
    BY <1>7, <1>t DEF DelayOver, Clock, Due
  <1>8. CASE TaskReports
    BY <1>8 DEF TaskReports, Clock, Due, hostVars
  <1>9. CASE TaskEnds
    BY <1>9 DEF TaskEnds, Clock, Due, ghostVars
  <1>10. CASE FrameArrives
    BY <1>10 DEF FrameArrives, Clock, Due
  <1>11. CASE Transmitted \/ TransmitLost
    BY <1>11 DEF Transmitted, TransmitLost, Transmit, Clock, Due, hostVars, ghostVars
  <1>12. CASE Reset
    BY <1>12 DEF Reset, Clock
  <1>13. CASE UNCHANGED vars
    BY <1>13 DEF vars, hostVars, ghostVars, Clock, Due
  <1>. QED
    BY <1>1, <1>2, <1>3, <1>4, <1>5, <1>6, <1>7, <1>8, <1>9, <1>10, <1>11, <1>12, <1>13
       DEF Next, MainStep

LEMMA AnnounceInvariant == Spec => [](TypeOK /\ AnnounceInv)
  <1>1. Init => TypeOK /\ AnnounceInv
    BY TypeInit, AnnounceInit
  <1>2. (TypeOK /\ AnnounceInv) /\ [Next]_vars => (TypeOK /\ AnnounceInv)'
    BY TypeStep, FirstStep, LateStep, ClockStep DEF AnnounceInv
  <1>. QED  BY <1>1, <1>2, PTL DEF Spec

\* Every boot starts with READY and the reason of its reset.
THEOREM HostFirstFrameIsReady == Spec => []FirstFrameIsReady
  <1>1. AnnounceInv => FirstFrameIsReady
    BY DEF AnnounceInv, First, FirstFrameIsReady
  <1>. QED  BY <1>1, AnnounceInvariant, PTL

\* At most one READY is queued after the first valid frame of a boot arrived.
THEOREM HostReadyStopsInTime == Spec => []ReadyStopsInTime
  <1>1. AnnounceInv => ReadyStopsInTime
    BY DEF AnnounceInv, Late, ReadyStopsInTime
  <1>. QED  BY <1>1, AnnounceInvariant, PTL

\* Without a master no more than a period passes between two READY.
THEOREM HostReadyPeriod == Spec => []ReadyPeriod
  <1>1. TypeOK /\ AnnounceInv => ReadyPeriod
    <2>. SUFFICES ASSUME TypeOK, AnnounceInv, ~hasMaster PROVE silence <= Period
      BY DEF ReadyPeriod
    <2>1. /\ silence \in Nat /\ readyTick \in 0 .. Period - 1 /\ Period \in Nat \ {0}
          /\ pc \in {"boot", "announce", "spawned", "drain", "ready", "delay"}
      BY PeriodAssumption DEF TypeOK
    <2>2. CASE pc \in {"boot", "announce", "spawned"}
      BY <2>1, <2>2 DEF AnnounceInv, Clock
    <2>3. CASE pc \in {"drain", "ready", "delay"}
      BY <2>1, <2>3 DEF AnnounceInv, Clock, Due
    <2>. QED  BY <2>1, <2>2, <2>3
  <1>. QED  BY <1>1, AnnounceInvariant, PTL

---------------------------------------------------------------------------
(* The dispatch.                                                           *)

\* What MessagesFor builds, message by message.
Collects(F, t, q) ==
    /\ F[0] = <<>>
    /\ \A n \in 1 .. Len(q) :
         F[n] = IF q[n].to = t THEN Append(F[n - 1], q[n]) ELSE F[n - 1]

CollectedIn(S, t, q) ==
    \E F \in [0 .. Len(q) -> Seq(S)] : Collects(F, t, q) /\ MessagesFor(t, q) = F[Len(q)]

LEMMA MessagesCollected ==
    ASSUME NEW S, NEW t, NEW q \in Seq(S)
    PROVE  CollectedIn(S, t, q)
  <1>. DEFINE N == Len(q)
              D == [0 .. N -> Seq(S)]
              Body(n, g) == IF n = 0 THEN <<>>
                            ELSE IF q[n].to = t THEN Append(g[n - 1], q[n]) ELSE g[n - 1]
              step == [n \in 0 .. N |-> [g \in D |-> Body(n, g)]]
              Upto == CHOOSE F : F = [n \in 0 .. N |-> Body(n, F)]
  <1>1. N \in Nat /\ \A n \in 1 .. N : q[n] \in S
    OBVIOUS
  <1>2. MessagesFor(t, q) = Upto[N]
    BY DEF MessagesFor
  <1>. HIDE DEF N
  <1>3. \A n \in 0 .. N : \A g \in D : Body(n, g) \in Seq(S)
    <2>. SUFFICES ASSUME NEW n \in 0 .. N, NEW g \in D PROVE Body(n, g) \in Seq(S)
      OBVIOUS
    <2>1. CASE n = 0
      BY <2>1
    <2>2. CASE n # 0
      <3>1. n \in 1 .. N /\ n - 1 \in 0 .. N
        BY <1>1, <2>2
      <3>2. g[n - 1] \in Seq(S) /\ q[n] \in S
        BY <1>1, <3>1
      <3>. QED  BY <2>2, <3>2, AppendType
    <2>. QED  BY <2>1, <2>2
  <1>4. \A n \in 0 .. N : \A g, h \in D :
          (\A m \in 0 .. n - 1 : g[m] = h[m]) => Body(n, g) = Body(n, h)
    BY <1>1
  <1>. HIDE DEF Body
  <1>6. \A n \in 0 .. N : \A g \in D : step[n][g] = Body(n, g)
    OBVIOUS
  <1>. HIDE DEF step
  <1>7. PICK f \in D : \A n \in 0 .. N : f[n] = step[n][f]
    <2>1. <<>> \in Seq(S) /\ step \in [0 .. N -> [D -> Seq(S)]]
      BY <1>3 DEF step
    <2>2. LooksBelow(N, D, step)
      <3>. SUFFICES ASSUME NEW n \in 0 .. N, NEW g \in D, NEW h \in D,
                          \A m \in 0 .. n - 1 : g[m] = h[m]
                   PROVE  step[n][g] = step[n][h]
        BY DEF LooksBelow
      <3>1. Body(n, g) = Body(n, h)
        BY <1>4, Zenon
      <3>. QED  BY <3>1, <1>6, Zenon
    <2>3. Solvable(N, D, step)
      BY <1>1, <2>1, <2>2, CourseOfValues, Zenon
    <2>. QED  BY <2>3 DEF Solvable
  <1>8. f = [n \in 0 .. N |-> Body(n, f)]
    BY <1>6, <1>7
  <1>9. Upto = [n \in 0 .. N |-> Body(n, Upto)]
    BY <1>8
  <1>. HIDE DEF Upto
  <1>10. \A n \in 0 .. N : Upto[n] = Body(n, Upto)
    BY <1>9
  <1>11. \A n \in 0 .. N : Upto[n] = f[n]
    <2>. DEFINE T == {n \in 0 .. N : Upto[n] = f[n]}
    <2>1. 0 \in T
      BY <1>1, <1>8, <1>10 DEF Body
    <2>2. ASSUME NEW n \in 0 .. N - 1, n \in T PROVE n + 1 \in T
      <3>1. n + 1 \in 0 .. N /\ (n + 1) - 1 = n /\ n + 1 # 0 /\ Upto[n] = f[n]
        BY <2>2, <1>1
      <3>2. Body(n + 1, Upto) = Body(n + 1, f)
        BY <3>1 DEF Body
      <3>3. f[n + 1] = Body(n + 1, f)
        BY <3>1, <1>8
      <3>. QED  BY <3>1, <3>2, <3>3, <1>10
    <2>. HIDE DEF T
    <2>3. 0 .. N \subseteq T
      BY <1>1, <2>1, <2>2, SetInduction
    <2>. QED  BY <2>3 DEF T
  <1>12. Upto = f
    BY <1>8, <1>9, <1>11
  <1>13. Collects(f, t, q)
    <2>1. f[0] = <<>>
      BY <1>1, <1>8 DEF Body
    <2>2. ASSUME NEW n \in 1 .. N
          PROVE  f[n] = IF q[n].to = t THEN Append(f[n - 1], q[n]) ELSE f[n - 1]
      <3>1. n \in 0 .. N /\ n # 0
        BY <1>1
      <3>2. f[n] = Body(n, f)
        BY <1>8, <3>1
      <3>. QED  BY <3>1, <3>2 DEF Body
    <2>. QED  BY <2>1, <2>2 DEF Collects, N
  <1>. QED  BY <1>2, <1>12, <1>13 DEF N, CollectedIn

LEMMA MessagesType ==
    ASSUME NEW S, NEW t, NEW q \in Seq(S)
    PROVE  MessagesFor(t, q) \in Seq(S)
  <1>1. PICK F \in [0 .. Len(q) -> Seq(S)] : Collects(F, t, q) /\ MessagesFor(t, q) = F[Len(q)]
    <2>1. CollectedIn(S, t, q)
      BY MessagesCollected, Zenon
    <2>. QED  BY <2>1 DEF CollectedIn
  <1>2. Len(q) \in 0 .. Len(q)
    OBVIOUS
  <1>. QED  BY <1>1, <1>2

LEMMA MessagesEmpty == \A t : MessagesFor(t, <<>>) = <<>>
  <1>. TAKE t
  <1>. DEFINE q == <<>>
  <1>r. q \in Seq(Tasks)
    OBVIOUS
  <1>1. Len(q) = 0
    OBVIOUS
  <1>. HIDE DEF q
  <1>2. PICK F \in [0 .. Len(q) -> Seq(Tasks)] : Collects(F, t, q) /\ MessagesFor(t, q) = F[Len(q)]
    <2>1. CollectedIn(Tasks, t, q)
      BY <1>r, MessagesCollected, Zenon
    <2>. QED  BY <2>1 DEF CollectedIn
  <1>3. MessagesFor(t, q) = <<>>
    BY <1>1, <1>2 DEF Collects
  <1>. QED  BY <1>3 DEF q

\* A message that joins the queue joins the messages of its task.
LEMMA MessagesAppend ==
    ASSUME NEW S, NEW t, NEW q \in Seq(S), NEW m \in S
    PROVE  MessagesFor(t, Append(q, m)) =
             IF m.to = t THEN Append(MessagesFor(t, q), m) ELSE MessagesFor(t, q)
  <1>. DEFINE N == Len(q)
              r == Append(q, m)
  <1>1. /\ N \in Nat /\ r \in Seq(S) /\ Len(r) = N + 1 /\ r[N + 1] = m
        /\ \A n \in 1 .. N : r[n] = q[n]
    OBVIOUS
  <1>2. PICK F \in [0 .. N -> Seq(S)] : Collects(F, t, q) /\ MessagesFor(t, q) = F[N]
    <2>1. CollectedIn(S, t, q)
      BY MessagesCollected, Zenon
    <2>. QED  BY <2>1 DEF CollectedIn
  <1>r. r \in Seq(S)
    OBVIOUS
  <1>. HIDE DEF r
  <1>3. PICK G \in [0 .. Len(r) -> Seq(S)] : Collects(G, t, r) /\ MessagesFor(t, r) = G[Len(r)]
    <2>1. CollectedIn(S, t, r)
      BY <1>r, MessagesCollected, Zenon
    <2>. QED  BY <2>1 DEF CollectedIn
  <1>. HIDE DEF N
  <1>4. \A n \in 1 .. N : F[n] = IF q[n].to = t THEN Append(F[n - 1], q[n]) ELSE F[n - 1]
    BY <1>2 DEF Collects, N
  <1>5. \A n \in 1 .. N + 1 : G[n] = IF r[n].to = t THEN Append(G[n - 1], r[n]) ELSE G[n - 1]
    BY <1>1, <1>3 DEF Collects
  <1>6. F[0] = <<>> /\ G[0] = <<>>
    BY <1>2, <1>3 DEF Collects
  <1>7. F[N] = G[N]
    <2>. DEFINE T == {n \in 0 .. N : F[n] = G[n]}
    <2>1. 0 \in T
      BY <1>1, <1>6
    <2>2. ASSUME NEW n \in 0 .. N - 1, n \in T PROVE n + 1 \in T
      <3>1. /\ n + 1 \in 1 .. N /\ n + 1 \in 1 .. N + 1 /\ (n + 1) - 1 = n
            /\ F[n] = G[n] /\ r[n + 1] = q[n + 1]
        BY <1>1, <2>2
      <3>2. F[n + 1] = G[n + 1]
        BY <3>1, <1>4, <1>5
      <3>. QED  BY <1>1, <3>2
    <2>. HIDE DEF T
    <2>3. 0 .. N \subseteq T
      BY <1>1, <2>1, <2>2, SetInduction
    <2>. QED  BY <1>1, <2>3 DEF T
  <1>8. G[N + 1] = IF m.to = t THEN Append(G[N], m) ELSE G[N]
    <2>1. N + 1 \in 1 .. N + 1 /\ (N + 1) - 1 = N
      BY <1>1
    <2>. QED  BY <1>1, <1>5, <2>1
  <1>9. MessagesFor(t, r) =
          IF m.to = t THEN Append(MessagesFor(t, q), m) ELSE MessagesFor(t, q)
    BY <1>1, <1>2, <1>3, <1>7, <1>8
  <1>. QED  BY <1>9 DEF r

\* The first message of the queue is the first of its task.
LEMMA MessagesHead ==
    ASSUME NEW S, NEW t, NEW q \in Seq(S), q # <<>>
    PROVE  MessagesFor(t, q) =
             (IF Head(q).to = t THEN <<Head(q)>> ELSE <<>>) \o MessagesFor(t, Tail(q))
  <1>. DEFINE N == Len(q) - 1
              r == Tail(q)
              first == IF Head(q).to = t THEN <<Head(q)>> ELSE <<>>
  <1>1. /\ N \in Nat /\ r \in Seq(S) /\ Len(r) = N /\ Len(q) = N + 1 /\ Head(q) = q[1]
        /\ q[1] \in S /\ \A n \in 1 .. N : r[n] = q[n + 1] /\ q[n + 1] \in S
    OBVIOUS
  <1>f. first \in Seq(S)
    BY <1>1
  <1>r. r \in Seq(S)
    OBVIOUS
  <1>. HIDE DEF r, N
  <1>2. PICK F \in [0 .. Len(r) -> Seq(S)] : Collects(F, t, r) /\ MessagesFor(t, r) = F[Len(r)]
    <2>1. CollectedIn(S, t, r)
      BY <1>r, MessagesCollected, Zenon
    <2>. QED  BY <2>1 DEF CollectedIn
  <1>3. PICK G \in [0 .. Len(q) -> Seq(S)] : Collects(G, t, q) /\ MessagesFor(t, q) = G[Len(q)]
    <2>1. CollectedIn(S, t, q)
      BY MessagesCollected, Zenon
    <2>. QED  BY <2>1 DEF CollectedIn
  <1>0. \A n \in 0 .. N : F[n] \in Seq(S)
    BY <1>1, <1>2
  <1>4. \A n \in 1 .. N : F[n] = IF r[n].to = t THEN Append(F[n - 1], r[n]) ELSE F[n - 1]
    BY <1>1, <1>2 DEF Collects
  <1>5. \A n \in 1 .. N + 1 : G[n] = IF q[n].to = t THEN Append(G[n - 1], q[n]) ELSE G[n - 1]
    BY <1>1, <1>3 DEF Collects
  <1>6. F[0] = <<>> /\ G[0] = <<>>
    BY <1>2, <1>3 DEF Collects
  <1>7. G[1] = first
    <2>1. 1 \in 1 .. N + 1 /\ 1 - 1 = 0
      BY <1>1
    <2>2. G[1] = IF q[1].to = t THEN Append(<<>>, q[1]) ELSE <<>>
      BY <1>5, <1>6, <2>1
    <2>. QED  BY <1>1, <2>2
  <1>. HIDE DEF first
  <1>8. G[N + 1] = first \o F[N]
    <2>. DEFINE T == {n \in 0 .. N : G[n + 1] = first \o F[n]}
    <2>1. 0 \in T
      <3>1. G[0 + 1] = first \o F[0]
        BY <1>6, <1>7, <1>f
      <3>. QED  BY <1>1, <3>1
    <2>2. ASSUME NEW n \in 0 .. N - 1, n \in T PROVE n + 1 \in T
      <3>1. /\ n + 1 \in 1 .. N /\ (n + 1) + 1 \in 1 .. N + 1 /\ (n + 1) - 1 = n
            /\ ((n + 1) + 1) - 1 = n + 1 /\ n + 1 \in 0 .. N /\ n \in 0 .. N
        BY <1>1
      <3>0. /\ r[n + 1] = q[(n + 1) + 1] /\ q[(n + 1) + 1] \in S
            /\ G[n + 1] = first \o F[n] /\ F[n] \in Seq(S)
        BY <3>1, <1>0, <1>1, <2>2
      <3>2. F[n + 1] = IF r[n + 1].to = t THEN Append(F[n], r[n + 1]) ELSE F[n]
        BY <3>1, <1>4
      <3>3. G[(n + 1) + 1] =
              IF r[n + 1].to = t THEN Append(G[n + 1], r[n + 1]) ELSE G[n + 1]
        BY <3>0, <3>1, <1>5
      <3>4. \A e \in S : Append(first \o F[n], e) = first \o Append(F[n], e)
        <4>. DEFINE b == F[n]
        <4>1. b \in Seq(S)
          BY <3>0
        <4>. HIDE DEF b
        <4>2. \A e \in S : Append(first \o b, e) = first \o Append(b, e)
          BY <4>1, <1>f, SMT
        <4>. QED  BY <4>2 DEF b
      <3>5. G[(n + 1) + 1] = first \o F[n + 1]
        BY <3>0, <3>2, <3>3, <3>4
      <3>. QED  BY <3>1, <3>5
    <2>. HIDE DEF T
    <2>3. 0 .. N \subseteq T
      BY <1>1, <2>1, <2>2, SetInduction
    <2>. QED  BY <1>1, <2>3 DEF T
  <1>9. MessagesFor(t, q) = first \o MessagesFor(t, r)
    BY <1>1, <1>2, <1>3, <1>8
  <1>. QED  BY <1>9 DEF r, first

LEMMA DispatchedInit == Init => Dispatched
  <1>. SUFFICES ASSUME Init, NEW t \in running
               PROVE  channels[t] \o MessagesFor(t, rxQueue) = MessagesFor(t, arrived)
    BY DEF Dispatched
  <1>1. channels[t] = <<>> /\ rxQueue = <<>> /\ arrived = <<>>
    BY DEF Init
  <1>. QED  BY <1>1, MessagesEmpty

\* A running task takes the first message of the queue if it is for it.
LEMMA DispatchKeeps ==
    ASSUME TypeOK, Dispatched, Dispatch
    PROVE  Dispatched'
  <1>. SUFFICES ASSUME NEW t \in running
               PROVE  channels'[t] \o MessagesFor(t, rxQueue') = MessagesFor(t, arrived)
    BY DEF Dispatch, Dispatched, ghostVars
  <1>. DEFINE m == Head(rxQueue)
              S == FrameFor(Tasks \cup {"none"})
              rest == MessagesFor(t, Tail(rxQueue))
  <1>1. rxQueue \in Seq(S) /\ rxQueue # <<>> /\ rxQueue' = Tail(rxQueue)
    BY DEF Dispatch, TypeOK
  <1>2. channels' = IF m.to \in running
                    THEN [channels EXCEPT ![m.to] = Append(@, m)] ELSE channels
    BY DEF Dispatch
  <1>3. channels[t] \in Seq(FrameFor({t})) /\ running \subseteq Tasks /\ t \in Tasks
    BY DEF TypeOK
  <1>4. rest \in Seq(S)
    BY <1>1, HeadTail, MessagesType
  <1>5. MessagesFor(t, rxQueue) = (IF m.to = t THEN <<m>> ELSE <<>>) \o rest
    BY <1>1, MessagesHead
  <1>6. channels[t] \o MessagesFor(t, rxQueue) = MessagesFor(t, arrived)
    BY DEF Dispatched
  <1>7. m \in S
    BY <1>1, HeadTail
  <1>. HIDE DEF m, rest
  <1>8. CASE m.to = t
    <2>1. channels'[t] = Append(channels[t], m)
      BY <1>2, <1>3, <1>8 DEF TypeOK
    <2>2. Append(channels[t], m) \o rest = channels[t] \o (<<m>> \o rest)
      <3>. DEFINE a == channels[t]
      <3>1. a \in Seq(FrameFor({t})) /\ rest \in Seq(S) /\ m \in S
        BY <1>3, <1>4, <1>7
      <3>. HIDE DEF a, S
      <3>2. Append(a, m) \o rest = a \o (<<m>> \o rest)
        BY <3>1
      <3>. QED  BY <3>2 DEF a
    <2>. QED  BY <1>1, <1>5, <1>6, <1>8, <2>1, <2>2 DEF rest
  <1>9. CASE m.to # t
    <2>1. channels'[t] = channels[t]
      BY <1>2, <1>9
    <2>2. <<>> \o rest = rest
      BY <1>4
    <2>. QED  BY <1>1, <1>5, <1>6, <1>9, <2>1, <2>2 DEF rest
  <1>. QED  BY <1>8, <1>9

LEMMA DispatchedStep == TypeOK /\ Dispatched /\ [Next]_vars => Dispatched'
  <1>. SUFFICES ASSUME TypeOK, Dispatched, [Next]_vars PROVE Dispatched'
    OBVIOUS
  <1>1. CASE running' \subseteq running /\ UNCHANGED <<channels, rxQueue, arrived>>
    BY <1>1 DEF Dispatched
  <1>2. CASE Dispatch
    BY <1>2, DispatchKeeps
  <1>3. CASE StartUart \/ Announce \/ EnterLoop \/ Drained \/ Broadcast \/ DelayOver
    BY <1>1, <1>3 DEF StartUart, Announce, EnterLoop, Drained, Broadcast, DelayOver,
         ghostVars
  <1>4. CASE TaskReports \/ TaskEnds \/ Transmitted \/ TransmitLost
    BY <1>1, <1>4 DEF TaskReports, TaskEnds, Transmitted, TransmitLost, Transmit, hostVars,
         ghostVars
  <1>5. CASE FrameArrives
    <2>. DEFINE S == FrameFor(Tasks \cup {"none"})
    <2>1. PICK m \in S : rxQueue' = Append(rxQueue, m) /\ arrived' = Append(arrived, m)
      <3>1. PICK t \in Tasks \cup {"none"} :
               /\ rxQueue' = Append(rxQueue, [to |-> t, n |-> sentFrames])
               /\ arrived' = Append(arrived, [to |-> t, n |-> sentFrames])
        BY <1>5 DEF FrameArrives
      <3>2. [to |-> t, n |-> sentFrames] \in S
        BY DEF FrameFor, TypeOK
      <3>. QED  BY <3>1, <3>2
    <2>2. UNCHANGED <<channels, running>> /\ rxQueue \in Seq(S) /\ arrived \in Seq(S)
      BY <1>5 DEF FrameArrives, TypeOK
    <2>. HIDE DEF S
    <2>3. ASSUME NEW t \in running
          PROVE  channels[t] \o MessagesFor(t, rxQueue') = MessagesFor(t, arrived')
      <3>1. channels[t] \o MessagesFor(t, rxQueue) = MessagesFor(t, arrived)
        BY DEF Dispatched
      <3>2. /\ MessagesFor(t, rxQueue') = IF m.to = t THEN Append(MessagesFor(t, rxQueue), m)
                                          ELSE MessagesFor(t, rxQueue)
            /\ MessagesFor(t, arrived') = IF m.to = t THEN Append(MessagesFor(t, arrived), m)
                                          ELSE MessagesFor(t, arrived)
        BY <2>1, <2>2, MessagesAppend
      <3>3. channels[t] \in Seq(FrameFor({t})) /\ MessagesFor(t, rxQueue) \in Seq(S)
        BY <2>2, MessagesType DEF TypeOK
      <3>4. channels[t] \o Append(MessagesFor(t, rxQueue), m)
              = Append(channels[t] \o MessagesFor(t, rxQueue), m)
        <4>. DEFINE a == channels[t]
                    b == MessagesFor(t, rxQueue)
        <4>1. a \in Seq(FrameFor({t})) /\ b \in Seq(S)
          BY <3>3
        <4>. HIDE DEF a, b
        <4>2. a \o Append(b, m) = Append(a \o b, m)
          BY <4>1, <2>1
        <4>. QED  BY <4>2 DEF a, b
      <3>. QED  BY <3>1, <3>2, <3>4
    <2>. QED  BY <2>2, <2>3 DEF Dispatched
  <1>6. CASE Reset
    <2>1. /\ channels' = [u \in Tasks |-> <<>>] /\ running' = Tasks
          /\ rxQueue' = <<>> /\ arrived' = <<>>
      BY <1>6 DEF Reset
    <2>2. ASSUME NEW t \in Tasks
          PROVE  channels'[t] \o MessagesFor(t, rxQueue') = MessagesFor(t, arrived')
      <3>1. channels'[t] = <<>>
        BY <2>1
      <3>. QED  BY <2>1, <3>1, MessagesEmpty
    <2>. QED  BY <2>1, <2>2 DEF Dispatched
  <1>7. CASE UNCHANGED vars
    BY <1>1, <1>7 DEF vars, hostVars, ghostVars
  <1>. QED
    BY <1>2, <1>3, <1>4, <1>5, <1>6, <1>7 DEF Next, MainStep

\* However the frames of the master arrive and whatever tasks end meanwhile, each
\* running task is handed its own messages, all of them, once and in order.
THEOREM HostDispatched == Spec => []Dispatched
  BY DispatchedInit, DispatchedStep, HostTypeCorrect, PTL DEF Spec

---------------------------------------------------------------------------
(* The mailboxes.                                                          *)

Posted == [t \in Tasks |-> MessagesFor(t, arrived)]

\* A step that touches neither what arrived nor the channels is none of theirs.
LEMMA MailStutters ==
    ASSUME UNCHANGED <<arrived, channels, running>>
    PROVE  UNCHANGED Mail!mailVars
  BY DEF Mail!mailVars

\* A frame that a decoder will take for t is posted to t.
LEMMA ArrivalPosts ==
    ASSUME TypeOK, FrameArrives
    PROVE  (\E t \in Tasks : Mail!Post(t)) \/ UNCHANGED Mail!mailVars
  <1>. DEFINE S == FrameFor(Tasks \cup {"none"})
  <1>1. PICK t \in Tasks \cup {"none"} :
           arrived' = Append(arrived, [to |-> t, n |-> sentFrames])
    BY DEF FrameArrives
  <1>. DEFINE m == [to |-> t, n |-> sentFrames]
  <1>2. m \in S /\ m.to = t /\ arrived \in Seq(S)
    BY DEF FrameFor, TypeOK
  <1>3. UNCHANGED <<channels, running>> /\ sentFrames \in 0 .. MaxFrames - 1
    BY BoundsAssumption DEF FrameArrives, TypeOK
  <1>4. arrived' = Append(arrived, m)
    BY <1>1
  <1>m. t \in Tasks => m \in [to : Tasks, n : 0 .. MaxFrames - 1]
    BY <1>3
  <1>. HIDE DEF m, S
  <1>5. \A u \in Tasks : MessagesFor(u, arrived') =
           IF u = t THEN Append(MessagesFor(u, arrived), m) ELSE MessagesFor(u, arrived)
    BY <1>2, <1>4, MessagesAppend
  <1>6. CASE t \in Tasks
    <2>1. Posted' = [Posted EXCEPT ![t] = Append(@, m)]
      BY <1>5, <1>6 DEF Posted
    <2>. QED  BY <2>1, <1>3, <1>6, <1>m DEF Posted, Mail!Post
  <1>7. CASE t \notin Tasks
    <2>1. Posted' = Posted
      BY <1>5, <1>7 DEF Posted
    <2>. QED  BY <2>1, <1>3 DEF Posted, Mail!mailVars
  <1>. QED  BY <1>6, <1>7

\* What the main loop takes out of its queue for t is the next message of t.
LEMMA DispatchHands ==
    ASSUME TypeOK, Dispatched, Dispatch
    PROVE  (\E t \in Tasks : Mail!Hand(t)) \/ UNCHANGED Mail!mailVars
  <1>. DEFINE m == Head(rxQueue)
              S == FrameFor(Tasks \cup {"none"})
              t == m.to
              a == channels[t]
              rest == MessagesFor(t, Tail(rxQueue))
  <1>1. rxQueue \in Seq(S) /\ rxQueue # <<>> /\ UNCHANGED <<arrived, running>>
    BY DEF Dispatch, TypeOK, ghostVars
  <1>2. channels' = IF t \in running THEN [channels EXCEPT ![t] = Append(@, m)] ELSE channels
    BY DEF Dispatch
  <1>3. CASE t \in running
    <2>1. t \in Tasks /\ a \in Seq(FrameFor({t}))
      BY <1>3 DEF TypeOK
    <2>2. rest \in Seq(S) /\ m \in S
      BY <1>1, HeadTail, MessagesType
    <2>3. Posted[t] = a \o (<<m>> \o rest)
      <3>1. MessagesFor(t, rxQueue) = <<m>> \o rest
        BY <1>1, MessagesHead
      <3>. QED  BY <3>1, <2>1, <1>3 DEF Dispatched, Posted
    <2>. HIDE DEF a, rest, m, S
    <2>4. Len(a) < Len(a \o (<<m>> \o rest)) /\ (a \o (<<m>> \o rest))[Len(a) + 1] = m
      BY <2>1, <2>2
    <2>5. Len(a) < Len(Posted[t]) /\ Posted[t][Len(a) + 1] = m
      BY <2>3, <2>4
    <2>6. channels' = [channels EXCEPT ![t] = Append(@, Posted[t][Len(@) + 1])]
      BY <1>2, <1>3, <2>5 DEF a
    <2>. QED  BY <1>1, <1>3, <2>1, <2>5, <2>6 DEF Mail!Hand, Posted, a
  <1>4. CASE t \notin running
    BY <1>1, <1>2, <1>4, MailStutters
  <1>. QED  BY <1>3, <1>4

LEMMA MailStep == TypeOK /\ Dispatched /\ [Next]_vars => [Mail!Next]_(Mail!mailVars)
  <1>. SUFFICES ASSUME TypeOK, Dispatched, [Next]_vars
               PROVE  Mail!Next \/ UNCHANGED Mail!mailVars
    OBVIOUS
  <1>1. CASE FrameArrives
    BY <1>1, ArrivalPosts DEF Mail!Next
  <1>2. CASE Dispatch
    BY <1>2, DispatchHands DEF Mail!Next
  <1>3. CASE TaskEnds
    <2>1. PICK t \in running : running' = running \ {t}
      BY <1>3 DEF TaskEnds
    <2>2. t \in Tasks /\ UNCHANGED <<arrived, channels>>
      BY <1>3 DEF TaskEnds, TypeOK, ghostVars
    <2>. QED  BY <2>1, <2>2 DEF Mail!Next, Mail!Close
  <1>4. CASE Reset
    <2>1. arrived' = <<>> /\ channels' = [t \in Tasks |-> <<>>] /\ running' = Tasks
      BY <1>4 DEF Reset
    <2>2. Posted' = [t \in Tasks |-> <<>>]
      BY <2>1, MessagesEmpty DEF Posted
    <2>. QED  BY <2>1, <2>2 DEF Posted, Mail!Next, Mail!Restart, Mail!Empty
  <1>5. CASE StartUart \/ Announce \/ EnterLoop \/ Drained \/ Broadcast \/ DelayOver
    BY <1>5, MailStutters DEF StartUart, Announce, EnterLoop, Drained, Broadcast, DelayOver,
         ghostVars
  <1>6. CASE TaskReports \/ Transmitted \/ TransmitLost
    BY <1>6, MailStutters DEF TaskReports, Transmitted, TransmitLost, Transmit, hostVars,
         ghostVars
  <1>7. CASE UNCHANGED vars
    BY <1>7, MailStutters DEF vars, hostVars, ghostVars
  <1>. QED
    BY <1>1, <1>2, <1>3, <1>4, <1>5, <1>6, <1>7 DEF Next, MainStep

\* Every behaviour of the host is one of the mailboxes: each step posts one message
\* to one task, hands one task the oldest it lacks, loses a task, restarts them
\* all, or is none of their business.
THEOREM HostImplementsMailboxes == Spec => ImplementsMailboxes
  <1>1. Init => Mail!Init
    <2>. SUFFICES ASSUME Init PROVE Mail!Init
      OBVIOUS
    <2>1. arrived = <<>> /\ channels = [t \in Tasks |-> <<>>] /\ running = Tasks
      BY DEF Init
    <2>2. Posted = [t \in Tasks |-> <<>>]
      BY <2>1, MessagesEmpty DEF Posted
    <2>. QED  BY <2>1, <2>2 DEF Posted, Mail!Init, Mail!Empty
  <1>. QED
    BY <1>1, MailStep, HostTypeCorrect, HostDispatched, PTL
       DEF Spec, ImplementsMailboxes, Mail!Spec
===========================================================================

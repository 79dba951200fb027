------------------------- MODULE TcpServer_proofs -------------------------
(***************************************************************************)
(* Proofs about TcpServer, for every number of slots, every set of         *)
(* connections and every budget.                                           *)
(***************************************************************************)
EXTENDS TcpServer, TLAPS

---------------------------------------------------------------------------
(* Type correctness *)

LEMMA SlotsNat == Slots \subseteq Nat /\ 0 \in Slots
  BY MaxClientsAssumption DEF Slots

LEMMA FramesTyped ==
    ASSUME NEW i \in Slots
    PROVE  /\ \A c \in Conns : Connected(i, c) \in Frame
           /\ \A r \in Reasons : Disconnected(i, r) \in Frame
           /\ \A c \in Conns : Data(i, c) \in Frame
  BY DEF Connected, Disconnected, Data, Frame, Reasons, SlotValue,
         Undefined, NotConnected

\* Freeing an occupied slot keeps the types.
LEMMA CloseSlotType ==
    ASSUME TypeOK, NEW i \in Slots, NEW r \in Reasons,
           clients[i] # NoConn, CloseSlot(i, r)
    PROVE  /\ clients' \in [Slots -> SlotValue]
           /\ uartTx' \in Seq(Frame)
           /\ peer' \in [Conns -> {"new", "open", "fin", "rst", "done"}]
           /\ inbound' \in [Conns -> Nat]
           /\ expired' \subseteq Conns
           /\ backlog' \in Seq(Conns)
<1>1. clients[i] \in Conns
  BY DEF TypeOK, SlotValue
<1>2. Disconnected(i, r) \in Frame
  BY FramesTyped
<1>3. uartTx' \in Seq(Frame)
  BY <1>2 DEF CloseSlot, Send, TypeOK
<1>4. QED
  BY <1>1, <1>3 DEF CloseSlot, Hangup, TypeOK, SlotValue

LEMMA TypeInit == Init => TypeOK
<1> SUFFICES ASSUME Init PROVE TypeOK
  OBVIOUS
<1>1. clients \in [Slots -> SlotValue] /\ view \in [Slots -> SlotValue]
  BY DEF Init, SlotValue
<1>2. idx \in 0 .. MaxClients /\ budget \in 0 .. Budget
  BY MaxClientsAssumption, BudgetAssumption DEF Init
<1>3. pc \in Places /\ pc # "timeout"
  BY DEF Init, Places
<1>4. /\ settingsQ \in Seq(BOOLEAN) /\ commandQ \in Seq(Command)
      /\ dataQ \in Seq(Request) /\ uartTx \in Seq(Frame) /\ backlog \in Seq(Conns)
  BY DEF Init
<1>5. /\ peer \in [Conns -> {"new", "open", "fin", "rst", "done"}]
      /\ inbound \in [Conns -> Nat]
      /\ timeoutOn \in BOOLEAN /\ listening \in BOOLEAN /\ expired \subseteq Conns
  BY DEF Init
<1>6. QED
  BY <1>1, <1>2, <1>3, <1>4, <1>5 DEF TypeOK

LEMMA TypeStep == TypeOK /\ [Next]_vars => TypeOK'
<1> SUFFICES ASSUME TypeOK, [Next]_vars PROVE TypeOK'
  OBVIOUS
<1> USE MaxClientsAssumption, BudgetAssumption
<1>0. /\ Undefined \in Reasons /\ ClientClosed \in Reasons
      /\ ServerClosed \in Reasons /\ InactivityTimeout \in Reasons
      /\ NotConnected \in Reasons
  BY DEF Reasons, Undefined, ClientClosed, ServerClosed, InactivityTimeout, NotConnected
<1>1. CASE AwaitFirstSettings
  BY <1>1 DEF TypeOK, AwaitFirstSettings, Places, peerVars
<1>2. CASE OpenListener
  BY <1>2 DEF TypeOK, OpenListener, Places, peerVars, queueVars
<1>3. CASE AwaitSettingsAfterBindFailure
  BY <1>3 DEF TypeOK, AwaitSettingsAfterBindFailure, Places, peerVars
<1>4. CASE TakeSettings
  BY <1>4 DEF TypeOK, TakeSettings, Places, peerVars
<1>5. CASE DisconnectOne
  <2>1. idx \in Slots /\ idx + 1 \in 0 .. MaxClients
    BY <1>5 DEF DisconnectOne, TypeOK, Slots
  <2>2. CASE clients[idx] # NoConn /\ CloseSlot(idx, ServerClosed)
    BY <1>0, <1>5, <2>1, <2>2, CloseSlotType DEF DisconnectOne, TypeOK, queueVars
  <2>3. CASE clients[idx] = NoConn /\ UNCHANGED <<clients, expired, uartTx, peerVars>>
    BY <1>5, <2>1, <2>3 DEF DisconnectOne, TypeOK, queueVars, peerVars
  <2>4. QED
    BY <1>5, <2>2, <2>3 DEF DisconnectOne
<1>6. CASE CloseListener
  <2>1. inbound' \in [Conns -> Nat]
    BY <1>6 DEF CloseListener, TypeOK
  <2>2. peer' \in [Conns -> {"new", "open", "fin", "rst", "done"}]
    BY <1>6 DEF CloseListener, TypeOK
  <2>3. /\ pc' = "settings" /\ idx' = 0 /\ listening' = FALSE /\ backlog' = <<>>
        /\ UNCHANGED <<timeoutOn, clients, expired, queueVars, uartTx, view, budget>>
    BY <1>6 DEF CloseListener
  <2>4. pc' \in Places /\ pc' # "timeout" /\ listening' \in BOOLEAN
    BY <2>3, Zenon DEF Places
  <2>5. idx' \in 0 .. MaxClients
    BY <2>3
  <2>6. backlog' \in Seq(Conns)
    BY <2>3
  <2>7. QED
    BY <2>1, <2>2, <2>3, <2>4, <2>5, <2>6 DEF TypeOK, queueVars
<1>7. CASE SettingsDrained
  BY <1>7 DEF TypeOK, SettingsDrained, Places, peerVars, queueVars
<1>8. CASE HandleCommand
  <2>1. Head(commandQ) \in Command /\ Tail(commandQ) \in Seq(Command)
    BY <1>8 DEF HandleCommand, TypeOK
  <2>3. CASE /\ Occupied(Head(commandQ).index)
             /\ CloseSlot(Head(commandQ).index, ServerClosed)
    <3>1. Head(commandQ).index \in Slots /\ clients[Head(commandQ).index] # NoConn
      BY <2>3 DEF Occupied, FreeSlots
    <3>2. QED
      BY <1>0, <1>8, <2>1, <2>3, <3>1, CloseSlotType DEF HandleCommand, TypeOK
  <2>4. CASE UNCHANGED <<clients, expired, uartTx, peerVars>>
    BY <1>8, <2>1, <2>4 DEF HandleCommand, TypeOK, peerVars
  <2>5. QED
    BY <1>8, <2>3, <2>4 DEF HandleCommand
<1>9. CASE CommandsDrained
  BY <1>9 DEF TypeOK, CommandsDrained, Places, peerVars, queueVars
<1>10. CASE HandleData
  <2>1. Head(dataQ) \in Request /\ Tail(dataQ) \in Seq(Request)
    BY <1>10 DEF HandleData, TypeOK
  <2>3. Head(dataQ).index \in Slots => Disconnected(Head(dataQ).index, NotConnected) \in Frame
    BY <1>0, FramesTyped
  <2>4. uartTx' \in Seq(Frame)
    <3>1. CASE Head(dataQ).index \in FreeSlots /\ Send(Disconnected(Head(dataQ).index, NotConnected))
      BY <2>3, <3>1 DEF Send, TypeOK, FreeSlots
    <3>2. CASE UNCHANGED uartTx
      BY <3>2 DEF TypeOK
    <3>3. QED
      BY <1>10, <3>1, <3>2 DEF HandleData
  <2>5. expired' \subseteq Conns
    BY <1>10 DEF HandleData, Touch, TypeOK
  <2>6. QED
    BY <1>10, <2>1, <2>4, <2>5 DEF HandleData, TypeOK, peerVars
<1>11. CASE DataDrained
  BY <1>11 DEF TypeOK, DataDrained, Places, peerVars, queueVars
<1>12. CASE Accept
  <2>1. Head(backlog) \in Conns /\ Tail(backlog) \in Seq(Conns)
    BY <1>12 DEF Accept, TypeOK
  <2>2. PICK i \in Slots : /\ clients' = [clients EXCEPT ![i] = Head(backlog)]
                           /\ Send(Connected(i, Head(backlog)))
    BY <1>12 DEF Accept
  <2>3. Connected(i, Head(backlog)) \in Frame
    BY <2>1, FramesTyped
  <2>4. uartTx' \in Seq(Frame)
    BY <2>2, <2>3 DEF Send, TypeOK
  <2>5. clients' \in [Slots -> SlotValue]
    BY <2>1, <2>2 DEF TypeOK, SlotValue
  <2>6. QED
    BY <1>12, <2>1, <2>4, <2>5 DEF Accept, TypeOK, queueVars
<1>13. CASE Reject
  BY <1>13 DEF TypeOK, Reject, Hangup, queueVars
<1>14. CASE AcceptEnds
  BY <1>14 DEF TypeOK, AcceptEnds, Places, peerVars, queueVars
<1>15. CASE PollFreeSlot
  BY <1>15 DEF TypeOK, PollFreeSlot, peerVars, queueVars
<1>16. CASE PollRead
  <2>1. idx \in Slots /\ clients[idx] \in Conns
    BY <1>16 DEF PollRead, TypeOK, Slots, SlotValue
  <2>2. Data(idx, clients[idx]) \in Frame
    BY <2>1, FramesTyped
  <2>3. uartTx' \in Seq(Frame)
    BY <1>16, <2>2 DEF PollRead, Send, TypeOK
  <2>4. inbound' \in [Conns -> Nat]
    BY <1>16, <2>1 DEF PollRead, CanRead, TypeOK
  <2>5. QED
    BY <1>16, <2>3, <2>4 DEF PollRead, Touch, TypeOK, queueVars
<1>17. CASE PollEnd
  <2>1. idx \in Slots /\ idx + 1 \in 0 .. MaxClients
    BY <1>17 DEF PollEnd, TypeOK, Slots
  <2>2. PICK r \in Reasons : clients[idx] # NoConn /\ CloseSlot(idx, r)
    BY <1>0, <1>17 DEF PollEnd
  <2>3. QED
    BY <1>17, <2>1, <2>2, CloseSlotType DEF PollEnd, TypeOK, queueVars
<1>18. CASE PollWouldBlock
  BY <1>18 DEF TypeOK, PollWouldBlock, Places, peerVars, queueVars
<1>19. CASE CheckTimeout
  <2>1. idx \in Slots /\ idx + 1 \in 0 .. MaxClients /\ clients[idx] # NoConn
    BY <1>19 DEF CheckTimeout, TypeOK, Slots
  <2>2. CASE CloseSlot(idx, InactivityTimeout)
    BY <1>0, <1>19, <2>1, <2>2, CloseSlotType DEF CheckTimeout, TypeOK, queueVars, Places
  <2>3. CASE UNCHANGED <<clients, expired, uartTx, peerVars>>
    BY <1>19, <2>1, <2>3 DEF CheckTimeout, TypeOK, queueVars, peerVars, Places
  <2>4. QED
    BY <1>19, <2>2, <2>3 DEF CheckTimeout
<1>20. CASE PollDone
  BY <1>20 DEF TypeOK, PollDone, Places, peerVars, queueVars
<1>21. CASE MasterReceives
  <2>1. Head(uartTx) \in Frame /\ Tail(uartTx) \in Seq(Frame)
    BY <1>21 DEF MasterReceives, TypeOK
  <2>2. Head(uartTx).index \in Slots /\ Head(uartTx).conn \in SlotValue
    BY <2>1 DEF Frame
  <2>3. view' \in [Slots -> SlotValue]
    BY <1>21, <2>2 DEF MasterReceives, TypeOK
  <2>4. QED
    BY <1>21, <2>1, <2>3 DEF MasterReceives, TypeOK, serverVars, queueVars, peerVars
<1>22. ASSUME NEW on \in BOOLEAN, SendSettings(on) PROVE TypeOK'
  BY <1>22 DEF SendSettings, Spend, TypeOK, serverVars, peerVars
<1>23. ASSUME NEW i \in Slots, NEW close \in BOOLEAN, SendCommand(i, close) PROVE TypeOK'
  <2>1. [index |-> i, close |-> close, occ |-> clients[i]] \in Command
    BY DEF Command, TypeOK
  <2>2. QED
    BY <1>23, <2>1 DEF SendCommand, Spend, TypeOK, serverVars, peerVars
<1>24. ASSUME NEW i \in Slots, SendData(i) PROVE TypeOK'
  <2>1. [index |-> i, occ |-> clients[i]] \in Request
    BY DEF Request, TypeOK
  <2>2. QED
    BY <1>24, <2>1 DEF SendData, Spend, TypeOK, serverVars, peerVars
<1>25. ASSUME NEW c \in Conns, Connect(c) PROVE TypeOK'
  BY <1>25 DEF Connect, TypeOK, serverVars, queueVars
<1>26. ASSUME NEW c \in Conns, PeerSends(c) PROVE TypeOK'
  BY <1>26 DEF PeerSends, Spend, TypeOK, serverVars, queueVars
<1>27. ASSUME NEW c \in Conns, NEW how \in {"fin", "rst"}, PeerLeaves(c, how) PROVE TypeOK'
  BY <1>27 DEF PeerLeaves, TypeOK, serverVars, queueVars
<1>28. ASSUME NEW c \in Conns, Expire(c) PROVE TypeOK'
  BY <1>28 DEF Expire, TypeOK, queueVars, peerVars
<1>29. CASE UNCHANGED vars
  BY <1>29 DEF vars, serverVars, queueVars, peerVars, TypeOK
<1>30. QED
  BY <1>1, <1>2, <1>3, <1>4, <1>5, <1>6, <1>7, <1>8, <1>9, <1>10, <1>11, <1>12,
     <1>13, <1>14, <1>15, <1>16, <1>17, <1>18, <1>19, <1>20, <1>21, <1>22, <1>23,
     <1>24, <1>25, <1>26, <1>27, <1>28, <1>29
  DEF Next, ServerStep, Environment

\* Every reachable state of the server, the queues and the master is well typed:
\* in particular the slot index stays in the table in every loop of the task.
THEOREM TypeCorrect == Spec => []TypeOK
<1>1. Init => TypeOK
  BY TypeInit
<1>2. TypeOK /\ [Next]_vars => TypeOK'
  BY TypeStep
<1>3. QED
  BY <1>1, <1>2, PTL DEF Spec

---------------------------------------------------------------------------
(* What the master believes as frames are queued and delivered *)

\* Queueing a frame changes no belief at an earlier place.
LEMMA BelievesAppend ==
    ASSUME NEW v, NEW q \in Seq(Frame), NEW f \in Frame, NEW i, NEW c,
           NEW k \in 1 .. Len(q) + 1, Believes(v, q, i, k, c)
    PROVE  Believes(v, Append(q, f), i, k, c)
<1>1. \A j \in 1 .. k - 1 : Append(q, f)[j] = q[j]
  OBVIOUS
<1>2. \A j \in 1 .. k - 1 : Sets(Append(q, f), j, i) <=> Sets(q, j, i)
  BY <1>1 DEF Sets
<1>3. QED
  BY <1>1, <1>2 DEF Believes

\* After the queued frame, its slot holds its connection.
LEMMA BelievesSet ==
    ASSUME NEW v, NEW q \in Seq(Frame), NEW f \in Frame, f.kind # "data"
    PROVE  Believes(v, Append(q, f), f.index, Len(q) + 2, f.conn)
<1>1. Append(q, f)[Len(q) + 1] = f
  OBVIOUS
<1>2. Sets(Append(q, f), Len(q) + 1, f.index)
  BY <1>1 DEF Sets
<1>3. Len(q) + 1 \in 1 .. (Len(q) + 2) - 1
  OBVIOUS
<1>4. (Len(q) + 1) + 1 .. (Len(q) + 2) - 1 = {}
  OBVIOUS
<1>5. QED
  BY <1>1, <1>2, <1>3, <1>4 DEF Believes

\* After the queued frame, what it does not set is believed as before it.
LEMMA BelievesUnset ==
    ASSUME NEW v, NEW q \in Seq(Frame), NEW f \in Frame, NEW i, NEW c,
           f.kind = "data" \/ f.index # i,
           Believes(v, q, i, Len(q) + 1, c)
    PROVE  Believes(v, Append(q, f), i, Len(q) + 2, c)
<1>1. \A j \in 1 .. Len(q) : Append(q, f)[j] = q[j]
  OBVIOUS
<1>2. Append(q, f)[Len(q) + 1] = f
  OBVIOUS
<1>3. ~Sets(Append(q, f), Len(q) + 1, i)
  BY <1>2 DEF Sets
<1>4. \A j \in 1 .. Len(q) : Sets(Append(q, f), j, i) <=> Sets(q, j, i)
  BY <1>1 DEF Sets
<1>5. CASE v[i] = c /\ \A j \in 1 .. Len(q) : ~Sets(q, j, i)
  <2>1. \A j \in 1 .. (Len(q) + 2) - 1 : ~Sets(Append(q, f), j, i)
    BY <1>3, <1>4, <1>5
  <2>2. QED
    BY <1>5, <2>1 DEF Believes
<1>6. CASE \E j \in 1 .. Len(q) : /\ Sets(q, j, i) /\ q[j].conn = c
                                  /\ \A m \in j + 1 .. Len(q) : ~Sets(q, m, i)
  <2>1. PICK j \in 1 .. Len(q) : /\ Sets(q, j, i) /\ q[j].conn = c
                                 /\ \A m \in j + 1 .. Len(q) : ~Sets(q, m, i)
    BY <1>6
  <2>2. \A m \in j + 1 .. (Len(q) + 2) - 1 : ~Sets(Append(q, f), m, i)
    BY <1>3, <1>4, <2>1
  <2>3. Sets(Append(q, f), j, i) /\ Append(q, f)[j].conn = c
    BY <1>1, <1>4, <2>1
  <2>4. j \in 1 .. (Len(q) + 2) - 1
    OBVIOUS
  <2>5. QED
    BY <2>2, <2>3, <2>4 DEF Believes
<1>7. (Len(q) + 1) - 1 = Len(q)
  OBVIOUS
<1>8. QED
  BY <1>5, <1>6, <1>7 DEF Believes

\* The master's table after it has received frame f.
Noted(v, f) == IF f.kind = "data" THEN v ELSE [v EXCEPT ![f.index] = f.conn]

\* Delivering the first frame changes no belief at a later place.
LEMMA BelievesTail ==
    ASSUME NEW v \in [Slots -> SlotValue], NEW q \in Seq(Frame), q # <<>>,
           NEW i \in Slots, NEW c, NEW k \in 1 .. Len(q),
           Believes(v, q, i, k + 1, c)
    PROVE  Believes(Noted(v, Head(q)), Tail(q), i, k, c)
<1> DEFINE w == Noted(v, Head(q))
           t == Tail(q)
<1>1. Head(q) = q[1] /\ q[1] \in Frame /\ Len(t) = Len(q) - 1
  OBVIOUS
<1>2. \A j \in 1 .. k - 1 : t[j] = q[j + 1]
  OBVIOUS
<1>3. \A j \in 1 .. k - 1 : Sets(t, j, i) <=> Sets(q, j + 1, i)
  BY <1>2 DEF Sets
<1>4. \A j \in 2 .. k : j - 1 \in 1 .. k - 1 /\ (j - 1) + 1 = j
  OBVIOUS
<1>5. (k + 1) - 1 = k
  OBVIOUS
<1>6. w[i] = IF Sets(q, 1, i) THEN q[1].conn ELSE v[i]
  BY <1>1 DEF Noted, Sets, Frame
<1>7. CASE v[i] = c /\ \A j \in 1 .. k : ~Sets(q, j, i)
  <2>1. ~Sets(q, 1, i)
    BY <1>7
  <2>2. \A j \in 1 .. k - 1 : ~Sets(q, j + 1, i)
    BY <1>7
  <2>3. QED
    BY <1>3, <1>6, <1>7, <2>1, <2>2 DEF Believes
<1>8. CASE \E j \in 1 .. k : /\ Sets(q, j, i) /\ q[j].conn = c
                             /\ \A m \in j + 1 .. k : ~Sets(q, m, i)
  <2>1. PICK j \in 1 .. k : /\ Sets(q, j, i) /\ q[j].conn = c
                            /\ \A m \in j + 1 .. k : ~Sets(q, m, i)
    BY <1>8
  <2>2. \A m \in j .. k - 1 : ~Sets(t, m, i)
    <3>1. \A m \in j .. k - 1 : m \in 1 .. k - 1 /\ m + 1 \in j + 1 .. k
      OBVIOUS
    <3>2. QED
      BY <1>3, <2>1, <3>1
  <2>3. CASE j = 1
    BY <1>6, <2>1, <2>2, <2>3 DEF Believes
  <2>4. CASE j # 1
    <3>1. j - 1 \in 1 .. k - 1 /\ (j - 1) + 1 = j
      BY <2>4
    <3>2. Sets(t, j - 1, i) /\ t[j - 1].conn = c
      BY <1>2, <1>3, <2>1, <3>1
    <3>3. \A m \in (j - 1) + 1 .. k - 1 : ~Sets(t, m, i)
      BY <2>2, <3>1
    <3>4. QED
      BY <3>1, <3>2, <3>3 DEF Believes
  <2>5. QED
    BY <2>3, <2>4
<1>9. QED
  BY <1>5, <1>7, <1>8 DEF Believes

---------------------------------------------------------------------------
(* The inductive invariant *)

\* LogMatchesSlots and LogWellFormed are inductive together.  A request keeps
\* its target because between its drain and `accept' it is still strictly on
\* target: nothing frees a slot there.
Strict(m) == m.occ # NoConn => clients[m.index] = m.occ
TargetsPresent ==
    /\ pc \in {"data", "accept"} => \A m \in Range(commandQ) : Strict(m)
    /\ pc = "accept" => \A m \in Range(dataQ) : Strict(m)

Log == LogMatchesSlots /\ LogWellFormed
Targets == RequestsKeepTarget /\ TargetsPresent
IInv == TypeOK /\ Log /\ Targets

\* Queueing a frame that is expected there, with the effect on the table of
\* clients that the frame announces.
LEMMA SendKeepsLog ==
    ASSUME TypeOK, Log, NEW f \in Frame,
           uartTx' = Append(uartTx, f), view' = view,
           \A i \in Slots : clients'[i] = Noted(clients, f)[i],
           f.kind \in {"connected", "disconnected"} => clients[f.index] = NoConn \/
               (f.kind = "disconnected" /\ f.reason # NotConnected),
           f.kind = "disconnected" /\ f.reason # NotConnected => clients[f.index] # NoConn,
           f.kind = "connected" => f.conn # NoConn,
           f.kind = "disconnected" => f.conn = NoConn,
           f.kind = "data" => f.conn = clients[f.index] /\ f.conn # NoConn
    PROVE  Log'
<1> DEFINE q == uartTx
           n == Len(uartTx)
<1>1. q \in Seq(Frame) /\ f.index \in Slots /\ Len(uartTx') = n + 1 /\ n \in Nat
  BY DEF TypeOK, Frame
<1>2. LogMatchesSlots'
  <2> SUFFICES ASSUME NEW i \in Slots
               PROVE  Believes(view, Append(q, f), i, n + 2, clients'[i])
    BY <1>1 DEF LogMatchesSlots
  <2>1. Believes(view, q, i, n + 1, clients[i])
    BY DEF Log, LogMatchesSlots
  <2>2. CASE f.kind # "data" /\ f.index = i
    <3>1. clients'[i] = f.conn
      BY <2>2 DEF Noted, TypeOK
    <3>2. QED
      BY <1>1, <2>2, <3>1, BelievesSet
  <2>3. CASE f.kind = "data" \/ f.index # i
    <3>1. clients'[i] = clients[i]
      BY <1>1, <2>3 DEF Noted, TypeOK
    <3>2. QED
      BY <1>1, <2>1, <2>3, <3>1, BelievesUnset
  <2>4. QED
    BY <2>2, <2>3
<1>3. LogWellFormed'
  <2> SUFFICES ASSUME NEW k \in 1 .. n + 1
               PROVE  FrameExpected(view, Append(q, f), k)
    BY <1>1 DEF LogWellFormed
  <2>1. \A c : \A i \in Slots : Believes(view, q, i, k, c) => Believes(view, Append(q, f), i, k, c)
    BY <1>1, BelievesAppend
  <2>2. CASE k \in 1 .. n
    <3>1. FrameExpected(view, q, k)
      BY <2>2 DEF Log, LogWellFormed
    <3>2. Append(q, f)[k] = q[k] /\ q[k] \in Frame
      BY <1>1, <2>2
    <3>3. q[k].index \in Slots
      BY <3>2 DEF Frame
    <3>4. QED
      BY <2>1, <3>1, <3>2, <3>3 DEF FrameExpected
  <2>3. CASE k = n + 1
    <3>1. Append(q, f)[k] = f
      BY <1>1, <2>3
    <3>2. Believes(view, Append(q, f), f.index, k, clients[f.index])
      BY <1>1, <2>1, <2>3 DEF Log, LogMatchesSlots
    <3>3. clients[f.index] = NoConn \/ clients[f.index] \in Conns
      BY <1>1 DEF TypeOK, SlotValue
    <3>4. QED
      BY <3>1, <3>2, <3>3 DEF FrameExpected, Frame
  <2>4. QED
    BY <1>1, <2>2, <2>3
<1>4. QED
  BY <1>2, <1>3 DEF Log

\* Freeing an occupied slot with its frame keeps the log.
LEMMA CloseSlotKeepsLog ==
    ASSUME TypeOK, Log, NEW i \in Slots, NEW r \in Reasons \ {NotConnected},
           clients[i] # NoConn, CloseSlot(i, r), view' = view
    PROVE  Log'
<1> DEFINE f == Disconnected(i, r)
<1>1. f \in Frame
  BY FramesTyped
<1>2. f.kind = "disconnected" /\ f.index = i /\ f.conn = NoConn /\ f.reason = r
  BY DEF Disconnected
<1>3. uartTx' = Append(uartTx, f)
  BY DEF CloseSlot, Send
<1>4. \A j \in Slots : clients'[j] = Noted(clients, f)[j]
  BY <1>2 DEF CloseSlot, Noted
<1> HIDE DEF f
<1>5. QED
  BY <1>1, <1>2, <1>3, <1>4, SendKeepsLog

\* A step that queues no frame and leaves the slots and the view alone.
LEMMA QuietKeepsLog ==
    ASSUME Log, UNCHANGED <<clients, uartTx, view>> PROVE Log'
  BY DEF Log, LogMatchesSlots, LogWellFormed

\* Delivery of the first frame.
LEMMA DeliveryKeepsLog ==
    ASSUME TypeOK, Log, MasterReceives PROVE Log'
<1> DEFINE q == uartTx
           t == Tail(uartTx)
           w == Noted(view, Head(uartTx))
<1>1. /\ uartTx' = t /\ view' = w /\ clients' = clients
      /\ q \in Seq(Frame) /\ q # <<>> /\ view \in [Slots -> SlotValue]
  BY DEF MasterReceives, Noted, serverVars, TypeOK
<1>2. Len(t) = Len(q) - 1 /\ Len(q) \in Nat \ {0} /\ \A k \in 1 .. Len(t) : t[k] = q[k + 1]
  BY <1>1
<1>3. \A c : \A i \in Slots : \A k \in 1 .. Len(q) :
          Believes(view, q, i, k + 1, c) => Believes(w, t, i, k, c)
  BY <1>1, BelievesTail
<1> HIDE DEF t, w
<1>4. LogMatchesSlots'
  <2> SUFFICES ASSUME NEW i \in Slots PROVE Believes(w, t, i, Len(t) + 1, clients[i])
    BY <1>1 DEF LogMatchesSlots
  <2>1. Believes(view, q, i, Len(q) + 1, clients[i])
    BY DEF Log, LogMatchesSlots
  <2>2. QED
    BY <1>2, <1>3, <2>1
<1>5. LogWellFormed'
  <2> SUFFICES ASSUME NEW k \in 1 .. Len(t) PROVE FrameExpected(w, t, k)
    BY <1>1 DEF LogWellFormed
  <2>1. k \in 1 .. Len(q) /\ k + 1 \in 1 .. Len(q) /\ t[k] = q[k + 1]
    BY <1>2
  <2>2. FrameExpected(view, q, k + 1)
    BY <2>1 DEF Log, LogWellFormed
  <2>3. t[k] \in Frame
    BY <1>1, <2>1
  <2>4. t[k].index \in Slots
    BY <2>3 DEF Frame
  <2>5. QED
    BY <1>3, <2>1, <2>2, <2>4 DEF FrameExpected
<1>6. QED
  BY <1>4, <1>5 DEF Log

LEMMA RangeTail ==
    ASSUME NEW S, NEW q \in Seq(S), q # <<>>
    PROVE  Range(Tail(q)) \subseteq Range(q) /\ Head(q) \in Range(q)
<1>1. \A k \in 1 .. Len(Tail(q)) : Tail(q)[k] = q[k + 1] /\ k + 1 \in 1 .. Len(q)
  OBVIOUS
<1>2. DOMAIN Tail(q) = 1 .. Len(Tail(q)) /\ DOMAIN q = 1 .. Len(q)
  OBVIOUS
<1>3. Head(q) = q[1] /\ 1 \in 1 .. Len(q)
  OBVIOUS
<1>4. QED
  BY <1>1, <1>2, <1>3 DEF Range

LEMMA RangeAppend ==
    ASSUME NEW S, NEW q \in Seq(S), NEW e \in S
    PROVE  Range(Append(q, e)) \subseteq Range(q) \cup {e}
<1>1. \A k \in 1 .. Len(q) + 1 :
          Append(q, e)[k] = IF k = Len(q) + 1 THEN e ELSE q[k]
  OBVIOUS
<1>2. DOMAIN Append(q, e) = 1 .. Len(q) + 1 /\ DOMAIN q = 1 .. Len(q)
  OBVIOUS
<1>3. QED
  BY <1>1, <1>2 DEF Range

LEMMA RangeEmpty == Range(<<>>) = {}
  BY DEF Range

\* A step that frees slots or leaves them alone, and only takes requests out
\* of the channels, keeps the targets of those that stay; what it must not do
\* is free a slot or empty no channel where TargetsPresent speaks.
LEMMA FreeingKeepsTargets ==
    ASSUME RequestsKeepTarget,
           \A i \in Slots : clients'[i] \in {clients[i], NoConn},
           Range(commandQ) \subseteq Command, Range(dataQ) \subseteq Request,
           Range(commandQ)' \subseteq Range(commandQ),
           Range(dataQ)' \subseteq Range(dataQ)
    PROVE  RequestsKeepTarget'
<1>1. \A m \in Range(commandQ) \cup Range(dataQ) : m.index \in Slots
  BY DEF Command, Request
<1>2. \A m \in Range(commandQ) \cup Range(dataQ) : Kept(m) => Kept(m)'
  BY <1>1 DEF Kept
<1>3. QED
  BY <1>2 DEF RequestsKeepTarget

LEMMA QueueTypes == TypeOK => Range(commandQ) \subseteq Command /\ Range(dataQ) \subseteq Request
  BY DEF TypeOK, Range

\* The same for a step that does not end where TargetsPresent speaks.
LEMMA FreeingElsewhere ==
    ASSUME TypeOK, Targets, pc' \notin {"data", "accept"},
           \A i \in Slots : clients'[i] \in {clients[i], NoConn},
           Range(commandQ)' \subseteq Range(commandQ),
           Range(dataQ)' \subseteq Range(dataQ)
    PROVE  Targets'
<1>1. RequestsKeepTarget'
  BY QueueTypes, FreeingKeepsTargets DEF Targets
<1>2. TargetsPresent'
  BY DEF TargetsPresent
<1>3. QED
  BY <1>1, <1>2 DEF Targets

\* A step that touches neither slots nor requests and stays, or leaves.
LEMMA QuietKeepsTargets ==
    ASSUME Targets, UNCHANGED <<clients, commandQ, dataQ>>,
           pc' = pc \/ pc' \notin {"data", "accept"}
    PROVE  Targets'
  BY DEF Targets, RequestsKeepTarget, TargetsPresent, Kept, Strict

---------------------------------------------------------------------------
LEMMA IInvInit == Init => IInv
<1> SUFFICES ASSUME Init PROVE IInv
  OBVIOUS
<1>1. TypeOK
  BY TypeInit
<1>2. Log
  BY DEF Init, Log, LogMatchesSlots, LogWellFormed, Believes
<1>3. Targets
  BY RangeEmpty DEF Init, Targets, RequestsKeepTarget, TargetsPresent
<1>4. QED
  BY <1>1, <1>2, <1>3 DEF IInv

LEMMA LogStep == IInv /\ [Next]_vars => Log'
<1> SUFFICES ASSUME IInv, [Next]_vars PROVE Log'
  OBVIOUS
<1>0. TypeOK /\ Log
  BY DEF IInv
<1>r. {Undefined, ClientClosed, ServerClosed, InactivityTimeout} \subseteq Reasons \ {NotConnected}
  BY DEF Reasons, Undefined, ClientClosed, ServerClosed, InactivityTimeout, NotConnected
<1>1. CASE UNCHANGED <<clients, uartTx, view>>
  BY <1>0, <1>1, QuietKeepsLog
<1>2. CASE DisconnectOne
  <2>1. idx \in Slots
    BY <1>0, <1>2, MaxClientsAssumption DEF DisconnectOne, TypeOK, Slots
  <2>2. QED
    BY <1>0, <1>r, <1>1, <1>2, <2>1, CloseSlotKeepsLog DEF DisconnectOne
<1>3. CASE HandleCommand
  <2>1. CASE /\ Occupied(Head(commandQ).index)
             /\ CloseSlot(Head(commandQ).index, ServerClosed)
    <3>1. Head(commandQ).index \in Slots /\ clients[Head(commandQ).index] # NoConn
      BY <2>1 DEF Occupied, FreeSlots
    <3>2. QED
      BY <1>0, <1>r, <1>3, <2>1, <3>1, CloseSlotKeepsLog DEF HandleCommand
  <2>2. CASE UNCHANGED <<clients, expired, uartTx, peerVars>>
    BY <1>1, <1>3, <2>2 DEF HandleCommand
  <2>3. QED
    BY <1>3, <2>1, <2>2 DEF HandleCommand
<1>4. CASE HandleData
  <2> DEFINE i == Head(dataQ).index
             f == Disconnected(i, NotConnected)
  <2>2. CASE i \in FreeSlots /\ uartTx' = Append(uartTx, f)
    <3>0. i \in Slots /\ clients[i] = NoConn
      BY <2>2 DEF FreeSlots
    <3>1. f \in Frame
      BY <3>0, FramesTyped DEF Reasons, NotConnected, Undefined
    <3>2. /\ f.kind = "disconnected" /\ f.index = i
          /\ f.conn = NoConn /\ f.reason = NotConnected
      BY DEF Disconnected
    <3>3. \A j \in Slots : clients'[j] = Noted(clients, f)[j]
      BY <1>0, <1>4, <3>0, <3>2 DEF HandleData, Noted, TypeOK
    <3>4. view' = view
      BY <1>4 DEF HandleData
    <3> HIDE DEF f
    <3>5. QED
      BY <1>0, <2>2, <3>0, <3>1, <3>2, <3>3, <3>4, SendKeepsLog
  <2>3. CASE UNCHANGED uartTx
    BY <1>1, <1>4, <2>3 DEF HandleData
  <2>4. QED
    BY <1>4, <2>2, <2>3 DEF HandleData, Send
<1>5. CASE Accept
  <2>1. PICK i \in Slots : /\ IsFirstFree(i)
                           /\ clients' = [clients EXCEPT ![i] = Head(backlog)]
                           /\ Send(Connected(i, Head(backlog)))
    BY <1>5 DEF Accept
  <2> DEFINE f == Connected(i, Head(backlog))
  <2>2. Head(backlog) \in Conns
    BY <1>0, <1>5 DEF Accept, TypeOK
  <2>3. f \in Frame
    BY <2>2, FramesTyped
  <2>4. f.kind = "connected" /\ f.index = i /\ f.conn = Head(backlog)
    BY DEF Connected
  <2>5. f.conn # NoConn /\ clients[i] = NoConn
    BY <2>1, <2>2, <2>4, NoConnAssumption DEF IsFirstFree, FreeSlots
  <2>6. \A j \in Slots : clients'[j] = Noted(clients, f)[j]
    BY <2>1, <2>4 DEF Noted
  <2>7. uartTx' = Append(uartTx, f) /\ view' = view
    BY <1>5, <2>1 DEF Accept, Send
  <2> HIDE DEF f
  <2>8. QED
    BY <1>0, <2>3, <2>4, <2>5, <2>6, <2>7, SendKeepsLog
<1>6. CASE PollRead
  <2> DEFINE f == Data(idx, clients[idx])
  <2>1. idx \in Slots /\ clients[idx] \in Conns /\ clients[idx] # NoConn
    BY <1>0, <1>6, MaxClientsAssumption DEF PollRead, TypeOK, Slots, SlotValue
  <2>2. f \in Frame
    BY <2>1, FramesTyped
  <2>3. f.kind = "data" /\ f.index = idx /\ f.conn = clients[idx]
    BY DEF Data
  <2>4. /\ uartTx' = Append(uartTx, f) /\ view' = view
        /\ \A j \in Slots : clients'[j] = Noted(clients, f)[j]
    BY <1>6, <2>3 DEF PollRead, Send, Noted
  <2> HIDE DEF f
  <2>5. QED
    BY <1>0, <2>1, <2>2, <2>3, <2>4, SendKeepsLog
<1>7. CASE PollEnd
  <2>1. idx \in Slots
    BY <1>0, <1>7, MaxClientsAssumption DEF PollEnd, TypeOK, Slots
  <2>2. PICK r \in Reasons \ {NotConnected} : clients[idx] # NoConn /\ CloseSlot(idx, r)
    BY <1>r, <1>7 DEF PollEnd
  <2>3. QED
    BY <1>0, <1>7, <2>1, <2>2, CloseSlotKeepsLog DEF PollEnd
<1>8. CASE CheckTimeout
  <2>1. idx \in Slots /\ clients[idx] # NoConn
    BY <1>0, <1>8, MaxClientsAssumption DEF CheckTimeout, TypeOK, Slots
  <2>2. QED
    BY <1>0, <1>r, <1>1, <1>8, <2>1, CloseSlotKeepsLog DEF CheckTimeout
<1>9. CASE MasterReceives
  BY <1>0, <1>9, DeliveryKeepsLog
<1>10. CASE \/ AwaitFirstSettings \/ OpenListener \/ AwaitSettingsAfterBindFailure
            \/ TakeSettings \/ CloseListener \/ SettingsDrained \/ CommandsDrained
            \/ DataDrained \/ Reject \/ AcceptEnds \/ PollFreeSlot
            \/ PollWouldBlock \/ PollDone
  BY <1>1, <1>10 DEF AwaitFirstSettings, OpenListener, AwaitSettingsAfterBindFailure,
       TakeSettings, CloseListener, SettingsDrained, CommandsDrained, DataDrained,
       Reject, AcceptEnds, PollFreeSlot, PollWouldBlock, PollDone
<1>11. CASE Environment /\ ~MasterReceives
  BY <1>1, <1>11 DEF Environment, SendSettings, SendCommand, SendData, Connect,
       PeerSends, PeerLeaves, Expire, serverVars
<1>12. CASE UNCHANGED vars
  BY <1>1, <1>12 DEF vars, serverVars
<1>13. QED
  BY <1>2, <1>3, <1>4, <1>5, <1>6, <1>7, <1>8, <1>9, <1>10, <1>11, <1>12
  DEF Next, ServerStep

LEMMA TargetsStep == IInv /\ [Next]_vars => Targets'
<1> SUFFICES ASSUME IInv, [Next]_vars PROVE Targets'
  OBVIOUS
<1>0. TypeOK /\ Targets
  BY DEF IInv
<1>1. CASE /\ UNCHANGED <<clients, commandQ, dataQ>>
           /\ pc' = pc \/ pc' \notin {"data", "accept"}
  BY <1>0, <1>1, QuietKeepsTargets
<1>2. CASE DisconnectOne \/ PollEnd \/ CheckTimeout
  <2>1. /\ \A i \in Slots : clients'[i] \in {clients[i], NoConn}
        /\ UNCHANGED <<commandQ, dataQ>> /\ pc' \notin {"data", "accept"}
    BY <1>0, <1>2 DEF DisconnectOne, PollEnd, CheckTimeout, CloseSlot, queueVars, TypeOK
  <2>2. QED
    BY <1>0, <2>1, FreeingElsewhere
<1>3. CASE HandleCommand
  <2>1. \A i \in Slots : clients'[i] \in {clients[i], NoConn}
    BY <1>0, <1>3 DEF HandleCommand, CloseSlot, TypeOK
  <2>2. pc' \notin {"data", "accept"} /\ dataQ' = dataQ /\ commandQ' = Tail(commandQ)
    BY <1>3 DEF HandleCommand
  <2>3. Range(commandQ') \subseteq Range(commandQ)
    BY <1>0, <1>3, <2>2, RangeTail DEF HandleCommand, TypeOK
  <2>4. QED
    BY <1>0, <2>1, <2>2, <2>3, FreeingElsewhere
<1>4. CASE CommandsDrained
  <2>1. /\ commandQ = <<>> /\ pc' = "data"
        /\ UNCHANGED <<clients, commandQ, dataQ>>
    BY <1>4 DEF CommandsDrained, queueVars
  <2>2. RequestsKeepTarget'
    BY <1>0, <2>1 DEF Targets, RequestsKeepTarget, Kept
  <2>3. TargetsPresent'
    BY <2>1, RangeEmpty DEF TargetsPresent
  <2>4. QED
    BY <2>2, <2>3 DEF Targets
<1>5. CASE HandleData
  <2>1. /\ pc = "data" /\ pc' = "data" /\ UNCHANGED <<clients, commandQ>>
        /\ dataQ' = Tail(dataQ)
    BY <1>5 DEF HandleData
  <2>2. Range(dataQ') \subseteq Range(dataQ)
    BY <1>0, <1>5, <2>1, RangeTail DEF HandleData, TypeOK
  <2>3. RequestsKeepTarget'
    BY <1>0, <2>1, <2>2 DEF Targets, RequestsKeepTarget, Kept
  <2>4. TargetsPresent'
    BY <1>0, <2>1 DEF Targets, TargetsPresent, Strict
  <2>5. QED
    BY <2>3, <2>4 DEF Targets
<1>6. CASE DataDrained
  <2>1. /\ dataQ = <<>> /\ pc = "data" /\ pc' \in {"accept", "top"}
        /\ UNCHANGED <<clients, commandQ, dataQ>>
    BY <1>6 DEF DataDrained, queueVars
  <2>2. RequestsKeepTarget'
    BY <1>0, <2>1 DEF Targets, RequestsKeepTarget, Kept
  <2>3. TargetsPresent'
    BY <1>0, <2>1, RangeEmpty DEF Targets, TargetsPresent, Strict
  <2>4. QED
    BY <2>2, <2>3 DEF Targets
<1>7. CASE Accept
  <2>1. PICK i \in Slots : /\ clients[i] = NoConn
                           /\ clients' = [clients EXCEPT ![i] = Head(backlog)]
    BY <1>7 DEF Accept, IsFirstFree, FreeSlots
  <2>2. pc = "accept" /\ pc' = "accept" /\ UNCHANGED <<commandQ, dataQ>>
    BY <1>7 DEF Accept, queueVars
  <2>3. \A m \in Range(commandQ) \cup Range(dataQ) : m.index \in Slots /\ Strict(m)
    BY <1>0, <2>2, QueueTypes DEF Targets, TargetsPresent, Command, Request
  <2>4. \A m \in Range(commandQ) \cup Range(dataQ) : Strict(m)'
    BY <1>0, <2>1, <2>3 DEF Strict, TypeOK
  <2>5. \A m \in Range(commandQ) \cup Range(dataQ) : Kept(m)'
    BY <2>4 DEF Strict, Kept
  <2>6. RequestsKeepTarget'
    BY <2>2, <2>5 DEF RequestsKeepTarget
  <2>7. TargetsPresent'
    BY <2>2, <2>4 DEF TargetsPresent
  <2>8. QED
    BY <2>6, <2>7 DEF Targets
<1>8. ASSUME NEW i \in Slots, NEW close \in BOOLEAN, SendCommand(i, close) PROVE Targets'
  <2> DEFINE r == [index |-> i, close |-> close, occ |-> clients[i]]
  <2>1. r \in Command /\ commandQ' = Append(commandQ, r)
    BY <1>0, <1>8 DEF SendCommand, Command, TypeOK
  <2>2. Range(commandQ') \subseteq Range(commandQ) \cup {r}
    BY <1>0, <2>1, RangeAppend DEF TypeOK
  <2>3. UNCHANGED <<pc, clients, dataQ>>
    BY <1>8 DEF SendCommand, serverVars
  <2>4. Strict(r)' /\ Kept(r)'
    BY <2>3 DEF Strict, Kept
  <2>5. RequestsKeepTarget'
    BY <1>0, <2>2, <2>3, <2>4 DEF Targets, RequestsKeepTarget, Kept
  <2>6. TargetsPresent'
    BY <1>0, <2>2, <2>3, <2>4 DEF Targets, TargetsPresent, Strict
  <2>7. QED
    BY <2>5, <2>6 DEF Targets
<1>9. ASSUME NEW i \in Slots, SendData(i) PROVE Targets'
  <2> DEFINE r == [index |-> i, occ |-> clients[i]]
  <2>1. r \in Request /\ dataQ' = Append(dataQ, r)
    BY <1>0, <1>9 DEF SendData, Request, TypeOK
  <2>2. Range(dataQ') \subseteq Range(dataQ) \cup {r}
    BY <1>0, <2>1, RangeAppend DEF TypeOK
  <2>3. UNCHANGED <<pc, clients, commandQ>>
    BY <1>9 DEF SendData, serverVars
  <2>4. Strict(r)' /\ Kept(r)'
    BY <2>3 DEF Strict, Kept
  <2>5. RequestsKeepTarget'
    BY <1>0, <2>2, <2>3, <2>4 DEF Targets, RequestsKeepTarget, Kept
  <2>6. TargetsPresent'
    BY <1>0, <2>2, <2>3, <2>4 DEF Targets, TargetsPresent, Strict
  <2>7. QED
    BY <2>5, <2>6 DEF Targets
<1>10. CASE \/ AwaitFirstSettings \/ OpenListener \/ AwaitSettingsAfterBindFailure
            \/ TakeSettings \/ CloseListener \/ SettingsDrained
            \/ Reject \/ AcceptEnds \/ PollFreeSlot \/ PollRead
            \/ PollWouldBlock \/ PollDone
  BY <1>1, <1>10 DEF AwaitFirstSettings, OpenListener, AwaitSettingsAfterBindFailure,
       TakeSettings, CloseListener, SettingsDrained, Reject, AcceptEnds,
       PollFreeSlot, PollRead, PollWouldBlock, PollDone, queueVars
<1>11. ASSUME \/ MasterReceives
              \/ \E on \in BOOLEAN : SendSettings(on)
              \/ \E c \in Conns : Connect(c) \/ PeerSends(c) \/ Expire(c)
              \/ \E c \in Conns, how \in {"fin", "rst"} : PeerLeaves(c, how)
       PROVE  Targets'
  BY <1>1, <1>11 DEF MasterReceives, SendSettings, Connect, PeerSends, PeerLeaves,
       Expire, serverVars, queueVars
<1>12. CASE UNCHANGED vars
  BY <1>1, <1>12 DEF vars, serverVars, queueVars
<1>13. QED
  BY <1>2, <1>3, <1>4, <1>5, <1>6, <1>7, <1>8, <1>9, <1>10, <1>11, <1>12
  DEF Next, ServerStep, Environment

LEMMA IInvStep == IInv /\ [Next]_vars => IInv'
  BY TypeStep, LogStep, TargetsStep DEF IInv

LEMMA IInvAlways == Spec => []IInv
  BY IInvInit, IInvStep, PTL DEF Spec

\* The frames still on their way to the master always say the whole truth: each is
\* one it expects in its own state (no slot is taken twice or released twice, no
\* bytes come from a peer it does not know), and with them delivered its table
\* equals the task's, whatever the interleaving of closes, timeouts, new settings
\* and connections.
THEOREM LogIsFaithful == Spec => []LogFaithful
<1>1. IInv => LogFaithful
  BY DEF IInv, Log, LogFaithful
<1>2. QED
  BY <1>1, IInvAlways, PTL

\* No close command and no payload queued for one connection reaches another:
\* the order settings, commands, data, accept, poll of the loop guarantees it.
THEOREM TargetsKept == Spec => []RequestsKeepTarget
<1>1. IInv => RequestsKeepTarget
  BY DEF IInv, Targets
<1>2. QED
  BY <1>1, IInvAlways, PTL

---------------------------------------------------------------------------
(* Who sits in the slots.  SlotsHoldLivePeers needs that what waits in the *)
(* backlog is live, waits once and sits nowhere.                           *)

IsLive(c) == peer[c] \in {"open", "fin", "rst"}
Queued(c) == \E k \in 1 .. Len(backlog) : backlog[k] = c

Backlog ==
    /\ \A k \in 1 .. Len(backlog) : IsLive(backlog[k])
    /\ \A k, m \in 1 .. Len(backlog) : backlog[k] = backlog[m] => k = m
    /\ \A i \in Slots : ~Queued(clients[i])

Seats == SlotsHoldLivePeers /\ Backlog

LEMMA SeatsInit == Init => Seats
<1> SUFFICES ASSUME Init PROVE Seats
  OBVIOUS
<1>1. Len(backlog) = 0 /\ \A i \in Slots : clients[i] = NoConn
  BY DEF Init
<1>2. \A c \in Conns : inbound[c] = 0
  BY DEF Init
<1> QED
  BY <1>1, <1>2 DEF Seats, SlotsHoldLivePeers, Backlog, Queued

\* A step that leaves the slots and the backlog alone keeps every peer that is
\* live so, and brings no payload but from a live one.
LEMMA QuietKeepsSeats ==
    ASSUME TypeOK, Seats, UNCHANGED <<clients, backlog>>,
           \A c \in Conns : IsLive(c) => IsLive(c)',
           \A c \in Conns : inbound'[c] > 0 => inbound[c] > 0 \/ IsLive(c)'
    PROVE  Seats'
<1>1. \A k \in 1 .. Len(backlog) : backlog[k] \in Conns
  BY DEF TypeOK
<1>2. Backlog'
  BY <1>1 DEF Seats, Backlog, Queued
<1>3. SlotsHoldLivePeers'
  BY DEF Seats, SlotsHoldLivePeers, IsLive, TypeOK, SlotValue
<1> QED
  BY <1>2, <1>3 DEF Seats

\* The peer of a slot that is freed is gone from all the others.
LEMMA CloseSlotKeepsSeats ==
    ASSUME TypeOK, Seats, NEW i \in Slots, NEW r, clients[i] # NoConn, CloseSlot(i, r)
    PROVE  Seats'
<1> DEFINE c == clients[i]
<1>1. /\ c \in Conns /\ backlog' = backlog
      /\ clients' = [clients EXCEPT ![i] = NoConn]
      /\ peer' = [peer EXCEPT ![c] = "done"]
      /\ inbound' = [inbound EXCEPT ![c] = 0]
  BY DEF CloseSlot, Hangup, TypeOK, SlotValue
<1>2. \A j \in Slots : clients'[j] = IF j = i THEN NoConn ELSE clients[j]
  BY <1>1 DEF TypeOK
<1>3. \A d \in Conns : /\ peer'[d] = IF d = c THEN "done" ELSE peer[d]
                       /\ inbound'[d] = IF d = c THEN 0 ELSE inbound[d]
  BY <1>1 DEF TypeOK
<1>4. \A j \in Slots \ {i} : clients[j] # c
  BY DEF Seats, SlotsHoldLivePeers
<1>5. ~Queued(c) /\ \A k \in 1 .. Len(backlog) : backlog[k] \in Conns
  BY DEF Seats, Backlog, TypeOK
<1>6. \A j \in Slots : clients[j] \in Conns \cup {NoConn}
  BY DEF TypeOK, SlotValue
<1> HIDE DEF c
<1>7. SlotsHoldLivePeers'
  BY <1>2, <1>3, <1>4, <1>6 DEF Seats, SlotsHoldLivePeers
<1>8. ~Queued(NoConn)
  BY <1>5, NoConnAssumption DEF Queued
<1>9. Backlog'
  BY <1>1, <1>2, <1>3, <1>5, <1>8 DEF Seats, Backlog, Queued, IsLive
<1> QED
  BY <1>7, <1>9 DEF Seats

LEMMA SeatsStep == TypeOK /\ Seats /\ [Next]_vars => Seats'
<1> SUFFICES ASSUME TypeOK, Seats, [Next]_vars PROVE Seats'
  OBVIOUS
<1>1. CASE UNCHANGED <<clients, peerVars>>
  BY <1>1, QuietKeepsSeats DEF peerVars, IsLive
<1>2. CASE DisconnectOne
  <2>1. idx \in Slots
    BY <1>2, MaxClientsAssumption DEF DisconnectOne, TypeOK, Slots
  <2> QED
    BY <1>1, <1>2, <2>1, CloseSlotKeepsSeats DEF DisconnectOne
<1>3. CASE HandleCommand
  BY <1>1, <1>3, CloseSlotKeepsSeats DEF HandleCommand, Occupied, FreeSlots
<1>4. CASE PollEnd
  <2>1. idx \in Slots
    BY <1>4, MaxClientsAssumption DEF PollEnd, TypeOK, Slots
  <2> QED
    BY <1>4, <2>1, CloseSlotKeepsSeats DEF PollEnd
<1>5. CASE CheckTimeout
  <2>1. idx \in Slots /\ clients[idx] # NoConn
    BY <1>5, MaxClientsAssumption DEF CheckTimeout, TypeOK, Slots
  <2> QED
    BY <1>1, <1>5, <2>1, CloseSlotKeepsSeats DEF CheckTimeout
<1>6. CASE CloseListener
  <2>1. /\ clients' = clients /\ backlog' = <<>>
        /\ \A c \in Conns : c \notin Range(backlog) => peer'[c] = peer[c]
        /\ \A c \in Conns : inbound'[c] = IF c \in Range(backlog) THEN 0 ELSE inbound[c]
    BY <1>6 DEF CloseListener
  <2>2. \A i \in Slots : clients[i] # NoConn =>
            clients[i] \in Conns /\ clients[i] \notin Range(backlog)
    <3>1. \A c : c \in Range(backlog) => Queued(c)
      BY DEF Range, Queued, TypeOK
    <3> QED
      BY <3>1 DEF Seats, Backlog, TypeOK, SlotValue
  <2>3. \A c \in Conns : inbound'[c] > 0 => inbound[c] > 0 /\ c \notin Range(backlog)
    BY <2>1 DEF TypeOK
  <2>4. SlotsHoldLivePeers'
    BY <2>1, <2>2, <2>3 DEF Seats, SlotsHoldLivePeers
  <2>5. Backlog'
    BY <2>1 DEF Backlog, Queued
  <2> QED
    BY <2>4, <2>5 DEF Seats
<1>7. CASE Accept
  <2> DEFINE c == Head(backlog)
  <2>1. PICK i \in Slots : clients[i] = NoConn /\ clients' = [clients EXCEPT ![i] = c]
    BY <1>7 DEF Accept, IsFirstFree, FreeSlots
  <2>2. backlog # <<>> /\ backlog \in Seq(Conns) /\ backlog' = Tail(backlog)
        /\ UNCHANGED <<peer, inbound>>
    BY <1>7 DEF Accept, TypeOK
  <2>3. c = backlog[1] /\ 1 \in 1 .. Len(backlog) /\ c \in Conns
        /\ Len(backlog') = Len(backlog) - 1
        /\ \A k \in 1 .. Len(backlog') : k + 1 \in 1 .. Len(backlog) /\ backlog'[k] = backlog[k + 1]
    BY <2>2
  <2> HIDE DEF c
  <2>4. \A j \in Slots : clients'[j] = IF j = i THEN c ELSE clients[j]
    BY <2>1 DEF TypeOK
  <2>5. IsLive(c) /\ Queued(c)
    BY <2>3 DEF Seats, Backlog, Queued
  <2>6. SlotsHoldLivePeers'
    BY <2>2, <2>4, <2>5 DEF Seats, SlotsHoldLivePeers, Backlog, IsLive
  <2>7. \A k \in 1 .. Len(backlog') : backlog'[k] # c
    BY <2>3 DEF Seats, Backlog
  <2>8. \A k, m \in 1 .. Len(backlog') : backlog'[k] = backlog'[m] => k = m
    <3> TAKE k, m \in 1 .. Len(backlog')
    <3> HAVE backlog'[k] = backlog'[m]
    <3>1. k + 1 = m + 1
      BY <2>3 DEF Seats, Backlog
    <3> QED
      BY <3>1, <2>3, <2>2
  <2>9. Backlog'
    BY <2>2, <2>3, <2>4, <2>7, <2>8 DEF Seats, Backlog, Queued, IsLive
  <2> QED
    BY <2>6, <2>9 DEF Seats
<1>8. CASE Reject
  <2> DEFINE c == Head(backlog)
  <2>2. backlog # <<>> /\ backlog \in Seq(Conns) /\ backlog' = Tail(backlog)
        /\ clients' = clients
    BY <1>8 DEF Reject, TypeOK
  <2>3. c = backlog[1] /\ 1 \in 1 .. Len(backlog) /\ c \in Conns
        /\ Len(backlog') = Len(backlog) - 1
        /\ \A k \in 1 .. Len(backlog') : k + 1 \in 1 .. Len(backlog) /\ backlog'[k] = backlog[k + 1]
    BY <2>2
  <2>4. \A d \in Conns : /\ peer'[d] = IF d = c THEN "done" ELSE peer[d]
                         /\ inbound'[d] = IF d = c THEN 0 ELSE inbound[d]
    BY <1>8 DEF Reject, Hangup, TypeOK
  <2> HIDE DEF c
  <2>5. Queued(c)
    BY <2>3 DEF Queued
  <2>6. \A j \in Slots : clients[j] # c /\ clients[j] \in Conns \cup {NoConn}
    BY <2>5 DEF Seats, Backlog, TypeOK, SlotValue
  <2>7. SlotsHoldLivePeers'
    BY <2>2, <2>4, <2>6 DEF Seats, SlotsHoldLivePeers
  <2>8. \A k \in 1 .. Len(backlog') : backlog'[k] # c /\ backlog'[k] \in Conns
    BY <2>2, <2>3 DEF Seats, Backlog
  <2>9. \A k, m \in 1 .. Len(backlog') : backlog'[k] = backlog'[m] => k = m
    <3> TAKE k, m \in 1 .. Len(backlog')
    <3> HAVE backlog'[k] = backlog'[m]
    <3>1. k + 1 = m + 1
      BY <2>3 DEF Seats, Backlog
    <3> QED
      BY <3>1, <2>3, <2>2
  <2>10. Backlog'
    BY <2>2, <2>3, <2>4, <2>8, <2>9 DEF Seats, Backlog, Queued, IsLive
  <2> QED
    BY <2>7, <2>10 DEF Seats
<1>9. CASE PollRead
  <2>1. UNCHANGED <<clients, peer, backlog>>
    BY <1>9 DEF PollRead
  <2>2. \A c \in Conns : inbound'[c] > 0 => inbound[c] > 0
    BY <1>9 DEF PollRead, TypeOK, CanRead
  <2> QED
    BY <2>1, <2>2, QuietKeepsSeats DEF IsLive
<1>10. ASSUME NEW c \in Conns, Connect(c) PROVE Seats'
  <2>1. peer[c] = "new" /\ clients' = clients /\ inbound' = inbound
        /\ backlog' = Append(backlog, c) /\ backlog \in Seq(Conns)
    BY <1>10 DEF Connect, serverVars, TypeOK
  <2>2. \A d \in Conns : peer'[d] = IF d = c THEN "open" ELSE peer[d]
    BY <1>10 DEF Connect, TypeOK
  <2>3. ~IsLive(c) /\ ~Queued(c) /\ \A i \in Slots : clients[i] # c
    BY <2>1, NoConnAssumption DEF IsLive, Seats, Backlog, SlotsHoldLivePeers, Queued
  <2>4. Len(backlog') = Len(backlog) + 1
        /\ \A k \in 1 .. Len(backlog') : backlog'[k] \in Conns
             /\ backlog'[k] = IF k = Len(backlog) + 1 THEN c ELSE backlog[k]
    BY <2>1
  <2>5. SlotsHoldLivePeers'
    BY <2>1, <2>2, <2>3 DEF Seats, SlotsHoldLivePeers, TypeOK, SlotValue
  <2>6. \A k \in 1 .. Len(backlog) : backlog[k] # c /\ backlog[k] \in Conns
    BY <2>1, <2>3 DEF Queued
  <2>7. Backlog'
    BY <2>1, <2>2, <2>3, <2>4, <2>6 DEF Seats, Backlog, Queued, IsLive
  <2> QED
    BY <2>5, <2>7 DEF Seats
<1>11. ASSUME NEW c \in Conns, PeerSends(c) PROVE Seats'
  <2>1. UNCHANGED <<clients, peer, backlog>> /\ peer[c] = "open"
    BY <1>11 DEF PeerSends, serverVars
  <2>2. \A d \in Conns \ {c} : inbound'[d] = inbound[d]
    BY <1>11 DEF PeerSends, TypeOK
  <2> QED
    BY <2>1, <2>2, QuietKeepsSeats DEF IsLive
<1>12. ASSUME NEW c \in Conns, NEW how \in {"fin", "rst"}, PeerLeaves(c, how) PROVE Seats'
  <2>1. UNCHANGED <<clients, inbound, backlog>>
    BY <1>12 DEF PeerLeaves, serverVars
  <2>2. \A d \in Conns : IsLive(d) => IsLive(d)'
    BY <1>12 DEF PeerLeaves, IsLive, TypeOK
  <2> QED
    BY <2>1, <2>2, QuietKeepsSeats
<1>13. CASE \/ AwaitFirstSettings \/ OpenListener \/ AwaitSettingsAfterBindFailure
            \/ TakeSettings \/ SettingsDrained \/ CommandsDrained \/ HandleData
            \/ DataDrained \/ AcceptEnds \/ PollFreeSlot \/ PollWouldBlock \/ PollDone
  BY <1>1, <1>13 DEF AwaitFirstSettings, OpenListener, AwaitSettingsAfterBindFailure,
       TakeSettings, SettingsDrained, CommandsDrained, HandleData, DataDrained,
       AcceptEnds, PollFreeSlot, PollWouldBlock, PollDone
<1>14. ASSUME \/ MasterReceives
              \/ \E on \in BOOLEAN : SendSettings(on)
              \/ \E i \in Slots, close \in BOOLEAN : SendCommand(i, close)
              \/ \E i \in Slots : SendData(i)
              \/ \E c \in Conns : Expire(c)
       PROVE  Seats'
  BY <1>1, <1>14 DEF MasterReceives, SendSettings, SendCommand, SendData, Expire, serverVars
<1>15. CASE UNCHANGED vars
  BY <1>1, <1>15 DEF vars, serverVars
<1> QED
  BY <1>2, <1>3, <1>4, <1>5, <1>6, <1>7, <1>8, <1>9, <1>10, <1>11, <1>12, <1>13, <1>14,
     <1>15
  DEF Next, ServerStep, Environment

\* No slot ever holds a stream whose peer the task has hung up on, no connection
\* is served in two slots, and payloads are kept for live peers only.
THEOREM SlotsAreLive == Spec => []SlotsHoldLivePeers
<1>1. Seats => SlotsHoldLivePeers
  BY DEF Seats
<1> QED
  BY <1>1, SeatsInit, SeatsStep, TypeCorrect, PTL DEF Spec

---------------------------------------------------------------------------
(* The refinement.  The master's table is a slot register because a        *)
(* connection is announced once: what has been announced is never new      *)
(* again, and never in the backlog.                                        *)

Accepted == {c \in Conns : peer[c] # "new" /\ ~Queued(c)}
Opening == {k \in 1 .. Len(uartTx) : uartTx[k].kind = "connected"}

Once ==
    /\ \A k \in Opening : uartTx[k].conn \in Accepted
    /\ \A k, m \in Opening : uartTx[k].conn = uartTx[m].conn => k = m
    /\ \A i \in Slots : view[i] # NoConn =>
         view[i] \in Accepted /\ \A k \in Opening : uartTx[k].conn # view[i]
    /\ \A i, j \in Slots : view[i] = view[j] /\ view[i] # NoConn => i = j

LEMMA OnceInit == Init => Once
<1> SUFFICES ASSUME Init PROVE Once
  OBVIOUS
<1>1. Len(uartTx) = 0 /\ \A i \in Slots : view[i] = NoConn
  BY DEF Init
<1> QED
  BY <1>1 DEF Once, Opening

\* What was announced stays accepted, and nothing is announced or delivered.
LEMMA QuietKeepsOnce ==
    ASSUME Once, UNCHANGED <<uartTx, view>>, Accepted \subseteq Accepted'
    PROVE  Once'
<1>1. Opening' = Opening
  BY DEF Opening
<1> QED
  BY <1>1 DEF Once

\* A frame that announces no connection.
LEMMA SendKeepsOnce ==
    ASSUME TypeOK, Once, view' = view, NEW f \in Frame, f.kind # "connected",
           uartTx' = Append(uartTx, f), Accepted \subseteq Accepted'
    PROVE  Once'
<1>1. Len(uartTx') = Len(uartTx) + 1 /\ Len(uartTx) \in Nat
      /\ \A k \in 1 .. Len(uartTx') : uartTx'[k] = IF k = Len(uartTx) + 1 THEN f ELSE uartTx[k]
  BY DEF TypeOK
<1>2. Opening' = Opening /\ \A k \in Opening : uartTx'[k] = uartTx[k]
  <2>1. \A k \in 1 .. Len(uartTx) : k \in 1 .. Len(uartTx') /\ uartTx'[k] = uartTx[k]
    BY <1>1
  <2>2. \A k \in 1 .. Len(uartTx') : k \in 1 .. Len(uartTx) \/ uartTx'[k] = f
    BY <1>1
  <2> QED
    BY <2>1, <2>2 DEF Opening
<1>3. \A k \in Opening' : uartTx'[k].conn \in Accepted'
  BY <1>2 DEF Once
<1>4. \A k, m \in Opening' : uartTx'[k].conn = uartTx'[m].conn => k = m
  <2> TAKE k, m \in Opening'
  <2>1. /\ k \in Opening /\ uartTx'[k] = uartTx[k]
        /\ m \in Opening /\ uartTx'[m] = uartTx[m]
    BY <1>2
  <2> QED
    BY <2>1 DEF Once
<1>5. \A i \in Slots : view[i] # NoConn =>
        view[i] \in Accepted' /\ \A k \in Opening' : uartTx'[k].conn # view[i]
  BY <1>2, Zenon DEF Once
<1> QED
  BY <1>3, <1>4, <1>5, Zenon DEF Once

LEMMA CloseSlotKeepsOnce ==
    ASSUME TypeOK, Seats, Once, NEW i \in Slots, NEW r \in Reasons,
           clients[i] # NoConn, CloseSlot(i, r), view' = view
    PROVE  Once'
<1> DEFINE f == Disconnected(i, r)
<1>1. f \in Frame /\ f.kind # "connected"
  BY FramesTyped DEF Disconnected
<1>2. uartTx' = Append(uartTx, f) /\ backlog' = backlog
      /\ peer' = [peer EXCEPT ![clients[i]] = "done"]
  BY DEF CloseSlot, Send, Hangup
<1>3. Accepted \subseteq Accepted'
  BY <1>2 DEF Accepted, Queued, TypeOK
<1> HIDE DEF f
<1> QED
  BY <1>1, <1>2, <1>3, SendKeepsOnce

LEMMA OnceStep == TypeOK /\ Log /\ Seats /\ Once /\ [Next]_vars => Once'
<1> SUFFICES ASSUME TypeOK, Log, Seats, Once, [Next]_vars PROVE Once'
  OBVIOUS
<1>0. LogWellFormed
  BY DEF Log
<1>r. {Undefined, ClientClosed, ServerClosed, InactivityTimeout} \subseteq Reasons
  BY DEF Reasons, Undefined, ClientClosed, ServerClosed, InactivityTimeout, NotConnected
<1>1. CASE UNCHANGED <<uartTx, view, peer, backlog>>
  BY <1>0, <1>1, QuietKeepsOnce DEF Accepted, Queued
<1>2. CASE DisconnectOne
  <2>1. idx \in Slots
    BY <1>2, MaxClientsAssumption DEF DisconnectOne, TypeOK, Slots
  <2> QED
    BY <1>0, <1>r, <1>1, <1>2, <2>1, CloseSlotKeepsOnce DEF DisconnectOne, peerVars
<1>3. CASE HandleCommand
  BY <1>0, <1>r, <1>1, <1>3, CloseSlotKeepsOnce DEF HandleCommand, Occupied, FreeSlots, peerVars
<1>4. CASE PollEnd
  <2>1. idx \in Slots
    BY <1>4, MaxClientsAssumption DEF PollEnd, TypeOK, Slots
  <2> QED
    BY <1>0, <1>r, <1>4, <2>1, CloseSlotKeepsOnce DEF PollEnd
<1>5. CASE CheckTimeout
  <2>1. idx \in Slots /\ clients[idx] # NoConn
    BY <1>5, MaxClientsAssumption DEF CheckTimeout, TypeOK, Slots
  <2> QED
    BY <1>0, <1>r, <1>1, <1>5, <2>1, CloseSlotKeepsOnce DEF CheckTimeout, peerVars
<1>6. CASE CloseListener
  <2>1. UNCHANGED <<uartTx, view>> /\ backlog' = <<>>
        /\ \A c \in Conns : peer'[c] \in {peer[c], "done"}
    BY <1>6 DEF CloseListener
  <2>2. Accepted \subseteq Accepted'
    BY <2>1 DEF Accepted, Queued
  <2> QED
    BY <1>0, <2>1, <2>2, QuietKeepsOnce
<1>7. CASE HandleData
  <2> DEFINE f == Disconnected(Head(dataQ).index, NotConnected)
  <2>1. CASE UNCHANGED uartTx
    BY <1>1, <1>7, <2>1 DEF HandleData, peerVars
  <2>2. CASE Head(dataQ).index \in FreeSlots /\ uartTx' = Append(uartTx, f)
    <3>1. Head(dataQ).index \in Slots /\ NotConnected \in Reasons
      BY <2>2 DEF FreeSlots, Reasons, NotConnected, Undefined
    <3>2. f \in Frame
      BY <3>1, FramesTyped
    <3>3. f.kind # "connected"
      BY DEF Disconnected
    <3>4. view' = view /\ UNCHANGED <<peer, backlog>>
      BY <1>7 DEF HandleData, peerVars
    <3> HIDE DEF f
    <3> QED
      BY <2>2, <3>2, <3>3, <3>4, SendKeepsOnce DEF Accepted, Queued
  <2> QED
    BY <1>7, <2>1, <2>2 DEF HandleData, Send
<1>8. CASE Accept
  <2> DEFINE c == Head(backlog)
  <2>1. PICK i \in Slots : uartTx' = Append(uartTx, Connected(i, c))
    BY <1>8 DEF Accept, Send
  <2>2. backlog # <<>> /\ backlog \in Seq(Conns) /\ backlog' = Tail(backlog)
        /\ UNCHANGED <<peer, view>>
    BY <1>8 DEF Accept, TypeOK
  <2>3. c = backlog[1] /\ 1 \in 1 .. Len(backlog) /\ c \in Conns
        /\ Len(backlog') = Len(backlog) - 1
        /\ \A k \in 1 .. Len(backlog') : k + 1 \in 1 .. Len(backlog) /\ backlog'[k] = backlog[k + 1]
    BY <2>2
  <2> HIDE DEF c
  <2> DEFINE f == Connected(i, c)
  <2>4. f.kind = "connected" /\ f.conn = c
    BY DEF Connected
  <2>5. Len(uartTx') = Len(uartTx) + 1
        /\ \A k \in 1 .. Len(uartTx') :
             uartTx'[k] = IF k = Len(uartTx) + 1 THEN f ELSE uartTx[k]
    BY <2>1 DEF TypeOK
  <2> HIDE DEF f
  <2>6. Queued(c) /\ IsLive(c)
    BY <2>3 DEF Queued, Seats, Backlog
  <2>7. \A k \in 1 .. Len(backlog') : backlog'[k] # c
    BY <2>3 DEF Seats, Backlog
  <2>8. c \in Accepted' /\ c \notin Accepted
    BY <2>2, <2>3, <2>6, <2>7 DEF Accepted, Queued, IsLive
  <2>9. Accepted \subseteq Accepted'
    BY <2>2, <2>3 DEF Accepted, Queued
  <2>10. /\ Opening' = Opening \cup {Len(uartTx) + 1}
         /\ uartTx'[Len(uartTx) + 1] = f
         /\ \A k \in Opening : uartTx'[k] = uartTx[k]
    <3>1. Len(uartTx) \in Nat
      BY DEF TypeOK
    <3> QED
      BY <2>4, <2>5, <3>1 DEF Opening
  <2> QED
    BY <2>2, <2>4, <2>8, <2>9, <2>10 DEF Once
<1>9. CASE Reject
  <2>1. backlog # <<>> /\ backlog \in Seq(Conns) /\ backlog' = Tail(backlog)
        /\ UNCHANGED <<uartTx, view>> /\ peer' = [peer EXCEPT ![Head(backlog)] = "done"]
    BY <1>9 DEF Reject, Hangup, TypeOK
  <2>2. Len(backlog') = Len(backlog) - 1
        /\ \A k \in 1 .. Len(backlog') : k + 1 \in 1 .. Len(backlog) /\ backlog'[k] = backlog[k + 1]
    BY <2>1
  <2>3. Accepted \subseteq Accepted'
    BY <2>1, <2>2 DEF Accepted, Queued, TypeOK
  <2> QED
    BY <1>0, <2>1, <2>3, QuietKeepsOnce
<1>10. CASE PollRead
  <2> DEFINE f == Data(idx, clients[idx])
  <2>1. idx \in Slots /\ clients[idx] \in Conns
    BY <1>10, MaxClientsAssumption DEF PollRead, TypeOK, Slots, SlotValue
  <2>2. f \in Frame /\ f.kind # "connected"
    BY <2>1, FramesTyped DEF Data
  <2>3. uartTx' = Append(uartTx, f) /\ UNCHANGED <<view, peer, backlog>>
    BY <1>10 DEF PollRead, Send
  <2> HIDE DEF f
  <2> QED
    BY <1>0, <2>2, <2>3, SendKeepsOnce DEF Accepted, Queued
<1>11. CASE MasterReceives
  <2> DEFINE f == Head(uartTx)
  <2>1. /\ uartTx # <<>> /\ uartTx \in Seq(Frame) /\ uartTx' = Tail(uartTx)
        /\ UNCHANGED <<peer, backlog>>
        /\ view' = IF f.kind = "data" THEN view ELSE [view EXCEPT ![f.index] = f.conn]
    BY <1>11 DEF MasterReceives, peerVars, TypeOK
  <2>2. /\ f = uartTx[1] /\ f \in Frame /\ 1 \in 1 .. Len(uartTx)
        /\ Len(uartTx') = Len(uartTx) - 1
        /\ \A k \in 1 .. Len(uartTx') : k + 1 \in 1 .. Len(uartTx) /\ k + 1 # 1
                                        /\ uartTx'[k] = uartTx[k + 1]
    BY <2>1
  <2> HIDE DEF f
  <2>3. f.kind = "disconnected" => f.conn = NoConn
    BY <1>0, <2>2 DEF LogWellFormed, FrameExpected
  <2>4. f.kind = "connected" => 1 \in Opening
    BY <2>2 DEF Opening
  <2>5. f.kind \in {"connected", "disconnected", "data"} /\ f.index \in Slots
    BY <2>2 DEF Frame
  <2>6. \A i \in Slots : view'[i] # NoConn =>
            \/ view'[i] = view[i]
            \/ f.kind = "connected" /\ i = f.index /\ view'[i] = f.conn
    BY <2>1, <2>3, <2>5 DEF TypeOK
  <2>7. \A k \in Opening' : k + 1 \in Opening /\ k + 1 # 1 /\ uartTx'[k] = uartTx[k + 1]
    BY <2>2 DEF Opening
  <2>8. Accepted' = Accepted
    BY <2>1 DEF Accepted, Queued
  <2>9. f.kind = "connected" =>
            /\ f.conn \in Accepted
            /\ \A k \in Opening' : uartTx'[k].conn # f.conn
            /\ \A i \in Slots : view[i] # NoConn => view[i] # f.conn
    BY <2>2, <2>4, <2>7 DEF Once
  <2>10. \A k, m \in Opening' : uartTx'[k].conn = uartTx'[m].conn => k = m
    <3> TAKE k, m \in Opening'
    <3> HAVE uartTx'[k].conn = uartTx'[m].conn
    <3>1. k + 1 = m + 1
      BY <2>7 DEF Once
    <3> QED
      BY <3>1 DEF Opening
  <2>11. \A k \in Opening' : uartTx'[k].conn \in Accepted'
    BY <2>7, <2>8 DEF Once
  <2>12. \A i \in Slots : view'[i] # NoConn =>
            view'[i] \in Accepted' /\ \A k \in Opening' : uartTx'[k].conn # view'[i]
    BY <2>6, <2>7, <2>8, <2>9 DEF Once
  <2>13. \A i, j \in Slots : view'[i] = view'[j] /\ view'[i] # NoConn => i = j
    BY <2>6, <2>9 DEF Once
  <2> QED
    BY <2>10, <2>11, <2>12, <2>13 DEF Once
<1>12. ASSUME NEW c \in Conns, Connect(c) PROVE Once'
  <2>1. UNCHANGED <<uartTx, view>> /\ peer[c] = "new" /\ peer' = [peer EXCEPT ![c] = "open"]
        /\ backlog' = Append(backlog, c) /\ backlog \in Seq(Conns)
    BY <1>12 DEF Connect, TypeOK
  <2>2. \A k \in 1 .. Len(backlog') : backlog'[k] = c \/ Queued(backlog'[k])
    BY <2>1 DEF Queued
  <2>3. Accepted \subseteq Accepted'
    <3>1. \A d \in Conns : peer'[d] = IF d = c THEN "open" ELSE peer[d]
      BY <2>1 DEF TypeOK
    <3> QED
      BY <2>1, <2>2, <3>1 DEF Accepted, Queued
  <2> QED
    BY <1>0, <2>1, <2>3, QuietKeepsOnce
<1>13. ASSUME NEW c \in Conns, NEW how \in {"fin", "rst"}, PeerLeaves(c, how) PROVE Once'
  <2>1. UNCHANGED <<uartTx, view, backlog>> /\ peer' = [peer EXCEPT ![c] = how]
    BY <1>13 DEF PeerLeaves
  <2>2. Accepted \subseteq Accepted'
    BY <2>1 DEF Accepted, Queued, TypeOK
  <2> QED
    BY <1>0, <2>1, <2>2, QuietKeepsOnce
<1>14. CASE \/ AwaitFirstSettings \/ OpenListener \/ AwaitSettingsAfterBindFailure
            \/ TakeSettings \/ SettingsDrained \/ CommandsDrained
            \/ DataDrained \/ AcceptEnds \/ PollFreeSlot \/ PollWouldBlock \/ PollDone
  BY <1>1, <1>14 DEF AwaitFirstSettings, OpenListener, AwaitSettingsAfterBindFailure,
       TakeSettings, SettingsDrained, CommandsDrained, DataDrained,
       AcceptEnds, PollFreeSlot, PollWouldBlock, PollDone, peerVars
<1>15. ASSUME \/ \E on \in BOOLEAN : SendSettings(on)
              \/ \E i \in Slots, close \in BOOLEAN : SendCommand(i, close)
              \/ \E i \in Slots : SendData(i)
              \/ \E c \in Conns : PeerSends(c) \/ Expire(c)
       PROVE  Once'
  BY <1>1, <1>15 DEF SendSettings, SendCommand, SendData, PeerSends, Expire, peerVars
<1>16. CASE UNCHANGED vars
  BY <1>1, <1>16 DEF vars, peerVars
<1> QED
  BY <1>2, <1>3, <1>4, <1>5, <1>6, <1>7, <1>8, <1>9, <1>10, <1>11, <1>12, <1>13, <1>14,
     <1>15, <1>16
  DEF Next, ServerStep, Environment

\* A frame of the log that the master receives is a step of the register.
LEMMA DeliveryRefines ==
    ASSUME TypeOK, LogWellFormed, Once, MasterReceives
    PROVE  Register!Next \/ view' = view
<1> DEFINE f == Head(uartTx)
<1>1. /\ f = uartTx[1] /\ f \in Frame /\ 1 \in 1 .. Len(uartTx)
      /\ view' = IF f.kind = "data" THEN view ELSE [view EXCEPT ![f.index] = f.conn]
  BY DEF MasterReceives, TypeOK
<1>2. FrameExpected(view, uartTx, 1)
  BY <1>1 DEF LogWellFormed
<1>3. \A i, c : Believes(view, uartTx, i, 1, c) => view[i] = c
  BY DEF Believes
<1>4. f.kind = "connected" => \A j \in Slots : view[j] # f.conn
  <2>1. CASE f.kind = "connected"
    <3>1. 1 \in Opening /\ f.conn # NoConn
      BY <1>1, <1>2, <2>1 DEF Opening, FrameExpected
    <3> QED
      BY <1>1, <3>1 DEF Once
  <2> QED
    BY <2>1
<1> HIDE DEF f
<1>5. f.kind \in {"connected", "disconnected", "data"} /\ f.index \in Register!Slots
      /\ f.conn \in Conns \cup {NoConn} /\ view \in [Register!Slots -> SlotValue]
  BY <1>1 DEF Frame, SlotValue, TypeOK, Slots, Register!Slots
<1>6. CASE f.kind = "connected"
  <2>1. f.conn \in Conns /\ view[f.index] = NoConn /\ \A j \in Register!Slots : view[j] # f.conn
    BY <1>1, <1>2, <1>3, <1>4, <1>5, <1>6 DEF FrameExpected, Slots, Register!Slots
  <2>2. Register!Occupy(f.index, f.conn)
    BY <1>1, <1>6, <2>1 DEF Register!Occupy
  <2> QED
    BY <1>5, <2>1, <2>2 DEF Register!Next
<1>7. CASE f.kind = "disconnected" /\ f.reason # NotConnected
  <2>1. f.conn = NoConn /\ view[f.index] # NoConn
    BY <1>1, <1>2, <1>3, <1>7, NoConnAssumption DEF FrameExpected
  <2>2. Register!Release(f.index)
    BY <1>1, <1>7, <2>1 DEF Register!Release
  <2> QED
    BY <1>5, <2>2 DEF Register!Next
<1>8. CASE f.kind = "disconnected" /\ f.reason = NotConnected
  <2>1. f.conn = NoConn /\ view[f.index] = NoConn
    BY <1>1, <1>2, <1>3, <1>8 DEF FrameExpected
  <2> QED
    BY <1>1, <1>5, <1>8, <2>1
<1>9. CASE f.kind = "data"
  BY <1>1, <1>9
<1> QED
  BY <1>5, <1>6, <1>7, <1>8, <1>9

LEMMA StepRefines == TypeOK /\ Log /\ Once /\ [Next]_vars => [Register!Next]_view
<1> SUFFICES ASSUME TypeOK, Log, Once, [Next]_vars PROVE Register!Next \/ view' = view
  OBVIOUS
<1>1. CASE MasterReceives
  BY <1>1, DeliveryRefines DEF Log
<1>2. CASE ServerStep
  BY <1>2 DEF ServerStep, AwaitFirstSettings, OpenListener, AwaitSettingsAfterBindFailure,
       TakeSettings, DisconnectOne, CloseListener, SettingsDrained, HandleCommand,
       CommandsDrained, HandleData, DataDrained, Accept, Reject, AcceptEnds, PollFreeSlot,
       PollRead, PollEnd, PollWouldBlock, CheckTimeout, PollDone
<1>3. CASE Environment /\ ~MasterReceives
  BY <1>3 DEF Environment, SendSettings, SendCommand, SendData, Connect, PeerSends,
       PeerLeaves, Expire
<1>4. CASE UNCHANGED vars
  BY <1>4 DEF vars
<1> QED
  BY <1>1, <1>2, <1>3, <1>4 DEF Next

\* The server implements the slot register: in the table that the master builds
\* from the frames, for every number of slots and connections, a slot changes
\* hands only through `disconnected' and no connection is in two slots.
THEOREM RegisterImplemented == Spec => ImplementsRegister
<1>1. Init => Register!Init
  BY DEF Init, Register!Init, Slots, Register!Slots
<1>2. IInv => TypeOK /\ Log
  BY DEF IInv
<1>3. Init /\ [][Next]_vars => []Seats
  <2>1. Spec => []TypeOK
    BY TypeCorrect
  <2> QED
    BY <2>1, SeatsInit, SeatsStep, PTL DEF Spec
<1>4. Spec => []Once
  BY <1>2, <1>3, IInvAlways, OnceInit, OnceStep, PTL DEF Spec
<1>5. Spec => [][Register!Next]_view
  BY <1>2, <1>4, IInvAlways, StepRefines, PTL DEF Spec
<1> QED
  BY <1>1, <1>5, PTL DEF Spec, ImplementsRegister, Register!Spec
===========================================================================

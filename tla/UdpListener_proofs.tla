----------------------- MODULE UdpListener_proofs -----------------------
(* Proofs about UdpListener: for any settings, any number of messages and  *)
(* datagrams, any even width of the turn counter and any watchdog limit of *)
(* two units or more.                                                      *)
EXTENDS UdpListener, TLAPS

---------------------------------------------------------------------------
(* Types.  The task has settings it can use wherever it uses them, and its *)
(* sockets are those of its settings.                                      *)

Ready ==
    /\ pc # "first" => Accepted(settings)
    /\ \A n \in DOMAIN inbox : Accepted(inbox[n])
    /\ pc \in {"first", "gate", "open", "bindwait"} => sockets = <<>>
    /\ sockets \in {<<>>, settings.req}

TypeInv == TypeOK /\ Ready

LEMMA HeadIsFirst ==
    ASSUME NEW S, NEW q \in Seq(S), q # <<>>
    PROVE  /\ Head(q) \in S /\ Head(q) = q[1] /\ 1 \in DOMAIN q
           /\ Tail(q) \in Seq(S)
           /\ \A n \in DOMAIN Tail(q) : n + 1 \in DOMAIN q /\ Tail(q)[n] = q[n + 1]
  BY SMT

LEMMA AppendAdds ==
    ASSUME NEW S, NEW q \in Seq(S), NEW e \in S
    PROVE  /\ Append(q, e) \in Seq(S) /\ Append(q, e) # <<>>
           /\ DOMAIN Append(q, e) = 1 .. Len(q) + 1
           /\ \A n \in DOMAIN Append(q, e) :
                 \/ n \in DOMAIN q /\ Append(q, e)[n] = q[n]
                 \/ n = Len(q) + 1 /\ Append(q, e)[n] = e
  BY SMT

LEMMA TypeInit == Init => TypeInv
  BY WidthAssumption DEF Init, TypeInv, TypeOK, Ready, NoSettings, Places, Accepted

LEMMA TakeTyped ==
    ASSUME TypeInv, Take
    PROVE  /\ settings' \in Messages /\ Accepted(settings')
           /\ inbox' \in Seq(Messages)
           /\ \A n \in DOMAIN inbox' : Accepted(inbox'[n])
           /\ era' \in Nat
  <1>1. inbox \in Seq(Messages) /\ inbox # <<>> /\ settings' = Head(inbox)
        /\ inbox' = Tail(inbox) /\ era' = era + 1 /\ era \in Nat
    BY DEF TypeInv, TypeOK, Take
  <1>2. \A n \in DOMAIN inbox : Accepted(inbox[n])
    BY DEF TypeInv, Ready
  <1>. QED  BY <1>1, <1>2, HeadIsFirst

LEMMA TypeStep == TypeInv /\ [Next]_vars => TypeInv'
  <1>. SUFFICES ASSUME TypeInv, [Next]_vars PROVE TypeInv'
    OBVIOUS
  <1>. USE DEF TypeInv
  <1>t. TypeOK /\ Ready
    OBVIOUS
  <1>1. CASE AwaitFirstSettings
    <2>1. /\ settings' \in Messages /\ Accepted(settings')
          /\ inbox' \in Seq(Messages)
          /\ \A n \in DOMAIN inbox' : Accepted(inbox'[n])
          /\ era' \in Nat
      BY <1>1, TakeTyped DEF AwaitFirstSettings
    <2>. QED  BY <2>1, <1>1, <1>t DEF AwaitFirstSettings, TypeOK, Ready, NoFeed, Places, boundVars
  <1>2. CASE WaitSlice
    BY <1>2, <1>t DEF WaitSlice, TypeOK, Ready, Feed, taskVars, boundVars
  <1>3. CASE LoopTop
    BY <1>3, <1>t DEF LoopTop, TypeOK, Ready, Feed, boundVars, Places
  <1>4. CASE GatePassed
    BY <1>4, <1>t DEF GatePassed, TypeOK, Ready, NoFeed, boundVars, Places
  <1>5. CASE OpenSockets
    <2>0. Accepted(settings) /\ settings \in {NoSettings} \cup Messages
      BY <1>5, <1>t DEF OpenSockets, Ready, TypeOK
    <2>1. settings.req \in Seq(Nat)
      <3>1. CASE settings = NoSettings
        <4>1. settings.req = <<>>
          BY <3>1 DEF NoSettings
        <4>. QED  BY <4>1
      <3>2. CASE settings \in Messages
        BY <3>2, MessagesAssumption
      <3>. QED  BY <2>0, <3>1, <3>2
    <2>2. TypeOK'
      <3>1. pc' \in Places \ {"panic"} /\ sockets' \in Seq(Nat) /\ DOMAIN waiting' = DOMAIN sockets'
        BY <1>5, <1>t, <2>1 DEF OpenSockets, TypeOK, Places
      <3>2. \A i \in DOMAIN waiting' : waiting'[i] \in Seq(Datagram)
        <4>1. CASE waiting' = [i \in 1 .. Len(settings.req) |-> <<>>]
          BY <4>1
        <4>2. CASE UNCHANGED waiting
          BY <4>2, <1>t DEF TypeOK
        <4>. QED  BY <1>5, <4>1, <4>2 DEF OpenSockets
      <3>. QED  BY <3>1, <3>2, <1>5, <1>t DEF OpenSockets, TypeOK, NoFeed, boundVars
    <2>3. Ready'
      BY <1>5, <1>t, <2>0 DEF OpenSockets, Ready, boundVars
    <2>. QED  BY <2>2, <2>3
  <1>6. CASE AwaitSettingsAfterBindFailure
    <2>1. /\ settings' \in Messages /\ Accepted(settings')
          /\ inbox' \in Seq(Messages)
          /\ \A n \in DOMAIN inbox' : Accepted(inbox'[n])
          /\ era' \in Nat
      BY <1>6, TakeTyped DEF AwaitSettingsAfterBindFailure
    <2>. QED  BY <2>1, <1>6, <1>t DEF AwaitSettingsAfterBindFailure, TypeOK, Ready, NoFeed, Places, boundVars
  <1>7. CASE TakeSettings
    <2>1. /\ settings' \in Messages /\ Accepted(settings')
          /\ inbox' \in Seq(Messages)
          /\ \A n \in DOMAIN inbox' : Accepted(inbox'[n])
          /\ era' \in Nat
      BY <1>7, TakeTyped DEF TakeSettings
    <2>. QED  BY <2>1, <1>7, <1>t DEF TakeSettings, TypeOK, Ready, NoFeed, Places, boundVars
  <1>8. CASE SettingsDrained
    BY <1>8, <1>t DEF SettingsDrained, TypeOK, Ready, NoFeed, boundVars, Places
  <1>9. ASSUME Receive
        PROVE  /\ waiting' = [waiting EXCEPT ![idx] = Tail(@)] /\ idx \in DOMAIN waiting
               /\ waiting[idx] \in Seq(Datagram) /\ waiting[idx] # <<>>
               /\ DOMAIN waiting' = DOMAIN sockets' /\ idx' \in Nat \ {0}
               /\ \A i \in DOMAIN waiting' : waiting'[i] \in Seq(Datagram)
    BY <1>9, <1>t, HeadIsFirst DEF Receive, Polling, TypeOK
  <1>10. CASE Ignore
    BY <1>10, <1>9, <1>t DEF Ignore, Receive, TypeOK, Ready, NoFeed, boundVars, Polling
  <1>11. CASE Answer
    <2>1. Receive /\ pc = "poll" /\ settings.resp # <<>>
      <3>1. Receive /\ pc = "poll"
        BY <1>11 DEF Answer, Receive, Polling
      <3>2. Len(settings.resp) \in 1 .. 2
        BY <3>1, <1>t DEF Ready, Accepted
      <3>. QED  BY <3>1, <3>2
    <2>2. rr' = (rr + 1) % RRWidth /\ pc' = pc
      BY <2>1, <1>11 DEF Answer
    <2>3. rr' \in 0 .. RRWidth - 1
      BY <2>2, <1>t, WidthAssumption DEF TypeOK
    <2>. QED  BY <2>1, <2>2, <2>3, <1>9, <1>t DEF Receive, TypeOK, Ready, NoFeed, boundVars
  <1>12. CASE PollNothing
    BY <1>12, <1>t DEF PollNothing, Polling, TypeOK, Ready, NoFeed, boundVars
  <1>13. CASE PollDone
    BY <1>13, <1>t DEF PollDone, TypeOK, Ready, NoFeed, boundVars, Places
  <1>14. CASE PauseOver
    BY <1>14, <1>t DEF PauseOver, TypeOK, Ready, NoFeed, boundVars, Places
  <1>15. CASE SendSettings
    <2>1. PICK s \in Messages : Accepted(s) /\ inbox' = Append(inbox, s)
      BY <1>15 DEF SendSettings
    <2>2. inbox' \in Seq(Messages) /\ \A n \in DOMAIN inbox' : Accepted(inbox'[n])
      BY <2>1, <1>t, AppendAdds DEF TypeOK, Ready
    <2>. QED  BY <2>2, <1>15, <1>t DEF SendSettings, TypeOK, Ready, clockVars
  <1>16. CASE DatagramArrives
    <2>1. PICK i \in DOMAIN waiting, type \in Types :
             waiting' = [waiting EXCEPT ![i] = Append(@, [type |-> type, came |-> era])]
      BY <1>16 DEF DatagramArrives
    <2>2. [type |-> type, came |-> era] \in Datagram
      BY <1>t DEF TypeOK, Datagram
    <2>3. DOMAIN waiting' = DOMAIN waiting /\ \A j \in DOMAIN waiting' : waiting'[j] \in Seq(Datagram)
      BY <2>1, <2>2, <1>t, AppendAdds DEF TypeOK
    <2>. QED  BY <2>3, <1>16, <1>t DEF DatagramArrives, TypeOK, Ready, clockVars
  <1>17. CASE Tick
    BY <1>17, <1>t DEF Tick, TypeOK, Ready, taskVars, boundVars
  <1>18. CASE Reset
    BY <1>18, <1>t, WidthAssumption DEF Reset, TypeOK, Ready, Feed, NoSettings, Places, boundVars
  <1>19. CASE UNCHANGED vars
    BY <1>19, <1>t DEF vars, taskVars, clockVars, boundVars, TypeOK, Ready
  <1>. QED
    BY <1>1, <1>2, <1>3, <1>4, <1>5, <1>6, <1>7, <1>8, <1>10, <1>11, <1>12, <1>13,
       <1>14, <1>15, <1>16, <1>17, <1>18, <1>19 DEF Next, TaskStep

LEMMA TypeInvariant == Spec => []TypeInv
  BY TypeInit, TypeStep, PTL DEF Spec

\* The variables keep their types and the task never panics, whatever the
\* master sends: the decoder lets no settings through that the task cannot use.
THEOREM UdpTypeCorrect == Spec => []TypeOK
  BY TypeInvariant, PTL DEF TypeInv

---------------------------------------------------------------------------
(* What an answer says.  A datagram in a socket came under the settings in *)
(* force, and the port whose turn is next is not the one that got the last *)
(* answer.                                                                 *)

AnswerType == [via : Nat, to : Nat, by : Messages, era : Nat, asked : Datagram]

Fresh == \A i \in DOMAIN waiting : \A n \in DOMAIN waiting[i] : waiting[i][n].came = era

NotLater == \A n \in DOMAIN answers : answers[n].era <= era

TwoPorts(s) == Len(s.resp) = 2 /\ s.resp[1] # s.resp[2]

LastTurn ==
    answers # <<>> /\ pc # "first" /\ answers[Len(answers)].era = era
      => /\ answers[Len(answers)].by = settings
         /\ TwoPorts(settings) => answers[Len(answers)].to # ResponsePort

History == answers \in Seq(AnswerType) /\ NotLater /\ AnswersInForce /\ RoundRobin

AnswerInv == Fresh /\ History /\ LastTurn

LEMMA AnswerInit == Init => AnswerInv
  BY DEF Init, AnswerInv, Fresh, History, NotLater, AnswersInForce, RoundRobin, LastTurn

\* Steps that take no settings, change no socket and give no answer.
LEMMA NothingSaid ==
    ASSUME AnswerInv, UNCHANGED <<answers, era, settings, rr, waiting>>,
           pc' # "first" => pc # "first"
    PROVE  AnswerInv'
  BY DEF AnswerInv, Fresh, History, NotLater, AnswersInForce, RoundRobin, LastTurn,
         TwoPorts, ResponsePort

\* A new era: no answer of the history belongs to it yet.
LEMMA NewEra ==
    ASSUME AnswerInv, TypeInv, TypeInv', UNCHANGED answers, Take, sockets' = <<>>
    PROVE  AnswerInv'
  <1>1. era' = era + 1 /\ era \in Nat
    BY DEF Take, TypeInv, TypeOK
  <1>2. Fresh'
    BY DEF TypeInv, TypeOK, Fresh
  <1>3. \A n \in DOMAIN answers : answers[n].era <= era /\ answers[n].era \in Nat
    <2>1. answers \in Seq(AnswerType)
      BY DEF AnswerInv, History
    <2>2. \A n \in DOMAIN answers : answers[n] \in AnswerType
      BY <2>1
    <2>. QED  BY <2>2 DEF AnswerInv, History, NotLater, AnswerType
  <1>4. History'
    BY <1>1, <1>3 DEF AnswerInv, History, NotLater, AnswersInForce, RoundRobin
  <1>5. answers # <<>> => Len(answers) \in DOMAIN answers
    BY DEF AnswerInv, History
  <1>6. LastTurn'
    BY <1>1, <1>3, <1>5 DEF LastTurn
  <1>. QED  BY <1>2, <1>4, <1>6 DEF AnswerInv

\* What a step of the poll takes from a socket is of the present era.
LEMMA ReceiveFresh ==
    ASSUME AnswerInv, TypeInv, Receive
    PROVE  /\ Fresh' /\ Asked \in Datagram /\ Asked.came = era
           /\ idx \in DOMAIN sockets /\ pc = "poll"
  <1>1. idx \in DOMAIN waiting /\ waiting[idx] \in Seq(Datagram) /\ waiting[idx] # <<>>
        /\ idx \in DOMAIN sockets /\ pc = "poll" /\ era' = era
        /\ waiting' = [waiting EXCEPT ![idx] = Tail(@)]
    <2>1. /\ pc = "poll" /\ idx <= Len(sockets) /\ waiting[idx] # <<>> /\ era' = era
          /\ waiting' = [waiting EXCEPT ![idx] = Tail(@)]
      BY DEF Receive, Polling
    <2>2. idx \in Nat \ {0} /\ sockets \in Seq(Nat) /\ DOMAIN waiting = DOMAIN sockets
      BY DEF TypeInv, TypeOK
    <2>3. idx \in DOMAIN sockets
      BY <2>1, <2>2
    <2>. QED  BY <2>1, <2>2, <2>3 DEF TypeInv, TypeOK
  <1>2. Asked \in Datagram /\ Asked.came = era
    BY <1>1, HeadIsFirst DEF Asked, AnswerInv, Fresh
  <1>3. \A n \in DOMAIN Tail(waiting[idx]) : Tail(waiting[idx])[n].came = era
    BY <1>1, HeadIsFirst DEF AnswerInv, Fresh
  <1>4. Fresh'
    BY <1>1, <1>3 DEF AnswerInv, Fresh
  <1>. QED  BY <1>1, <1>2, <1>4

LEMMA TurnPasses ==
    ASSUME NEW w \in Nat \ {0}, w % 2 = 0, NEW x \in 0 .. w - 1
    PROVE  ((x + 1) % w) % 2 # x % 2
  <1>1. CASE x + 1 = w
    <2>1. (x + 1) % w = 0
      BY <1>1
    <2>2. x % 2 = 1
      BY <1>1
    <2>. QED  BY <2>1, <2>2
  <1>2. CASE x + 1 < w
    <2>1. (x + 1) % w = x + 1
      BY <1>2
    <2>. QED  BY <2>1
  <1>. QED  BY <1>1, <1>2

LEMMA TwoParities ==
    ASSUME NEW x \in Nat, NEW y \in Nat, x % 2 # y % 2
    PROVE  \/ x % 2 = 0 /\ y % 2 = 1
           \/ x % 2 = 1 /\ y % 2 = 0
  OBVIOUS

LEMMA AnswerGiven ==
    ASSUME AnswerInv, TypeInv, Answer
    PROVE  AnswerInv'
  <1>. DEFINE a == [via |-> sockets[idx], to |-> ResponsePort, by |-> settings,
                    era |-> era, asked |-> Asked]
  <1>1. Receive /\ Fresh' /\ Asked \in Datagram /\ Asked.came = era
        /\ idx \in DOMAIN sockets /\ pc = "poll"
    BY ReceiveFresh DEF Answer
  <1>2. Accepted(settings) /\ sockets \in {<<>>, settings.req}
    BY <1>1 DEF TypeInv, Ready
  <1>3. settings \in Messages
    <2>1. Len(settings.req) \in 1 .. 2
      BY <1>2 DEF Accepted
    <2>2. Len(NoSettings.req) = 0
      <3>1. NoSettings.req = <<>>
        BY DEF NoSettings
      <3>. QED  BY <3>1
    <2>3. settings # NoSettings
      BY <2>1, <2>2
    <2>. QED  BY <2>3 DEF TypeInv, TypeOK
  <1>4. /\ settings.req \in Seq(Nat) /\ settings.resp \in Seq(Nat)
        /\ Len(settings.resp) \in 1 .. 2 /\ settings.resp # <<>>
    <2>1. settings.req \in Seq(Nat) /\ settings.resp \in Seq(Nat)
      BY <1>3, MessagesAssumption
    <2>2. Len(settings.resp) \in 1 .. 2
      BY <1>2 DEF Accepted
    <2>3. settings.resp # <<>>
      <3>. SUFFICES ASSUME settings.resp = <<>> PROVE FALSE
        OBVIOUS
      <3>1. Len(settings.resp) = 0
        OBVIOUS
      <3>. QED  BY <3>1, <2>2, SMT
    <2>. QED  BY <2>1, <2>2, <2>3, Zenon
  <1>5. /\ UNCHANGED <<era, settings, sockets>> /\ pc' = pc
        /\ answers' = Append(answers, a) /\ rr' = (rr + 1) % RRWidth
        /\ Asked.type = settings.type
    BY <1>1, <1>4 DEF Answer, Receive
  <1>6. sockets = settings.req
    BY <1>1, <1>2
  <1>7. a.via \in Range(settings.req) /\ a.via \in Nat
    BY <1>1, <1>4, <1>6 DEF Range
  <1>8. rr \in 0 .. RRWidth - 1 /\ era \in Nat
    BY DEF TypeInv, TypeOK
  <1>9. (rr % Len(settings.resp)) + 1 \in DOMAIN settings.resp
    <2>1. CASE Len(settings.resp) = 1
      BY <2>1, <1>4, <1>8
    <2>2. CASE Len(settings.resp) = 2
      BY <2>2, <1>4, <1>8
    <2>. QED  BY <1>4, <2>1, <2>2
  <1>10. a.to \in Range(settings.resp) /\ a.to \in Nat
    BY <1>4, <1>9 DEF Range, ResponsePort
  <1>11. a \in AnswerType
    BY <1>1, <1>3, <1>7, <1>8, <1>10 DEF AnswerType
  <1>12. answers \in Seq(AnswerType)
    BY DEF AnswerInv, History
  <1>13. /\ answers' \in Seq(AnswerType) /\ answers' # <<>>
         /\ Len(answers') = Len(answers) + 1 /\ answers'[Len(answers')] = a
         /\ DOMAIN answers' = 1 .. Len(answers) + 1
         /\ \A n \in 1 .. Len(answers) : answers'[n] = answers[n]
    <2>. HIDE DEF a
    <2>. QED  BY <1>5, <1>11, <1>12
  <1>14. NotLater'
    <2>1. a.era = era
      OBVIOUS
    <2>. HIDE DEF a
    <2>. QED  BY <2>1, <1>5, <1>8, <1>12, <1>13 DEF NotLater, AnswerInv, History
  <1>15. AnswersInForce'
    <2>1. /\ a.asked.came = a.era /\ a.asked.type = a.by.type
          /\ a.via \in Range(a.by.req) /\ a.to \in Range(a.by.resp)
      BY <1>1, <1>5, <1>7, <1>10
    <2>. HIDE DEF a
    <2>. QED  BY <2>1, <1>12, <1>13 DEF AnswersInForce, AnswerInv, History
  <1>16. RoundRobin'
    <2>1. ASSUME NEW n \in 1 .. Len(answers') - 1
          PROVE  LET x == answers'[n]
                     y == answers'[n + 1]
                 IN  x.era = y.era /\ Len(x.by.resp) = 2 /\ x.by.resp[1] # x.by.resp[2]
                       => x.to # y.to
      <3>1. CASE n < Len(answers)
        <4>1. answers'[n] = answers[n] /\ answers'[n + 1] = answers[n + 1]
              /\ n \in 1 .. Len(answers) - 1
          BY <3>1, <2>1, <1>12, <1>13
        <4>. QED  BY <4>1 DEF RoundRobin, AnswerInv, History
      <3>2. CASE n = Len(answers)
        <4>1. answers'[n] = answers[n] /\ answers'[n + 1] = a /\ answers # <<>>
              /\ n = Len(answers)
          <5>. HIDE DEF a
          <5>. QED  BY <3>2, <2>1, <1>12, <1>13
        <4>. QED  BY <4>1, <1>1 DEF LastTurn, TwoPorts, AnswerInv
      <3>. QED  BY <2>1, <1>12, <1>13, <3>1, <3>2
    <2>. QED  BY <2>1 DEF RoundRobin
  <1>17. TwoPorts(settings) => a.to # ResponsePort'
    <2>. SUFFICES ASSUME TwoPorts(settings) PROVE a.to # ResponsePort'
      OBVIOUS
    <2>1. rr' % 2 # rr % 2
      BY <1>5, <1>8, WidthAssumption, TurnPasses
    <2>2. rr \in Nat /\ rr' \in Nat
      BY <1>5, <1>8, WidthAssumption
    <2>3. /\ a.to = settings.resp[(rr % 2) + 1]
          /\ ResponsePort' = settings.resp[(rr' % 2) + 1]
      BY <1>5 DEF TwoPorts, ResponsePort
    <2>4. \/ rr % 2 = 0 /\ rr' % 2 = 1
          \/ rr % 2 = 1 /\ rr' % 2 = 0
      BY <2>1, <2>2, TwoParities
    <2>5. settings.resp[1] # settings.resp[2]
      BY DEF TwoPorts
    <2>. HIDE DEF a
    <2>6. CASE rr % 2 = 0 /\ rr' % 2 = 1
      BY <2>6, <2>3, <2>5
    <2>7. CASE rr % 2 = 1 /\ rr' % 2 = 0
      BY <2>7, <2>3, <2>5
    <2>. QED  BY <2>4, <2>6, <2>7
  <1>18. LastTurn'
    <2>1. a.by = settings
      OBVIOUS
    <2>. HIDE DEF a
    <2>. QED  BY <2>1, <1>5, <1>13, <1>17 DEF LastTurn, TwoPorts
  <1>. QED  BY <1>1, <1>13, <1>14, <1>15, <1>16, <1>18 DEF AnswerInv, History

LEMMA AnswerStep == TypeInv /\ TypeInv' /\ AnswerInv /\ [Next]_vars => AnswerInv'
  <1>. SUFFICES ASSUME TypeInv, TypeInv', AnswerInv, [Next]_vars PROVE AnswerInv'
    OBVIOUS
  <1>1. CASE AwaitFirstSettings
    BY <1>1, NewEra DEF AwaitFirstSettings, TypeInv, Ready
  <1>2. CASE WaitSlice
    BY <1>2, NothingSaid DEF WaitSlice, taskVars
  <1>3. CASE LoopTop
    BY <1>3, NothingSaid DEF LoopTop
  <1>4. CASE GatePassed
    BY <1>4, NothingSaid DEF GatePassed
  <1>5. CASE OpenSockets
    <2>1. CASE UNCHANGED waiting
      BY <1>5, <2>1, NothingSaid DEF OpenSockets
    <2>2. CASE waiting' = [i \in 1 .. Len(settings.req) |-> <<>>]
      <3>1. Fresh'
        BY <2>2 DEF Fresh
      <3>. QED
        BY <3>1, <1>5 DEF OpenSockets, AnswerInv, History, NotLater, AnswersInForce,
                          RoundRobin, LastTurn, TwoPorts, ResponsePort
    <2>. QED  BY <1>5, <2>1, <2>2 DEF OpenSockets
  <1>6. CASE AwaitSettingsAfterBindFailure
    BY <1>6, NewEra DEF AwaitSettingsAfterBindFailure, TypeInv, Ready
  <1>7. CASE TakeSettings
    BY <1>7, NewEra DEF TakeSettings
  <1>8. CASE SettingsDrained
    BY <1>8, NothingSaid DEF SettingsDrained
  <1>9. CASE Ignore
    BY <1>9, ReceiveFresh DEF Ignore, Receive, AnswerInv, History, NotLater, AnswersInForce,
                              RoundRobin, LastTurn, TwoPorts, ResponsePort
  <1>10. CASE Answer
    BY <1>10, AnswerGiven
  <1>11. CASE PollNothing
    BY <1>11, NothingSaid DEF PollNothing
  <1>12. CASE PollDone
    BY <1>12, NothingSaid DEF PollDone
  <1>13. CASE PauseOver
    BY <1>13, NothingSaid DEF PauseOver
  <1>14. CASE SendSettings
    BY <1>14, NothingSaid DEF SendSettings
  <1>15. CASE DatagramArrives
    <2>1. PICK i \in DOMAIN waiting, type \in Types :
             waiting' = [waiting EXCEPT ![i] = Append(@, [type |-> type, came |-> era])]
      BY <1>15 DEF DatagramArrives
    <2>2. [type |-> type, came |-> era] \in Datagram /\ waiting[i] \in Seq(Datagram)
      BY DEF TypeInv, TypeOK, Datagram
    <2>3. \A n \in DOMAIN Append(waiting[i], [type |-> type, came |-> era]) :
             Append(waiting[i], [type |-> type, came |-> era])[n].came = era
      BY <2>2, AppendAdds DEF AnswerInv, Fresh
    <2>4. era' = era /\ Fresh'
      BY <2>1, <2>3, <1>15 DEF AnswerInv, Fresh, DatagramArrives
    <2>. QED
      BY <2>4, <1>15 DEF DatagramArrives, AnswerInv, History, NotLater, AnswersInForce,
                         RoundRobin, LastTurn, TwoPorts, ResponsePort
  <1>16. CASE Tick
    BY <1>16, NothingSaid DEF Tick, taskVars
  <1>17. CASE Reset
    <2>1. Fresh'
      BY <1>17 DEF Reset, Fresh
    <2>. QED
      BY <2>1, <1>17 DEF Reset, AnswerInv, History, NotLater, AnswersInForce,
                         RoundRobin, LastTurn
  <1>18. CASE UNCHANGED vars
    BY <1>18, NothingSaid DEF vars, taskVars
  <1>. QED
    BY <1>1, <1>2, <1>3, <1>4, <1>5, <1>6, <1>7, <1>8, <1>9, <1>10, <1>11, <1>12, <1>13,
       <1>14, <1>15, <1>16, <1>17, <1>18 DEF Next, TaskStep

LEMMA AnswerInvariant == Spec => []AnswerInv
  BY AnswerInit, AnswerStep, TypeInvariant, PTL DEF Spec

\* Every answer speaks for the settings its request was sent under.
THEOREM UdpAnswersInForce == Spec => []AnswersInForce
  BY AnswerInvariant, PTL DEF AnswerInv, History

\* Two response ports are used in turn for ever, across the wrap of the counter.
THEOREM UdpRoundRobin == Spec => []RoundRobin
  BY AnswerInvariant, PTL DEF AnswerInv, History

---------------------------------------------------------------------------
(* How long the task goes without feeding, by the place it is at.          *)

Ledger ==
    /\ pc \in {"first", "gate"} => unfed <= idle
    /\ pc \in {"open", "drain", "poll"} => unfed <= 1
    /\ pc = "pause" => unfed <= 1 + idle
    /\ pc = "top" => unfed <= WdtLimit

LEMMA FeedStep == TypeInv /\ Ledger /\ [Next]_vars => Ledger'
  <1>. SUFFICES ASSUME TypeInv, Ledger, [Next]_vars PROVE Ledger'
    OBVIOUS
  <1>t. idle \in 0 .. 1 /\ unfed \in Nat /\ WdtLimit \in Nat \ {0, 1}
    BY BoundsAssumption DEF TypeInv, TypeOK
  <1>1. CASE ~Starved /\ TaskStep
    BY <1>1, <1>t DEF TaskStep, Starved, Ledger, Feed, NoFeed, AwaitFirstSettings, WaitSlice,
         LoopTop, GatePassed, OpenSockets, AwaitSettingsAfterBindFailure, TakeSettings,
         SettingsDrained, Ignore, Answer, Receive, Polling, PollNothing, PollDone, PauseOver,
         taskVars
  <1>2. CASE SendSettings
    BY <1>2, <1>t DEF SendSettings, Ledger, clockVars
  <1>3. CASE DatagramArrives
    BY <1>3, <1>t DEF DatagramArrives, Ledger, clockVars
  <1>4. CASE Tick
    BY <1>4, <1>t DEF Tick, Ledger, taskVars
  <1>5. CASE Reset
    BY <1>5, <1>t DEF Reset, Ledger, Feed
  <1>6. CASE UNCHANGED vars
    BY <1>6, <1>t DEF vars, taskVars, clockVars, Ledger
  <1>. QED  BY <1>1, <1>2, <1>3, <1>4, <1>5, <1>6 DEF Next

LEMMA LedgerSuffices == TypeInv /\ Ledger => StarvesOnlyAfterBindFailure
  <1>. SUFFICES ASSUME TypeInv, Ledger, Starved PROVE pc = "bindwait"
    BY DEF StarvesOnlyAfterBindFailure
  <1>. QED
    BY BoundsAssumption DEF TypeInv, TypeOK, Ledger, Starved, Places

\* The task feeds in all of its waits but one: only a task that waits for new
\* settings after a failed bind is ever reset by the watchdog.
THEOREM UdpStarvesOnlyAfterBindFailure == Spec => []StarvesOnlyAfterBindFailure
  <1>1. Init => Ledger
    BY DEF Init, Ledger
  <1>. QED  BY <1>1, TypeInvariant, FeedStep, LedgerSuffices, PTL DEF Spec
===========================================================================

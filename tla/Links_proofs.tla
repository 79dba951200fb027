---------------------------- MODULE Links_proofs ----------------------------
(***************************************************************************)
(* Theorems about Links: the shared counters are exact, and the NTP client *)
(* that reads them starts a round only while a task works with a link.     *)
(***************************************************************************)
EXTENDS Links, TLAPS

EthInv ==
    /\ eRegistered \in BOOLEAN
    /\ ePc = "waitup" => eReported = "connected"
    /\ Eth!CountFollowsReports

WifiInv == wRegistered \in BOOLEAN /\ Wifi!CountFollowsReports

\* EthInv adds what the report was before the address came, which the step that
\* registers the link relies on.  The flag of a task follows its place, so an
\* interface is added to the count only by a task that had not added it, and the
\* count never passes 2.
IInv == EthInv /\ WifiInv /\ LinkCountExact

\* Arithmetic of the counters.
USE DEF Eth!FetchAdd, Eth!FetchSub, Eth!Width, Wifi!FetchAdd, Wifi!FetchSub, Wifi!Width, One

LEMMA InitIInv == Init => IInv
<1> SUFFICES ASSUME Init PROVE IInv
  OBVIOUS
<1> USE DEF Init, Eth!InitTask, Wifi!InitTask
<1>1. EthInv
  BY DEF EthInv, Eth!CountFollowsReports
<1>2. WifiInv
  BY DEF WifiInv, Wifi!CountFollowsReports
<1>3. LinkCountExact
  BY DEF LinkCountExact
<1>4. QED
  BY <1>1, <1>2, <1>3 DEF IInv

\* Every step of the Ethernet thread keeps the invariant.
LEMMA EthKeepsIInv ==
    ASSUME IInv, EthStep
    PROVE  IInv'
<1>1. WifiInv' /\ wPc' = wPc /\ wRegistered' = wRegistered
  BY DEF IInv, EthStep, wifiVars, WifiInv, Wifi!CountFollowsReports, Wifi!StaReport, Wifi!Last
<1> USE DEF IInv, EthInv, LinkCountExact, Eth!CountFollowsReports,
            Eth!Report
<1>2. CASE Eth!InitDriver
  <2>1. EthInv'
    BY <1>2 DEF Eth!InitDriver
  <2>2. LinkCountExact'
    BY <1>1, <1>2 DEF Eth!InitDriver, WifiInv
  <2>3. QED
    BY <1>1, <2>1, <2>2
<1>3. CASE Eth!AwaitFirstSettings
  BY <1>1, <1>3 DEF Eth!AwaitFirstSettings
<1>4. CASE Eth!Disable
  <2>1. EthInv'
    BY <1>4 DEF Eth!Disable, Eth!Deregister, Eth!driverVars
  <2>2. LinkCountExact'
    BY <1>1, <1>4 DEF Eth!Disable, Eth!Deregister, Eth!driverVars, WifiInv
  <2>3. QED
    BY <1>1, <2>1, <2>2
<1>5. CASE Eth!ApplyIp
  BY <1>1, <1>5 DEF Eth!ApplyIp
<1>6. CASE Eth!AwaitNextSettings
  BY <1>1, <1>6 DEF Eth!AwaitNextSettings
<1>7. CASE Eth!EnsureStarted
  BY <1>1, <1>7 DEF Eth!EnsureStarted
<1>8. CASE Eth!LinkWaitTakesSettings
  BY <1>1, <1>8 DEF Eth!LinkWaitTakesSettings
<1>9. CASE Eth!LinkSeen
  BY <1>1, <1>9 DEF Eth!LinkSeen
<1>10. CASE Eth!NetifUp
  <2>1. EthInv'
    BY <1>10 DEF Eth!NetifUp, Eth!Register
  <2>2. LinkCountExact'
    BY <1>1, <1>10 DEF Eth!NetifUp, Eth!Register, WifiInv
  <2>3. QED
    BY <1>1, <2>1, <2>2
<1>11. CASE Eth!NetifTimeout
  BY <1>1, <1>11 DEF Eth!NetifTimeout
<1>12. CASE Eth!ReportIp
  BY <1>1, <1>12 DEF Eth!ReportIp
<1>13. CASE Eth!MonitorTakesSettings
  <2>1. EthInv'
    BY <1>13 DEF Eth!MonitorTakesSettings, Eth!Deregister
  <2>2. LinkCountExact'
    BY <1>1, <1>13 DEF Eth!MonitorTakesSettings, Eth!Deregister, WifiInv
  <2>3. QED
    BY <1>1, <2>1, <2>2
<1>14. CASE Eth!MonitorFindsLoss
  BY <1>1, <1>14 DEF Eth!MonitorFindsLoss
<1>15. CASE Eth!DeregisterLost
  <2>1. EthInv'
    BY <1>15 DEF Eth!DeregisterLost, Eth!Deregister
  <2>2. LinkCountExact'
    BY <1>1, <1>15 DEF Eth!DeregisterLost, Eth!Deregister, WifiInv
  <2>3. QED
    BY <1>1, <2>1, <2>2
<1>16. CASE Eth!Retry
  BY <1>1, <1>16 DEF Eth!Retry
<1>17. QED
  BY <1>2, <1>3, <1>4, <1>5, <1>6, <1>7, <1>8, <1>9, <1>10, <1>11, <1>12, <1>13,
     <1>14, <1>15, <1>16 DEF EthStep, Eth!TaskStep

\* Every step of the Wi-Fi thread keeps the invariant.
LEMMA WifiKeepsIInv ==
    ASSUME IInv, WifiStep
    PROVE  IInv'
<1>1. EthInv' /\ ePc' = ePc /\ eRegistered' = eRegistered
  BY DEF IInv, WifiStep, ethVars, EthInv, Eth!CountFollowsReports
<1> USE DEF IInv, WifiInv, LinkCountExact, Wifi!CountFollowsReports,
            Wifi!Report, Wifi!StaReport, Wifi!Last, Wifi!reportVars, Wifi!sharedVars
<1>2. CASE Wifi!InitDriver
  <2>1. WifiInv'
    BY <1>2 DEF Wifi!InitDriver
  <2>2. LinkCountExact'
    BY <1>1, <1>2 DEF Wifi!InitDriver, EthInv
  <2>3. QED
    BY <1>1, <2>1, <2>2
<1>3. CASE Wifi!Configure
  BY <1>1, <1>3 DEF Wifi!Configure
<1>4. CASE Wifi!BlockedTakesSta
  BY <1>1, <1>4 DEF Wifi!BlockedTakesSta
<1>5. CASE Wifi!StartFails
  BY <1>1, <1>5 DEF Wifi!StartFails
<1>6. CASE Wifi!StartOk
  BY <1>1, <1>6 DEF Wifi!StartOk
<1>7. CASE Wifi!StationOff
  <2>1. WifiInv'
    BY <1>7 DEF Wifi!StationOff, Wifi!Deregister
  <2>2. LinkCountExact'
    BY <1>1, <1>7 DEF Wifi!StationOff, Wifi!Deregister, EthInv
  <2>3. QED
    BY <1>1, <2>1, <2>2
<1>8. CASE Wifi!StationOn
  BY <1>1, <1>8 DEF Wifi!StationOn
<1>9. CASE Wifi!ConnectOk
  BY <1>1, <1>9 DEF Wifi!ConnectOk
<1>10. CASE Wifi!ConnectFails
  BY <1>1, <1>10 DEF Wifi!ConnectFails
<1>11. CASE Wifi!NetifUp
  <2>1. WifiInv'
    BY <1>11 DEF Wifi!NetifUp, Wifi!Register
  <2>2. LinkCountExact'
    BY <1>1, <1>11 DEF Wifi!NetifUp, Wifi!Register, EthInv
  <2>3. QED
    BY <1>1, <2>1, <2>2
<1>12. CASE Wifi!NetifDisconnected
  BY <1>1, <1>12 DEF Wifi!NetifDisconnected
<1>13. CASE Wifi!NetifTimeout
  BY <1>1, <1>13 DEF Wifi!NetifTimeout
<1>14. CASE Wifi!ReportIp
  BY <1>1, <1>14 DEF Wifi!ReportIp
<1>15. CASE Wifi!ServeScans
  BY <1>1, <1>15 DEF Wifi!ServeScans
<1>16. CASE Wifi!MonitorTakesSettings
  <2>1. WifiInv'
    BY <1>16 DEF Wifi!MonitorTakesSettings, Wifi!Deregister
  <2>2. LinkCountExact'
    BY <1>1, <1>16 DEF Wifi!MonitorTakesSettings, Wifi!Deregister, EthInv
  <2>3. QED
    BY <1>1, <2>1, <2>2
<1>17. CASE Wifi!MonitorFindsLoss
  BY <1>1, <1>17 DEF Wifi!MonitorFindsLoss
<1>18. CASE Wifi!DeregisterLost
  <2>1. WifiInv'
    BY <1>18 DEF Wifi!DeregisterLost, Wifi!Deregister
  <2>2. LinkCountExact'
    BY <1>1, <1>18 DEF Wifi!DeregisterLost, Wifi!Deregister, EthInv
  <2>3. QED
    BY <1>1, <2>1, <2>2
<1>19. CASE Wifi!Retry
  BY <1>1, <1>19 DEF Wifi!Retry
<1>20. QED
  BY <1>2, <1>3, <1>4, <1>5, <1>6, <1>7, <1>8, <1>9, <1>10, <1>11, <1>12, <1>13,
     <1>14, <1>15, <1>16, <1>17, <1>18, <1>19 DEF WifiStep, Wifi!TaskStep

\* The NTP client, the main loop and the drivers write neither the places, nor
\* the flags, nor the counters.
LEMMA OthersKeepIInv ==
    ASSUME IInv, NtpStep \/ Master \/ Drivers \/ UNCHANGED vars
    PROVE  IInv'
<1> DEFINE quiet == <<ePc, eRegistered, eReported, wPc, wRegistered, staNews,
                     connectedLinks, lwipGate>>
<1>1. CASE NtpStep
  <2>1. UNCHANGED <<connectedLinks, lwipGate>>
    BY <1>1 DEF NtpStep, Ntp!TaskStep, Ntp!AwaitFirstSettings, Ntp!GatePassed,
       Ntp!SeeDisabled, Ntp!SeeNoLink, Ntp!StartRound, Ntp!AskServer,
       Ntp!AwaitNextSettings, Ntp!AwaitLink, Ntp!AwaitNextRound
  <2>2. UNCHANGED quiet
    BY <1>1, <2>1 DEF NtpStep, ethVars, wifiVars
  <2>3. QED
    BY <2>2 DEF IInv, EthInv, WifiInv, LinkCountExact, Eth!CountFollowsReports,
       Wifi!CountFollowsReports, Wifi!StaReport
<1>2. CASE Master
  <2>1. UNCHANGED quiet
    BY <1>2 DEF Master, ethVars, wifiVars, Eth!SendSettings, Wifi!SendSta, Wifi!SendAp,
       Wifi!SendScan, Wifi!reportVars, Ntp!SendSettings
  <2>2. QED
    BY <2>1 DEF IInv, EthInv, WifiInv, LinkCountExact, Eth!CountFollowsReports,
       Wifi!CountFollowsReports, Wifi!StaReport
<1>3. CASE Drivers
  <2>1. UNCHANGED quiet
    BY <1>3 DEF Drivers, ethVars, wifiVars, Eth!DriverStep, Wifi!DriverStep,
       Wifi!reportVars, Wifi!sharedVars
  <2>2. QED
    BY <2>1 DEF IInv, EthInv, WifiInv, LinkCountExact, Eth!CountFollowsReports,
       Wifi!CountFollowsReports, Wifi!StaReport
<1>4. CASE UNCHANGED vars
  BY <1>4 DEF vars, ethVars, wifiVars, sharedVars, IInv, EthInv, WifiInv, LinkCountExact,
     Eth!CountFollowsReports, Wifi!CountFollowsReports, Wifi!StaReport
<1>5. QED
  BY <1>1, <1>2, <1>3, <1>4

LEMMA NextKeepsIInv == IInv /\ [Next]_vars => IInv'
BY EthKeepsIInv, WifiKeepsIInv, OthersKeepIInv DEF Next

\* The invariant holds in every state of every behaviour.
LEMMA Invariance == Spec => []IInv
BY InitIInv, NextKeepsIInv, PTL DEF Spec

\* The two shared counters are exact, however the tasks interleave: no link is
\* added or removed twice, nothing wraps below zero.
THEOREM CountersExact == Spec => []LinkCountExact
<1>1. IInv => LinkCountExact
  BY DEF IInv
<1>2. QED
  BY Invariance, <1>1, PTL

\* Both tasks, the Ethernet task for its link and the Wi-Fi task for its station,
\* count a link only while they work with it, and have reported a loss before they
\* retry.
THEOREM ReportsKept == Spec => []CountFollowsReports
<1>1. IInv => CountFollowsReports
  BY DEF IInv, EthInv, WifiInv, CountFollowsReports
<1>2. QED
  BY Invariance, <1>1, PTL

\* The NTP client starts a round only while one of the two tasks works with a
\* link whose loss it has not dealt with.
THEOREM RoundsHaveLinks == Spec => RoundHasLink
<1> DEFINE Starts == nPc = "top" /\ nPc' = "syncing"
           WithLink == \/ ePc \in {"gotip", "monitor", "lost"}
                       \/ wPc \in {"gotip", "monitor", "lost"}
<1>1. IInv /\ [Next]_vars => [Starts => WithLink]_vars
  <2> SUFFICES ASSUME IInv, Next, Starts PROVE WithLink
    OBVIOUS
  <2>1. NtpStep
    BY DEF Next, EthStep, WifiStep, Master, Drivers, ntpVars, Ntp!SendSettings
  <2>2. connectedLinks > 0
    BY <2>1 DEF NtpStep, Ntp!TaskStep, Ntp!AwaitFirstSettings, Ntp!GatePassed,
       Ntp!SeeDisabled, Ntp!SeeNoLink, Ntp!StartRound, Ntp!AskServer,
       Ntp!AwaitNextSettings, Ntp!AwaitLink, Ntp!AwaitNextRound
  <2>3. eRegistered \/ wRegistered
    BY <2>2 DEF IInv, EthInv, WifiInv, LinkCountExact
  <2>4. QED
    BY <2>3 DEF IInv, EthInv, WifiInv, Eth!CountFollowsReports, Wifi!CountFollowsReports
<1>2. QED
  BY Invariance, <1>1, PTL DEF Spec, RoundHasLink

---------------------------------------------------------------------------
(* The rounds of the NTP client. *)

Round == [server : Nat, ok : BOOLEAN]

\* Between rounds nothing is told; in a round the servers that are left and
\* those that were told of make up the settings.
NtpInv ==
    /\ nServers \in Nat /\ nInbox \in Seq(Ntp!Settings) /\ nNews \in Seq(Round)
    /\ nPc \notin {"syncing", "wait"} => nNews = <<>>
    /\ nPc = "syncing" => nLeft \in Nat /\ nLeft + Len(nNews) = nServers
    /\ NtpRoundReported

LEMMA NtpInvInit == Init => NtpInv
<1> SUFFICES ASSUME Init PROVE NtpInv
  OBVIOUS
<1>1. /\ nPc = "first" /\ nServers = 0 /\ nInbox = <<>> /\ nNews = <<>>
  BY DEF Init, Ntp!InitTask
<1>2. Len(nNews) = 0 /\ nNews \in Seq(Round) /\ nInbox \in Seq(Ntp!Settings)
  BY <1>1
<1>3. QED
  BY <1>1, <1>2 DEF NtpInv, NtpRoundReported, Ntp!RoundReported

LEMMA NtpTakes ==
    ASSUME NtpInv, Ntp!TakeSettings
    PROVE  nServers' \in Nat /\ nInbox' \in Seq(Ntp!Settings)
<1>1. nInbox \in Seq(Ntp!Settings) /\ nInbox # <<>> /\ nServers' = Head(nInbox)
      /\ nInbox' = Tail(nInbox)
  BY DEF NtpInv, Ntp!TakeSettings
<1>2. Head(nInbox) \in Ntp!Settings /\ Tail(nInbox) \in Seq(Ntp!Settings)
  BY <1>1
<1>3. QED
  BY <1>1, <1>2, MaxServersAssumption DEF Ntp!Settings

LEMMA NtpAsks ==
    ASSUME NtpInv, Ntp!AskServer
    PROVE  NtpInv'
<1> DEFINE n == Len(nNews)
<1>1. PICK ok \in BOOLEAN : Ntp!Tell(ok) /\ nLeft' = IF ok THEN 0 ELSE nLeft - 1
  BY DEF Ntp!AskServer
<1>2. /\ nPc = "syncing" /\ nPc' = IF nLeft' = 0 THEN "wait" ELSE "syncing"
      /\ nServers' = nServers /\ nInbox' = nInbox
  BY DEF Ntp!AskServer
<1>3. /\ nServers \in Nat /\ nNews \in Seq(Round) /\ nLeft \in Nat /\ n \in Nat
      /\ nLeft + n = nServers /\ n < nServers
      /\ \A i \in 1 .. n : nNews[i].server = i
      /\ \A i \in 1 .. n : ~nNews[i].ok
  BY <1>2 DEF NtpInv, NtpRoundReported, Ntp!RoundReported
<1>4. nNews' = Append(nNews, [server |-> n + 1, ok |-> ok])
  <2>1. Ntp!Asked = n + 1
    BY <1>3 DEF Ntp!Asked
  <2>2. QED
    BY <2>1, <1>1 DEF Ntp!Tell
<1>5. [server |-> n + 1, ok |-> ok] \in Round
  BY <1>3 DEF Round
<1>6. /\ nNews' \in Seq(Round) /\ Len(nNews') = n + 1
      /\ \A i \in 1 .. n : nNews'[i] = nNews[i]
      /\ nNews'[n + 1].server = n + 1 /\ nNews'[n + 1].ok = ok
  BY <1>3, <1>4, <1>5
<1> HIDE DEF n
<1>7. \A i \in 1 .. n + 1 : nNews'[i].server = i
  BY <1>3, <1>6
<1>8. \A i \in 1 .. n : ~nNews'[i].ok
  BY <1>3, <1>6
<1>9. CASE nLeft' = 0
  <2>1. ok \/ n + 1 = nServers
    BY <1>1, <1>3, <1>9
  <2>2. QED
    BY <2>1, <1>2, <1>3, <1>6, <1>7, <1>8, <1>9
       DEF NtpInv, NtpRoundReported, Ntp!RoundReported
<1>10. CASE nLeft' # 0
  <2>1. ~ok /\ nLeft' = nLeft - 1 /\ nLeft' \in Nat /\ nLeft' + (n + 1) = nServers
    BY <1>1, <1>3, <1>10
  <2>2. QED
    BY <2>1, <1>2, <1>3, <1>6, <1>7, <1>8, <1>10
       DEF NtpInv, NtpRoundReported, Ntp!RoundReported
<1>11. QED
  BY <1>9, <1>10

LEMMA NtpInvStep == NtpInv /\ [Next]_vars => NtpInv'
<1> SUFFICES ASSUME NtpInv, [Next]_vars PROVE NtpInv'
  OBVIOUS
<1>1. CASE Ntp!AskServer
  BY <1>1, NtpAsks
<1>2. CASE Ntp!AwaitFirstSettings \/ Ntp!AwaitNextSettings
  <2>1. nPc' \notin {"syncing", "wait"} /\ nNews' = nNews /\ nNews = <<>> /\ Ntp!TakeSettings
    BY <1>2 DEF Ntp!AwaitFirstSettings, Ntp!AwaitNextSettings, NtpInv
  <2>2. QED
    BY <2>1, NtpTakes DEF NtpInv, NtpRoundReported, Ntp!RoundReported
<1>3. CASE Ntp!AwaitLink \/ Ntp!AwaitNextRound
  <2>1. /\ nPc' = "top" /\ nNews' = <<>>
        /\ Ntp!TakeSettings \/ UNCHANGED <<nServers, nInbox>>
    BY <1>3 DEF Ntp!AwaitLink, Ntp!AwaitNextRound, Ntp!Deadline, NtpInv
  <2>2. nServers' \in Nat /\ nInbox' \in Seq(Ntp!Settings)
    BY <2>1, NtpTakes DEF NtpInv
  <2>3. QED
    BY <2>1, <2>2 DEF NtpInv, NtpRoundReported, Ntp!RoundReported
<1>4. CASE Ntp!GatePassed \/ Ntp!SeeDisabled \/ Ntp!SeeNoLink
  BY <1>4 DEF Ntp!GatePassed, Ntp!SeeDisabled, Ntp!SeeNoLink, NtpInv, NtpRoundReported,
     Ntp!RoundReported
<1>5. CASE Ntp!StartRound
  <2>1. /\ nPc' = "syncing" /\ nLeft' = nServers /\ nServers > 0 /\ nNews' = <<>>
        /\ nServers' = nServers /\ nInbox' = nInbox
    BY <1>5 DEF Ntp!StartRound, NtpInv
  <2>2. Len(nNews') = 0
    BY <2>1
  <2>3. QED
    BY <2>1, <2>2 DEF NtpInv, NtpRoundReported, Ntp!RoundReported
<1>6. CASE \E n \in Ntp!Settings : Ntp!SendSettings(n)
  <2>1. PICK n \in Ntp!Settings : nInbox' = Append(nInbox, n)
    BY <1>6 DEF Ntp!SendSettings
  <2>2. UNCHANGED <<nPc, nServers, nLeft, nNews>>
    BY <1>6 DEF Ntp!SendSettings
  <2>3. nInbox' \in Seq(Ntp!Settings)
    BY <2>1 DEF NtpInv
  <2>4. QED
    BY <2>2, <2>3 DEF NtpInv, NtpRoundReported, Ntp!RoundReported
<1>7. CASE UNCHANGED ntpVars
  BY <1>7 DEF ntpVars, NtpInv, NtpRoundReported, Ntp!RoundReported
<1>8. QED
  <2>1. NtpStep => Ntp!TaskStep
    BY DEF NtpStep
  <2>2. Next /\ ~NtpStep => UNCHANGED ntpVars \/ \E n \in Ntp!Settings : Ntp!SendSettings(n)
    BY DEF Next, EthStep, WifiStep, Master, Drivers
  <2>3. UNCHANGED vars => UNCHANGED ntpVars
    BY DEF vars
  <2>4. QED
    BY <1>1, <1>2, <1>3, <1>4, <1>5, <1>6, <1>7, <2>1, <2>2, <2>3 DEF Ntp!TaskStep

LEMMA RoundInvariance == Spec => []NtpInv
BY NtpInvInit, NtpInvStep, PTL DEF Spec

\* Whatever the other tasks and the master do, a round tells of every server it
\* asked, in order, and ends with a success or with the last failure.
THEOREM RoundsReported == Spec => []NtpRoundReported
<1>1. NtpInv => NtpRoundReported
  BY DEF NtpInv
<1>2. QED
  BY <1>1, RoundInvariance, PTL

---------------------------------------------------------------------------
(* The reports about the access point. *)

ApWorks == {"station", "connecting", "waitup", "gotip", "monitor", "lost"}

\* The flags stand for the last report, but for errors; where the driver runs
\* they follow the settings.
ApInv ==
    /\ ap \in BOOLEAN /\ apInbox \in Seq(BOOLEAN)
    /\ apStartedReported \in BOOLEAN /\ apDisabledReported \in BOOLEAN
    /\ apStartedReported => apReport \in {"started", "error"}
    /\ apDisabledReported => apReport \in {"disabled", "error"}
    /\ wPc \in ApWorks => (apStartedReported <=> ap) /\ (apDisabledReported <=> ~ap)

LEMMA ApTakes ==
    ASSUME ApInv, Wifi!TakeAp
    PROVE  ap' \in BOOLEAN /\ apInbox' \in Seq(BOOLEAN)
<1>1. apInbox \in Seq(BOOLEAN) /\ apInbox # <<>> /\ ap' = Head(apInbox)
      /\ apInbox' = Tail(apInbox)
  BY DEF ApInv, Wifi!TakeAp
<1>2. Head(apInbox) \in BOOLEAN /\ Tail(apInbox) \in Seq(BOOLEAN)
  BY <1>1
<1>3. QED
  BY <1>1, <1>2

\* Every step of the Wi-Fi thread keeps the flags and the report together.
LEMMA WifiKeepsApInv ==
    ASSUME ApInv, Wifi!TaskStep
    PROVE  ApInv'
<1> DEFINE flags == <<ap, apInbox, apStartedReported, apDisabledReported, apReport>>
<1>1. CASE Wifi!Configure
  <2>1. ap' \in BOOLEAN /\ apInbox' = <<>>
    <3>1. ap' = IF apInbox = <<>> THEN ap ELSE apInbox[Len(apInbox)]
      BY <1>1 DEF Wifi!Configure, Wifi!Newest, Wifi!Last
    <3>2. apInbox \in Seq(BOOLEAN) /\ ap \in BOOLEAN
      BY DEF ApInv
    <3>3. apInbox # <<>> => apInbox[Len(apInbox)] \in BOOLEAN
      BY <3>2
    <3>4. QED
      BY <3>1, <3>2, <3>3, <1>1 DEF Wifi!Configure
  <2>2. /\ wPc' \in {"start", "blocked"} /\ apReport' \in {apReport, "error"}
        /\ UNCHANGED <<apStartedReported, apDisabledReported>>
    BY <1>1 DEF Wifi!Configure, Wifi!flagVars, Wifi!reportVars
  <2>3. QED
    BY <2>1, <2>2 DEF ApInv, ApWorks
<1>2. CASE Wifi!StartOk
  <2>1. /\ wPc' = "station" /\ UNCHANGED <<ap, apInbox>>
        /\ apStartedReported' = ap /\ apDisabledReported' = ~ap
    BY <1>2 DEF Wifi!StartOk, Wifi!ReportAp, Wifi!settingsVars
  <2>2. apReport' = IF ap /\ ~apStartedReported THEN "started"
                    ELSE IF ~ap /\ ~apDisabledReported THEN "disabled" ELSE apReport
    BY <1>2 DEF Wifi!StartOk, Wifi!ReportAp
  <2>3. CASE ap = TRUE
    BY <2>1, <2>2, <2>3 DEF ApInv
  <2>4. CASE ap = FALSE
    BY <2>1, <2>2, <2>4 DEF ApInv
  <2>5. QED
    BY <2>3, <2>4 DEF ApInv
<1>3. CASE Wifi!StartFails
  <2>1. /\ wPc' = "retry" /\ apReport' \in {apReport, "error"}
        /\ UNCHANGED <<ap, apInbox, apStartedReported, apDisabledReported>>
    BY <1>3 DEF Wifi!StartFails, Wifi!flagVars, Wifi!settingsVars
  <2>2. QED
    BY <2>1 DEF ApInv, ApWorks
<1>4. CASE Wifi!MonitorTakesSettings \/ Wifi!Retry
  <2>1. /\ wPc' = "top" /\ UNCHANGED <<apStartedReported, apDisabledReported, apReport>>
        /\ Wifi!TakeAp \/ UNCHANGED <<ap, apInbox>>
    BY <1>4 DEF Wifi!MonitorTakesSettings, Wifi!Retry, Wifi!flagVars, Wifi!reportVars,
       Wifi!settingsVars
  <2>2. ap' \in BOOLEAN /\ apInbox' \in Seq(BOOLEAN)
    BY <2>1, ApTakes DEF ApInv
  <2>3. QED
    BY <2>1, <2>2 DEF ApInv, ApWorks
<1>5. CASE \/ Wifi!InitDriver \/ Wifi!BlockedTakesSta \/ Wifi!StationOff
           \/ Wifi!ConnectFails \/ Wifi!NetifDisconnected \/ Wifi!NetifTimeout
           \/ Wifi!DeregisterLost
  <2>1. wPc' \in {"top", "dead", "retry"} /\ UNCHANGED flags
    BY <1>5 DEF Wifi!InitDriver, Wifi!BlockedTakesSta, Wifi!StationOff, Wifi!ConnectFails,
       Wifi!NetifDisconnected, Wifi!NetifTimeout, Wifi!DeregisterLost, Wifi!flagVars,
       Wifi!reportVars, Wifi!settingsVars
  <2>2. QED
    BY <2>1 DEF ApInv, ApWorks
<1>6. CASE \/ Wifi!StationOn \/ Wifi!ConnectOk \/ Wifi!NetifUp \/ Wifi!ReportIp
           \/ Wifi!MonitorFindsLoss
  <2>1. wPc \in ApWorks /\ UNCHANGED flags
    BY <1>6 DEF Wifi!StationOn, Wifi!ConnectOk, Wifi!NetifUp, Wifi!ReportIp,
       Wifi!MonitorFindsLoss, Wifi!flagVars, Wifi!reportVars, Wifi!settingsVars, ApWorks
  <2>2. QED
    BY <2>1 DEF ApInv
<1>7. CASE Wifi!ServeScans
  <2>1. wPc' = wPc /\ UNCHANGED flags
    BY <1>7 DEF Wifi!ServeScans, Wifi!flagVars, Wifi!reportVars, Wifi!settingsVars
  <2>2. QED
    BY <2>1 DEF ApInv
<1>8. QED
  BY <1>1, <1>2, <1>3, <1>4, <1>5, <1>6, <1>7 DEF Wifi!TaskStep

LEMMA ApInvStep == ApInv /\ [Next]_vars => ApInv'
<1> SUFFICES ASSUME ApInv, [Next]_vars PROVE ApInv'
  OBVIOUS
<1>1. CASE Wifi!TaskStep
  BY <1>1, WifiKeepsApInv
<1>2. CASE \E on \in BOOLEAN : Wifi!SendAp(on)
  <2>1. PICK on \in BOOLEAN : apInbox' = Append(apInbox, on)
    BY <1>2 DEF Wifi!SendAp
  <2>2. UNCHANGED <<wPc, ap, apStartedReported, apDisabledReported, apReport>>
    BY <1>2 DEF Wifi!SendAp, Wifi!flagVars, Wifi!reportVars
  <2>3. apInbox' \in Seq(BOOLEAN)
    BY <2>1 DEF ApInv
  <2>4. QED
    BY <2>2, <2>3 DEF ApInv
<1>3. CASE UNCHANGED <<wPc, ap, apInbox, apStartedReported, apDisabledReported, apReport>>
  BY <1>3 DEF ApInv
<1>4. QED
  <2>1. WifiStep => Wifi!TaskStep
    BY DEF WifiStep
  <2>2. EthStep \/ NtpStep \/ UNCHANGED vars \/ Drivers =>
          UNCHANGED <<wPc, ap, apInbox, apStartedReported, apDisabledReported, apReport>>
    BY DEF EthStep, NtpStep, Drivers, vars, wifiVars, Wifi!DriverStep, Wifi!flagVars,
       Wifi!reportVars, Wifi!settingsVars
  <2>3. Master => \/ UNCHANGED <<wPc, ap, apInbox, apStartedReported, apDisabledReported, apReport>>
                  \/ \E on \in BOOLEAN : Wifi!SendAp(on)
    BY DEF Master, wifiVars, Wifi!SendSta, Wifi!SendScan, Wifi!flagVars, Wifi!reportVars,
       Wifi!settingsVars
  <2>4. QED
    BY <1>1, <1>2, <1>3, <2>1, <2>2, <2>3 DEF Next

\* While the driver runs, no report about the access point claims the opposite
\* of its settings.
THEOREM ApReportsKept == Spec => []ApReportNotOpposite
<1>1. Init => ApInv
  <2>1. <<>> \in Seq(BOOLEAN)
    OBVIOUS
  <2>2. Init => /\ ap = FALSE /\ apInbox = <<>> /\ apStartedReported = FALSE
                /\ apDisabledReported = FALSE /\ wPc = "init"
    BY DEF Init, Wifi!InitTask
  <2>3. QED
    BY <2>1, <2>2 DEF ApInv, ApWorks
<1>2. ApInv => ApReportNotOpposite
  BY DEF ApInv, ApWorks, ApReportNotOpposite, Wifi!ApReportNotOpposite
<1>3. QED
  BY <1>1, <1>2, ApInvStep, PTL DEF Spec
=============================================================================

---------------------------- MODULE Links_liveness ----------------------------
(* What the fairness of Links gives each thread, proved from the loops' stages:  *)
(* a lost link leaves the count of connected links (ethernet.rs 284-305,         *)
(* 380-412; wifi/mod.rs 460-487, 583-650), and an NTP client that waited for a   *)
(* link starts a round once it has one (ntp_client.rs 74-115). Every stage is    *)
(* left by a step of the thread or by the condition going away, and weak         *)
(* fairness forces that step. That the step is enabled is not for the prover:    *)
(* it enters as NeverBlocked, the state predicate of Links that TLC checks as    *)
(* an invariant.                                                                 *)
EXTENDS Links_proofs

-------------------------------------------------------------------------------
(* The Ethernet thread.                                                          *)

\* A link whose got-IP was reported and that the driver has since lost.
EthGone == eRegistered /\ ~eConnected
EthGoneAt(place) == EthGone /\ ePc = place

\* A reported link that is gone leaves the thread in one of three places: about to
\* report it, watching it, or about to take it off the count.
LEMMA EthGoneIsSomewhere ==
    IInv /\ EthGone => EthGoneAt("gotip") \/ EthGoneAt("monitor") \/ EthGoneAt("lost")
BY DEF IInv, EthInv, Eth!CountFollowsReports, EthGone, EthGoneAt

\* No other thread moves the Ethernet task.
LEMMA OnlyEthMoves ==
    ASSUME [Next]_vars, NEW place, EthGoneAt(place)
    PROVE  EthStep \/ EthGoneAt(place)' \/ ~EthGone'
BY DEF Next, WifiStep, NtpStep, Master, Drivers, vars, ethVars, Eth!SendSettings, Eth!DriverStep,
   EthGone, EthGoneAt

\* Each step of the thread takes it to the next of the three places, and the last
\* one deregisters the link.
LEMMA EthGoneAdvances ==
    ASSUME EthStep
    PROVE  /\ EthGoneAt("gotip") => EthGoneAt("monitor")' \/ ~EthGone'
           /\ EthGoneAt("monitor") => EthGoneAt("lost")' \/ ~EthGone'
           /\ EthGoneAt("lost") => ~EthGone'
BY DEF EthGone, EthGoneAt, EthStep, Eth!TaskStep, Eth!InitDriver, Eth!AwaitFirstSettings, Eth!Disable,
      Eth!ApplyIp, Eth!AwaitNextSettings, Eth!EnsureStarted, Eth!LinkWaitTakesSettings,
      Eth!LinkSeen, Eth!NetifUp, Eth!NetifTimeout, Eth!ReportIp, Eth!MonitorTakesSettings,
      Eth!MonitorFindsLoss, Eth!DeregisterLost, Eth!Retry, Eth!Deregister

\* An Ethernet link the driver has lost comes back or leaves the count of links
\* that gate the network stack: the loss is never just forgotten.
THEOREM EthLossUncounted == FairSpec /\ []EthNeverBlocked => Eth!LostLinkUncounted
<1> DEFINE g == EthGoneAt("gotip")
           m == EthGoneAt("monitor")
           l == EthGoneAt("lost")
<1>1. IInv /\ EthGone => g \/ m \/ l
  BY EthGoneIsSomewhere
<1>2. /\ g /\ [Next]_vars => g' \/ m' \/ ~EthGone'
      /\ g /\ <<EthStep>>_vars => m' \/ ~EthGone'
  BY OnlyEthMoves, EthGoneAdvances
<1>3. /\ m /\ [Next]_vars => m' \/ l' \/ ~EthGone'
      /\ m /\ <<EthStep>>_vars => l' \/ ~EthGone'
  BY OnlyEthMoves, EthGoneAdvances
<1>4. /\ l /\ [Next]_vars => l' \/ ~EthGone'
      /\ l /\ <<EthStep>>_vars => ~EthGone'
  BY OnlyEthMoves, EthGoneAdvances
<1>5. EthNeverBlocked => (g \/ m \/ l => ENABLED <<EthStep>>_vars)
  BY DEF EthNeverBlocked, EthGoneAt, EthGone
<1> HIDE DEF g, m, l
<1>6. Spec /\ WF_vars(EthStep) /\ []EthNeverBlocked => (EthGone ~> ~EthGone)
  BY Invariance, <1>1, <1>2, <1>3, <1>4, <1>5, PTL DEF Spec
<1>7. ~EthGone <=> ~eRegistered \/ eConnected
  BY DEF EthGone
<1> QED
  BY <1>6, <1>7, PTL DEF FairSpec, Eth!LostLinkUncounted, EthGone

-------------------------------------------------------------------------------
(* The Wi-Fi thread, which serves scan requests before it looks at its link.     *)

\* The master does not ask for scans for ever: the drain of wifi/mod.rs 599
\* would then never reach the check of the link behind it.
ScansEnd == <>[][~Wifi!SendScan]_vars

\* A station whose got-IP was reported and that the driver has since lost.
WifiGone == wRegistered /\ ~wConnected
WifiGoneAt(place) == WifiGone /\ wPc = place
ScanWaits == scans > 0

\* The three places of a thread whose reported station is gone.
LEMMA WifiGoneIsSomewhere ==
    IInv /\ WifiGone => WifiGoneAt("gotip") \/ WifiGoneAt("monitor") \/ WifiGoneAt("lost")
BY DEF IInv, WifiInv, Wifi!CountFollowsReports, WifiGone, WifiGoneAt

\* No other thread moves the Wi-Fi task, and only the master's request makes a scan wait.
LEMMA OnlyWifiMoves ==
    ASSUME [Next]_vars, NEW place, WifiGoneAt(place)
    PROVE  \/ WifiStep
           \/ WifiGoneAt(place)' /\ (ScanWaits' => ScanWaits \/ Wifi!SendScan)
           \/ ~WifiGone'
BY DEF Next, EthStep, NtpStep, Master, Drivers, vars, wifiVars, Wifi!SendSta, Wifi!SendAp,
   Wifi!SendScan, Wifi!DriverStep, WifiGone, WifiGoneAt, ScanWaits

\* Each step of the thread serves the waiting scan requests or takes it to the next place.
LEMMA WifiGoneAdvances ==
    ASSUME WifiStep
    PROVE  /\ WifiGoneAt("gotip") => WifiGoneAt("monitor")' \/ ~WifiGone'
           /\ WifiGoneAt("monitor") =>
                \/ WifiGoneAt("monitor")' /\ ScanWaits /\ ~ScanWaits'
                \/ WifiGoneAt("lost")'
                \/ ~WifiGone'
           /\ WifiGoneAt("lost") => ~WifiGone'
<1>1. /\ wPc = "gotip" => Wifi!ReportIp
      /\ wPc = "monitor" => Wifi!ServeScans \/ Wifi!MonitorTakesSettings \/ Wifi!MonitorFindsLoss
      /\ wPc = "lost" => Wifi!DeregisterLost
  BY DEF WifiStep, Wifi!TaskStep, Wifi!InitDriver, Wifi!Configure,
     Wifi!BlockedTakesSta, Wifi!StartFails, Wifi!StartOk, Wifi!StationOff, Wifi!StationOn,
     Wifi!ConnectOk, Wifi!ConnectFails, Wifi!NetifUp, Wifi!NetifDisconnected, Wifi!NetifTimeout,
     Wifi!ReportIp, Wifi!ServeScans, Wifi!MonitorTakesSettings, Wifi!MonitorFindsLoss,
     Wifi!DeregisterLost, Wifi!Retry
<1>2. WifiGoneAt("gotip") => WifiGoneAt("monitor")' \/ ~WifiGone'
  BY <1>1 DEF WifiGoneAt, WifiGone, Wifi!ReportIp, Wifi!driverVars
<1>3. WifiGoneAt("monitor") /\ Wifi!ServeScans =>
        WifiGoneAt("monitor")' /\ ScanWaits /\ ~ScanWaits'
  BY DEF WifiGoneAt, WifiGone, ScanWaits, Wifi!ServeScans, Wifi!driverVars
<1>4. Wifi!MonitorTakesSettings => ~WifiGone'
  BY DEF WifiGone, Wifi!MonitorTakesSettings, Wifi!Deregister
<1>5. WifiGoneAt("monitor") /\ Wifi!MonitorFindsLoss => WifiGoneAt("lost")'
  BY DEF WifiGoneAt, WifiGone, Wifi!MonitorFindsLoss, Wifi!driverVars
<1>6. WifiGoneAt("lost") => ~WifiGone'
  BY <1>1 DEF WifiGoneAt, WifiGone, Wifi!DeregisterLost, Wifi!Deregister
<1> QED
  BY <1>1, <1>2, <1>3, <1>4, <1>5, <1>6 DEF WifiGoneAt

\* A station the driver has lost comes back or leaves the count of links, as long
\* as the master's scan requests end.
THEOREM WifiLossUncounted ==
    FairSpec /\ []WifiNeverBlocked /\ ScansEnd => Wifi!LostLinkUncounted
<1> DEFINE g == WifiGoneAt("gotip")
           m == WifiGoneAt("monitor")
           l == WifiGoneAt("lost")
<1>1. IInv /\ WifiGone => g \/ m \/ l
  BY WifiGoneIsSomewhere
<1>2. /\ g /\ [Next]_vars => g' \/ m' \/ ~WifiGone'
      /\ g /\ <<WifiStep>>_vars => m' \/ ~WifiGone'
  BY OnlyWifiMoves, WifiGoneAdvances
<1>3. /\ m /\ [Next]_vars => m' \/ l' \/ ~WifiGone'
      /\ m /\ ~ScanWaits /\ [Next]_vars /\ [~Wifi!SendScan]_vars =>
           (m' /\ ~ScanWaits') \/ l' \/ ~WifiGone'
      /\ m /\ <<WifiStep>>_vars => (m' /\ ScanWaits /\ ~ScanWaits') \/ l' \/ ~WifiGone'
  BY OnlyWifiMoves, WifiGoneAdvances DEF vars, wifiVars, ScanWaits, WifiGone, WifiGoneAt
<1>4. /\ l /\ [Next]_vars => l' \/ ~WifiGone'
      /\ l /\ <<WifiStep>>_vars => ~WifiGone'
  BY OnlyWifiMoves, WifiGoneAdvances
<1>5. WifiNeverBlocked => (g \/ m \/ l => ENABLED <<WifiStep>>_vars)
  BY DEF WifiNeverBlocked, WifiGoneAt, WifiGone
<1> HIDE DEF g, m, l
<1>6. Spec /\ WF_vars(WifiStep) /\ []WifiNeverBlocked /\ ScansEnd => (WifiGone ~> ~WifiGone)
  BY Invariance, <1>1, <1>2, <1>3, <1>4, <1>5, PTL DEF Spec, ScansEnd
<1>7. ~WifiGone <=> ~wRegistered \/ wConnected
  BY DEF WifiGone
<1> QED
  BY <1>6, <1>7, PTL DEF FairSpec, Wifi!LostLinkUncounted, WifiGone

\* A link the driver has lost, of the Ethernet or of the station, comes back or
\* leaves the count that gates the network services.
THEOREM LossUncounted ==
    FairSpec /\ []EthNeverBlocked /\ []WifiNeverBlocked /\ ScansEnd => LostLinkUncounted
BY EthLossUncounted, WifiLossUncounted DEF LostLinkUncounted

-------------------------------------------------------------------------------
(* The NTP client.                                                               *)

\* An enabled client that has a link, and its place in the loop.
NtpMay == nServers > 0 /\ connectedLinks > 0
NtpMayAt(place) == NtpMay /\ nPc = place

\* The other threads move the links, never the client.
LEMMA OnlyNtpMoves ==
    ASSUME [Next]_vars, NEW place, NtpMayAt(place)
    PROVE  NtpStep \/ NtpMayAt(place)' \/ ~NtpMay'
BY DEF Next, EthStep, WifiStep, Master, Drivers, vars, ntpVars, Ntp!SendSettings, NtpMay, NtpMayAt

\* A client that may sync goes from its wait to the top of the loop, and from there
\* into a round.
LEMMA NtpAdvances ==
    ASSUME NtpStep
    PROVE  /\ NtpMayAt("nolink") => NtpMayAt("top")' \/ ~NtpMay'
           /\ NtpMayAt("top") => nPc' = "syncing" \/ ~NtpMay'
BY DEF NtpMay, NtpMayAt, NtpStep, Ntp!TaskStep, Ntp!AwaitFirstSettings, Ntp!GatePassed,
   Ntp!SeeDisabled, Ntp!SeeNoLink, Ntp!StartRound, Ntp!AskServer, Ntp!AwaitNextSettings,
   Ntp!AwaitLink, Ntp!AwaitNextRound

\* A client that waited for a link starts a round, unless the links go away again or
\* the master disables it.
THEOREM NtpResumesWithLink == FairSpec /\ []NtpNeverBlocked => NtpResumes
<1> DEFINE n == NtpMayAt("nolink")
           t == NtpMayAt("top")
           sync == nPc = "syncing"
<1>1. /\ n /\ [Next]_vars => n' \/ t' \/ ~NtpMay'
      /\ n /\ <<NtpStep>>_vars => t' \/ ~NtpMay'
  BY OnlyNtpMoves, NtpAdvances
<1>2. /\ t /\ [Next]_vars => t' \/ sync' \/ ~NtpMay'
      /\ t /\ <<NtpStep>>_vars => sync' \/ ~NtpMay'
  BY OnlyNtpMoves, NtpAdvances
<1>3. NtpNeverBlocked => (n \/ t => ENABLED <<NtpStep>>_vars)
  BY DEF NtpNeverBlocked, NtpMayAt
<1>4. nPc = "nolink" /\ nServers > 0 /\ connectedLinks > 0 => n
  BY DEF NtpMayAt, NtpMay
<1> HIDE DEF n, t
<1>5. Spec /\ WF_vars(NtpStep) /\ []NtpNeverBlocked => (n ~> sync \/ ~NtpMay)
  BY <1>1, <1>2, <1>3, PTL DEF Spec
<1>6. IInv /\ NtpInv /\ ~NtpMay => nServers = 0 \/ connectedLinks = 0
  BY DEF NtpMay, IInv, EthInv, WifiInv, LinkCountExact, NtpInv, One
<1> QED
  BY Invariance, RoundInvariance, <1>4, <1>5, <1>6, PTL DEF FairSpec, Spec, NtpResumes
===============================================================================

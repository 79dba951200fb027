------------------------------- MODULE Links -------------------------------
(***************************************************************************)
(* The three tasks that share `connected_links' and `lwip_socket_gate':    *)
(* the Ethernet task and the Wi-Fi task, which write them, and the NTP     *)
(* client, which decides by them.  The main loop feeds their channels.     *)
(***************************************************************************)
EXTENDS LinkCounters, Sequences

CONSTANTS
    MaxServers,   \* servers of the NTP client
    Budget        \* bound: messages the master sends to the three tasks

ASSUME MaxServersAssumption == MaxServers \in Nat \ {0}
ASSUME BudgetAssumption == Budget \in Nat

VARIABLES
    \* the Ethernet task
    ePc, eEnabled, eInbox, eRegistered, eStarted, eConnected, eUp, eReported,
    \* the Wi-Fi task
    wPc, sta, ap, staInbox, apInbox, scans, wRegistered, apStartedReported,
    apDisabledReported, staDisconnectedReported, wStarted, wConnected, wUp,
    staNews, apReport,
    \* the NTP client
    nPc, nServers, nInbox, nLeft, nNews,
    \* shared
    connectedLinks, lwipGate, budget

ethVars == <<ePc, eEnabled, eInbox, eRegistered, eStarted, eConnected, eUp, eReported>>
wifiVars == <<wPc, sta, ap, staInbox, apInbox, scans, wRegistered, apStartedReported,
              apDisabledReported, staDisconnectedReported, wStarted, wConnected, wUp,
              staNews, apReport>>
ntpVars == <<nPc, nServers, nInbox, nLeft, nNews>>
sharedVars == <<connectedLinks, lwipGate, budget>>
vars == <<ethVars, wifiVars, ntpVars, sharedVars>>

Eth == INSTANCE EthernetTask WITH
    pc <- ePc, enabled <- eEnabled, inbox <- eInbox, registered <- eRegistered,
    started <- eStarted, connected <- eConnected, up <- eUp, reported <- eReported

Wifi == INSTANCE WifiTask WITH
    pc <- wPc, registered <- wRegistered, driverStarted <- wStarted,
    connected <- wConnected, up <- wUp

Ntp == INSTANCE NtpClient WITH
    pc <- nPc, servers <- nServers, inbox <- nInbox, left <- nLeft, news <- nNews

Init ==
    /\ Eth!InitTask /\ Wifi!InitTask /\ Ntp!InitTask
    /\ connectedLinks = 0 /\ lwipGate = 0 /\ budget = Budget

EthStep  == Eth!TaskStep /\ UNCHANGED <<wifiVars, ntpVars>>
WifiStep == Wifi!TaskStep /\ UNCHANGED <<ethVars, ntpVars>>
NtpStep  == Ntp!TaskStep /\ UNCHANGED <<ethVars, wifiVars>>

\* The main loop hands a decoded message to the channel of its task.
Master ==
    \/ UNCHANGED <<wifiVars, ntpVars>> /\ \E on \in BOOLEAN : Eth!SendSettings(on)
    \/ UNCHANGED <<ethVars, ntpVars>> /\ \E on \in BOOLEAN : Wifi!SendSta(on) \/ Wifi!SendAp(on)
    \/ UNCHANGED <<ethVars, ntpVars>> /\ Wifi!SendScan
    \/ UNCHANGED <<ethVars, wifiVars>> /\ \E n \in Ntp!Settings : Ntp!SendSettings(n)

Drivers ==
    \/ Eth!DriverStep /\ UNCHANGED <<wifiVars, ntpVars>>
    \/ Wifi!DriverStep /\ UNCHANGED <<ethVars, ntpVars>>

Next == EthStep \/ WifiStep \/ NtpStep \/ Master \/ Drivers

Spec == Init /\ [][Next]_vars

\* Every thread is scheduled; no fairness is asked of the master, of the cable
\* or of the access points.
FairSpec == Spec /\ WF_vars(EthStep) /\ WF_vars(WifiStep) /\ WF_vars(NtpStep)

---------------------------------------------------------------------------
(* Properties *)

TypeOK == Eth!TypeOK /\ Wifi!TypeOK /\ Ntp!TypeOK

One(b) == IF b THEN 1 ELSE 0

\* Whatever the order in which the two tasks add and subtract, connected_links
\* is the number of tasks that registered their link, so it neither drifts nor
\* wraps; and the gate counts the drivers that finished their initialisation.
LinkCountExact ==
    /\ connectedLinks = One(eRegistered) + One(wRegistered)
    /\ lwipGate = One(ePc # "init") + One(wPc # "init")

\* CONTEXT.md, NTP client: guarded by the real link state.  A round starts only
\* while a task works with a link for which no loss was dealt with yet.
RoundHasLink ==
    [][nPc = "top" /\ nPc' = "syncing" =>
         \/ ePc \in {"gotip", "monitor", "lost"}
         \/ wPc \in {"gotip", "monitor", "lost"}]_vars

\* An enabled client that waited for a link starts a round once one is there,
\* unless the links go again or other settings arrive.
NtpResumes ==
    nPc = "nolink" /\ nServers > 0 /\ connectedLinks > 0
        ~> nPc = "syncing" \/ nServers = 0 \/ connectedLinks = 0

\* A task whose link is gone never waits for anything that only the master or the
\* driver can give; nor does the NTP client, except for settings while it has none
\* or is disabled.
EthNeverBlocked  == eRegistered /\ ~(eConnected /\ eUp) => ENABLED <<EthStep>>_vars
WifiNeverBlocked == wRegistered /\ ~(wConnected /\ wUp) => ENABLED <<WifiStep>>_vars
NtpNeverBlocked  == nPc \notin {"first", "off"} => ENABLED <<NtpStep>>_vars
NeverBlocked == EthNeverBlocked /\ WifiNeverBlocked /\ NtpNeverBlocked

\* The component properties, of the tasks as they run together (stated in
\* EthernetTask, WifiTask and NtpClient).
CountFollowsReports     == Eth!CountFollowsReports /\ Wifi!CountFollowsReports
ApReportNotOpposite     == Wifi!ApReportNotOpposite
LostLinkUncounted       == Eth!LostLinkUncounted /\ Wifi!LostLinkUncounted
NtpRoundReported        == Ntp!RoundReported

\* Settings of the Ethernet and of the station are taken, in whatever wait
\* their task is.
SettingsTaken == Eth!SettingsTaken /\ Wifi!StaSettingsTaken
============================================================================

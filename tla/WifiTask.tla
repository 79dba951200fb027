----------------------------- MODULE WifiTask -----------------------------
(***************************************************************************)
(* The `wifi-task' thread (network/wifi/mod.rs): one driver for the        *)
(* station and the access point, its configuration from two settings       *)
(* channels, the connection of the station, and the retry loop.            *)
(*                                                                         *)
(* Settings are reduced to `enabled'; calls that configure, start, connect *)
(* or fetch may fail.  An error of is_connected or is_up reads as a loss   *)
(* in the code and is left out: with it fairness would end every link by   *)
(* an error.                                                               *)
(***************************************************************************)
EXTENDS LinkCounters, Sequences, SequencesExt

CONSTANT Budget   \* bound: messages the master sends to the task

VARIABLES
    pc,               \* where the task is
    sta, ap,          \* sta_settings.enabled, ap_settings.enabled
    staInbox,         \* wifi_station_interface_settings channel
    apInbox,          \* wifi_ap_interface_settings channel
    scans,            \* how many requests wait in the wifi_scan channel
    registered,       \* link_registered
    apStartedReported, apDisabledReported, staDisconnectedReported,
    driverStarted,    \* wifi.is_started()
    connected,        \* wifi.is_connected()
    up,               \* wifi.is_up()
    staNews,          \* history: the station frames of the last step that sent any
    apReport,         \* history: the last access point frame queued
    connectedLinks,   \* shared: connected_links
    lwipGate,         \* shared: lwip_socket_gate
    budget            \* what is left of Budget

settingsVars == <<sta, ap, staInbox, apInbox>>
flagVars     == <<apStartedReported, apDisabledReported, staDisconnectedReported>>
driverVars   == <<driverStarted, connected, up>>
reportVars   == <<staNews, apReport>>
sharedVars   == <<connectedLinks, lwipGate, budget>>
vars == <<pc, settingsVars, scans, registered, flagVars, driverVars, reportVars, sharedVars>>

Places == {"init", "top", "blocked", "start", "station", "connecting", "waitup",
           "gotip", "monitor", "lost", "retry", "dead"}
StaFrames == {"connected", "got_ip", "disconnected"}
ApFrames  == {"started", "disabled", "error"}

InitTask ==
    /\ pc = "init" /\ sta = FALSE /\ ap = FALSE
    /\ staInbox = <<>> /\ apInbox = <<>> /\ scans = 0
    /\ registered = FALSE
    /\ apStartedReported = FALSE /\ apDisabledReported = FALSE
    /\ staDisconnectedReported = FALSE
    /\ driverStarted = FALSE /\ connected = FALSE /\ up = FALSE
    /\ staNews = <<>> /\ apReport = "none"

Init == InitTask /\ connectedLinks = 0 /\ lwipGate = 0 /\ budget = Budget

---------------------------------------------------------------------------
(* Helpers *)

Report(frames) == staNews' = frames
StaReport == IF staNews = <<>> THEN "none" ELSE Last(staNews)

Deregister ==
    /\ connectedLinks' = IF registered THEN FetchSub(connectedLinks) ELSE connectedLinks
    /\ registered' = FALSE

Register ==
    /\ connectedLinks' = IF registered THEN connectedLinks ELSE FetchAdd(connectedLinks)
    /\ registered' = TRUE

TakeSta ==
    /\ staInbox # <<>>
    /\ sta' = Head(staInbox) /\ staInbox' = Tail(staInbox)

TakeAp ==
    /\ apInbox # <<>>
    /\ ap' = Head(apInbox) /\ apInbox' = Tail(apInbox)

\* `while let Ok(s) = try_recv()': the last of the waiting settings wins.
Newest(inbox, current) == IF inbox = <<>> THEN current ELSE Last(inbox)

---------------------------------------------------------------------------
(* The thread, in the order of its loop *)

\* EspWifi::new and wrap: either outcome raises the gate.
InitDriver ==
    /\ pc = "init" /\ pc' \in {"top", "dead"}
    /\ lwipGate' = FetchAdd(lwipGate)
    /\ UNCHANGED <<settingsVars, scans, registered, flagVars, driverVars, reportVars,
                   connectedLinks, budget>>

\* Both channels are drained, then the driver is configured: the access point
\* profile is built, the configuration set, and the addresses applied.  What
\* fails is reported on the interface it belongs to, set_configuration on none,
\* and the task then waits for STATION settings without a timeout.
Configure ==
    /\ pc = "top"
    /\ sta' = Newest(staInbox, sta) /\ staInbox' = <<>>
    /\ ap' = Newest(apInbox, ap) /\ apInbox' = <<>>
    /\ \/ pc' = "start" /\ UNCHANGED reportVars
       \/ pc' = "blocked" /\ UNCHANGED reportVars
       \/ ap' /\ pc' = "blocked" /\ apReport' = "error" /\ UNCHANGED staNews
       \/ sta' /\ pc' = "blocked" /\ Report(<<"disconnected">>) /\ UNCHANGED apReport
    /\ UNCHANGED <<scans, registered, flagVars, driverVars, sharedVars>>

\* Seeded defect: the wait is on the other channel.
BlockedTakesSta_FromAp ==
    /\ pc = "blocked" /\ TakeAp /\ pc' = "top"
    /\ UNCHANGED <<sta, staInbox, scans, registered, flagVars, driverVars, reportVars, sharedVars>>

\* recv_next_or_stop: only the station's channel is waited for.
BlockedTakesSta ==
    /\ pc = "blocked" /\ TakeSta /\ pc' = "top"
    /\ UNCHANGED <<ap, apInbox, scans, registered, flagVars, driverVars, reportVars, sharedVars>>

\* is_started or start failed.
StartFails ==
    /\ pc = "start" /\ pc' = "retry"
    /\ Report(<<"disconnected">>)
    /\ apReport' = IF ap THEN "error" ELSE apReport
    /\ UNCHANGED <<settingsVars, scans, registered, flagVars, driverVars, sharedVars>>

\* Seeded defect: ap_disabled_reported survives the start of the AP.
ReportAp_FlagKept ==
    /\ apReport' = IF ap /\ ~apStartedReported THEN "started"
                   ELSE IF ~ap /\ ~apDisabledReported THEN "disabled" ELSE apReport
    /\ apStartedReported' = ap
    /\ apDisabledReported' = (~ap \/ apDisabledReported)

\* The access point is reported when its flag says that it was not yet.
ReportAp ==
    /\ apReport' = IF ap /\ ~apStartedReported THEN "started"
                   ELSE IF ~ap /\ ~apDisabledReported THEN "disabled" ELSE apReport
    /\ apStartedReported' = ap
    /\ apDisabledReported' = ~ap

StartOk ==
    /\ pc = "start" /\ pc' = "station"
    /\ driverStarted' = TRUE
    /\ ReportAp
    /\ UNCHANGED <<settingsVars, scans, registered, staDisconnectedReported, connected, up,
                   staNews, sharedVars>>

\* The station is disabled: disconnect may fail, and a scan is served.
StationOff ==
    /\ pc = "station" /\ ~sta /\ pc' = "top"
    /\ Deregister
    /\ connected' \in {connected, FALSE}
    /\ IF staDisconnectedReported THEN UNCHANGED staNews ELSE Report(<<"disconnected">>)
    /\ staDisconnectedReported' = TRUE
    /\ scans' = 0
    /\ UNCHANGED <<settingsVars, apStartedReported, apDisabledReported, driverStarted, up,
                   apReport, lwipGate, budget>>

StationOn ==
    /\ pc = "station" /\ sta /\ pc' = "connecting"
    /\ staDisconnectedReported' = FALSE
    /\ UNCHANGED <<settingsVars, scans, registered, apStartedReported, apDisabledReported,
                   driverVars, reportVars, sharedVars>>

\* Connected already, or connect succeeded; get_mac may still fail.
ConnectOk ==
    /\ pc = "connecting" /\ pc' = "waitup"
    /\ connected' = TRUE
    /\ Report(<<"connected">>) \/ UNCHANGED staNews
    /\ UNCHANGED <<settingsVars, scans, registered, flagVars, driverStarted, up, apReport, sharedVars>>

ConnectFails ==
    /\ pc = "connecting" /\ ~connected /\ pc' = "retry"
    /\ Report(<<"disconnected">>)
    /\ UNCHANGED <<settingsVars, scans, registered, flagVars, driverVars, apReport, sharedVars>>

\* wait_for_netif_up_or_disconnect, in the order of its checks.
NetifUp ==
    /\ pc = "waitup" /\ up /\ pc' = "gotip"
    /\ Register
    /\ UNCHANGED <<settingsVars, scans, flagVars, driverVars, reportVars, lwipGate, budget>>

\* Seeded defect: the disconnect is not reported.
NetifDisconnected_Silent ==
    /\ pc = "waitup" /\ ~up /\ ~connected /\ pc' = "retry"
    /\ UNCHANGED <<settingsVars, scans, registered, flagVars, driverVars, reportVars, sharedVars>>

\* The disconnect is reported twice, with the default reason and without.
NetifDisconnected ==
    /\ pc = "waitup" /\ ~up /\ ~connected /\ pc' = "retry"
    /\ Report(<<"disconnected", "disconnected">>)
    /\ UNCHANGED <<settingsVars, scans, registered, flagVars, driverVars, apReport, sharedVars>>

NetifTimeout ==
    /\ pc = "waitup" /\ ~up /\ connected /\ pc' = "retry"
    /\ Report(<<"disconnected">>)
    /\ UNCHANGED <<settingsVars, scans, registered, flagVars, driverVars, apReport, sharedVars>>

\* get_ip_info may fail; that is only logged.
ReportIp ==
    /\ pc = "gotip" /\ pc' = "monitor"
    /\ Report(<<"got_ip">>) \/ UNCHANGED staNews
    /\ UNCHANGED <<settingsVars, scans, registered, flagVars, driverVars, apReport, sharedVars>>

\* process_wifi_scan_requests, in the monitor and in the retry loop.
ServeScans ==
    /\ pc \in {"monitor", "retry"} /\ scans > 0
    /\ scans' = 0
    /\ UNCHANGED <<pc, settingsVars, registered, flagVars, driverVars, reportVars, sharedVars>>

\* monitor_connected_state: the access point's channel, then the station's.
MonitorTakesSettings ==
    /\ pc = "monitor" /\ pc' = "top"
    /\ \/ TakeAp /\ UNCHANGED <<sta, staInbox>>
       \/ apInbox = <<>> /\ TakeSta /\ UNCHANGED <<ap, apInbox>>
    /\ Deregister
    /\ UNCHANGED <<scans, flagVars, driverVars, reportVars, lwipGate, budget>>

MonitorFindsLoss ==
    /\ pc = "monitor" /\ apInbox = <<>> /\ staInbox = <<>> /\ ~(connected /\ up)
    /\ Report(<<"disconnected">>) /\ pc' = "lost"
    /\ UNCHANGED <<settingsVars, scans, registered, flagVars, driverVars, apReport, sharedVars>>

\* Seeded defect: the link stays counted after a loss.
DeregisterLost_Kept ==
    /\ pc = "lost" /\ pc' = "retry"
    /\ UNCHANGED <<registered, connectedLinks>>
    /\ UNCHANGED <<settingsVars, scans, flagVars, driverVars, reportVars, lwipGate, budget>>

\* Back in the caller, after the frame was queued.
DeregisterLost ==
    /\ pc = "lost" /\ pc' = "retry"
    /\ Deregister
    /\ UNCHANGED <<settingsVars, scans, flagVars, driverVars, reportVars, lwipGate, budget>>

\* The retry wait: the station's channel, the access point's, the deadline.
Retry ==
    /\ pc = "retry" /\ pc' = "top"
    /\ \/ TakeSta /\ UNCHANGED <<ap, apInbox>>
       \/ staInbox = <<>> /\ TakeAp /\ UNCHANGED <<sta, staInbox>>
       \/ staInbox = <<>> /\ apInbox = <<>> /\ UNCHANGED settingsVars
    /\ UNCHANGED <<scans, registered, flagVars, driverVars, reportVars, sharedVars>>

TaskStep ==
    \/ InitDriver \/ Configure \/ BlockedTakesSta \/ StartFails \/ StartOk
    \/ StationOff \/ StationOn \/ ConnectOk \/ ConnectFails
    \/ NetifUp \/ NetifDisconnected \/ NetifTimeout \/ ReportIp
    \/ ServeScans \/ MonitorTakesSettings \/ MonitorFindsLoss \/ DeregisterLost \/ Retry

---------------------------------------------------------------------------
(* The main loop and the driver *)

Spend == budget > 0 /\ budget' = budget - 1

SendSta(on) ==
    /\ Spend /\ staInbox' = Append(staInbox, on)
    /\ UNCHANGED <<pc, sta, ap, apInbox, scans, registered, flagVars, driverVars, reportVars,
                   connectedLinks, lwipGate>>

SendAp(on) ==
    /\ Spend /\ apInbox' = Append(apInbox, on)
    /\ UNCHANGED <<pc, sta, ap, staInbox, scans, registered, flagVars, driverVars, reportVars,
                   connectedLinks, lwipGate>>

SendScan ==
    /\ Spend /\ scans' = scans + 1
    /\ UNCHANGED <<pc, settingsVars, registered, flagVars, driverVars, reportVars,
                   connectedLinks, lwipGate>>

\* The station is disconnected by the access point it used; an address is
\* assigned while it is connected, and lost at any time after.
DriverStep ==
    /\ \/ connected /\ connected' = FALSE /\ UNCHANGED up
       \/ (up \/ connected) /\ up' = ~up /\ UNCHANGED connected
    /\ UNCHANGED <<pc, settingsVars, scans, registered, flagVars, driverStarted, reportVars,
                   sharedVars>>

Next ==
    \/ TaskStep \/ DriverStep \/ SendScan
    \/ \E on \in BOOLEAN : SendSta(on) \/ SendAp(on)

Spec == Init /\ [][Next]_vars
FairSpec == Spec /\ WF_vars(TaskStep)

---------------------------------------------------------------------------
(* Properties *)

TypeOK ==
    /\ pc \in Places /\ sta \in BOOLEAN /\ ap \in BOOLEAN
    /\ staInbox \in Seq(BOOLEAN) /\ apInbox \in Seq(BOOLEAN)
    /\ scans \in Nat /\ registered \in BOOLEAN
    /\ apStartedReported \in BOOLEAN /\ apDisabledReported \in BOOLEAN
    /\ staDisconnectedReported \in BOOLEAN
    /\ driverStarted \in BOOLEAN /\ connected \in BOOLEAN /\ up \in BOOLEAN
    /\ staNews \in Seq(StaFrames) /\ apReport \in ApFrames \cup {"none"}
    /\ connectedLinks \in 0 .. Width - 1 /\ lwipGate \in 0 .. Width - 1
    /\ budget \in 0 .. Budget

\* The task counts its link only while it works with it, and stops within one
\* step of reporting the loss; whenever it waits to retry, the last frame for
\* the station told the master that it is disconnected.
CountFollowsReports ==
    /\ registered <=> pc \in {"gotip", "monitor", "lost"}
    /\ pc \in {"lost", "retry"} => StaReport = "disconnected"

\* While the driver runs, the last frame about the access point never claims the
\* opposite of its settings; it may still be an error of earlier settings.
ApReportNotOpposite ==
    pc \in {"station", "connecting", "waitup", "gotip", "monitor", "lost"} =>
        apReport \in (IF ap THEN {"started", "error"} ELSE {"disabled", "error"})

\* A link that goes down and stays down is no longer counted in the end.
LostLinkUncounted == registered /\ ~connected ~> ~registered \/ connected

\* Station settings are taken, in whatever wait the task is.
StaSettingsTaken == (staInbox # <<>> /\ pc # "dead") ~> (staInbox = <<>> \/ pc = "dead")

\* CONTEXT.md: an early disconnect emits a single `disconnected' event.
SingleDisconnected == staNews # <<"disconnected", "disconnected">>
===========================================================================

--------------------------- MODULE EthernetTask ---------------------------
(***************************************************************************)
(* The `eth-task' thread (network/ethernet.rs): driver start, waiting for  *)
(* the cable, waiting for an address, monitoring, and the retry loop, with *)
(* the settings channel that the main loop fills and the driver whose      *)
(* state changes under the task's feet.                                    *)
(*                                                                         *)
(* `pc' is where the thread is: at a blocking or polling call, or between  *)
(* two effects that other threads can see.                                 *)
(*                                                                         *)
(* An error of is_connected or is_up reads as a loss in the code and is    *)
(* left out: with it fairness would end every link by an error.            *)
(***************************************************************************)
EXTENDS LinkCounters, Sequences

CONSTANT Budget   \* bound: settings messages the master sends

VARIABLES
    pc,              \* where the task is
    enabled,         \* settings.enabled
    inbox,           \* ethernet_interface_settings channel
    registered,      \* link_registered
    started,         \* the driver is started
    connected,       \* eth.is_connected()
    up,              \* eth.is_up()
    reported,        \* history: the last InterfaceState queued for the master
    connectedLinks,  \* shared: connected_links
    lwipGate,        \* shared: lwip_socket_gate
    budget           \* what is left of Budget

driverVars == <<started, connected, up>>
vars == <<pc, enabled, inbox, registered, driverVars, reported,
          connectedLinks, lwipGate, budget>>

Places == {"init", "first", "top", "off", "start", "waitlink", "waitup",
           "gotip", "monitor", "lost", "retry", "dead"}
Reports == {"none", "connected", "got_ip", "disconnected"}

InitTask ==
    /\ pc = "init" /\ enabled = FALSE /\ registered = FALSE
    /\ inbox = <<>>
    /\ started = FALSE /\ connected = FALSE /\ up = FALSE
    /\ reported = "none"

Init == InitTask /\ connectedLinks = 0 /\ lwipGate = 0 /\ budget = Budget

---------------------------------------------------------------------------
(* Helpers *)

Report(frame) == reported' = frame

\* Seeded defect: the flag is cleared and the count left as it is.
Deregister_FlagOnly ==
    /\ registered' = FALSE
    /\ UNCHANGED connectedLinks

\* if link_registered { connected_links.fetch_sub(1); link_registered = false }
Deregister ==
    /\ connectedLinks' = IF registered THEN FetchSub(connectedLinks) ELSE connectedLinks
    /\ registered' = FALSE

\* if !link_registered { connected_links.fetch_add(1); link_registered = true }
Register ==
    /\ connectedLinks' = IF registered THEN connectedLinks ELSE FetchAdd(connectedLinks)
    /\ registered' = TRUE

TakeSettings ==
    /\ inbox # <<>>
    /\ enabled' = Head(inbox) /\ inbox' = Tail(inbox)

NoSettings == inbox = <<>> /\ UNCHANGED <<enabled, inbox>>

---------------------------------------------------------------------------
(* The thread *)

\* EthDriver::new and wrap: either outcome raises the gate, a failure ends
\* the task.
InitDriver ==
    /\ pc = "init" /\ pc' \in {"first", "dead"}
    /\ lwipGate' = FetchAdd(lwipGate)
    /\ UNCHANGED <<enabled, inbox, registered, driverVars, reported, connectedLinks, budget>>

\* The first settings, in slices of one second.
AwaitFirstSettings ==
    /\ pc = "first" /\ TakeSettings /\ pc' = "top"
    /\ UNCHANGED <<registered, driverVars, reported, connectedLinks, lwipGate, budget>>

\* Disabled: the driver stops, and only if it does the master hears of it.
Disable ==
    /\ pc = "top" /\ ~enabled /\ pc' = "off"
    /\ Deregister
    /\ \/ started' = FALSE /\ UNCHANGED <<connected, up>> /\ Report("disconnected")
       \/ UNCHANGED <<driverVars, reported>>
    /\ UNCHANGED <<enabled, inbox, lwipGate, budget>>

\* apply_eth_ip_settings
ApplyIp ==
    /\ pc = "top" /\ enabled
    /\ \/ pc' = "start" /\ UNCHANGED reported
       \/ pc' = "off" /\ Report("disconnected")
    /\ UNCHANGED <<enabled, inbox, registered, driverVars, connectedLinks, lwipGate, budget>>

\* recv_next_or_stop
AwaitNextSettings ==
    /\ pc = "off" /\ TakeSettings /\ pc' = "top"
    /\ UNCHANGED <<registered, driverVars, reported, connectedLinks, lwipGate, budget>>

\* ensure_ethernet_started
EnsureStarted ==
    /\ pc = "start"
    /\ \/ /\ pc' = "waitlink" /\ started' = TRUE
          /\ UNCHANGED reported
       \/ /\ ~started /\ pc' = "retry"
          /\ Report("disconnected") /\ UNCHANGED started
    /\ UNCHANGED <<enabled, inbox, registered, connected, up, connectedLinks, lwipGate, budget>>

\* wait_for_eth_connected_or_settings: a poll finds settings first.
LinkWaitTakesSettings ==
    /\ pc = "waitlink" /\ TakeSettings /\ pc' = "top"
    /\ UNCHANGED <<registered, driverVars, reported, connectedLinks, lwipGate, budget>>

LinkSeen ==
    /\ pc = "waitlink" /\ NoSettings /\ connected
    /\ Report("connected") /\ pc' = "waitup"
    /\ UNCHANGED <<registered, driverVars, connectedLinks, lwipGate, budget>>

\* wait_for_eth_up: only is_up and the deadline are looked at.
NetifUp ==
    /\ pc = "waitup" /\ up
    /\ Register /\ pc' = "gotip"
    /\ UNCHANGED <<enabled, inbox, driverVars, reported, lwipGate, budget>>

\* Seeded defect: the timeout is only logged.
NetifTimeout_Silent ==
    /\ pc = "waitup" /\ ~up
    /\ pc' = "retry"
    /\ UNCHANGED <<enabled, inbox, registered, driverVars, reported, connectedLinks,
                   lwipGate, budget>>

NetifTimeout ==
    /\ pc = "waitup" /\ ~up
    /\ Report("disconnected") /\ pc' = "retry"
    /\ UNCHANGED <<enabled, inbox, registered, driverVars, connectedLinks, lwipGate, budget>>

\* get_ip_info may fail; that is only logged.
ReportIp ==
    /\ pc = "gotip" /\ pc' = "monitor"
    /\ Report("got_ip") \/ UNCHANGED reported
    /\ UNCHANGED <<enabled, inbox, registered, driverVars, connectedLinks, lwipGate, budget>>

\* monitor_link_state, one poll per second: settings come first.
MonitorTakesSettings ==
    /\ pc = "monitor" /\ TakeSettings
    /\ Deregister /\ pc' = "top"
    /\ UNCHANGED <<driverVars, reported, lwipGate, budget>>

\* Seeded defect: a poll looks at the address only.
MonitorFindsLoss_AddressOnly ==
    /\ pc = "monitor" /\ NoSettings /\ ~up
    /\ Report("disconnected") /\ pc' = "lost"
    /\ UNCHANGED <<registered, driverVars, connectedLinks, lwipGate, budget>>

MonitorFindsLoss ==
    /\ pc = "monitor" /\ NoSettings /\ ~(connected /\ up)
    /\ Report("disconnected") /\ pc' = "lost"
    /\ UNCHANGED <<registered, driverVars, connectedLinks, lwipGate, budget>>

\* Back in the caller, after the frame was queued.
DeregisterLost ==
    /\ pc = "lost" /\ Deregister /\ pc' = "retry"
    /\ UNCHANGED <<enabled, inbox, driverVars, reported, lwipGate, budget>>

\* recv_timeout of five seconds: new settings, or the old ones again.
Retry ==
    /\ pc = "retry" /\ pc' = "top"
    /\ TakeSettings \/ NoSettings
    /\ UNCHANGED <<registered, driverVars, reported, connectedLinks, lwipGate, budget>>

TaskStep ==
    \/ InitDriver \/ AwaitFirstSettings \/ Disable \/ ApplyIp \/ AwaitNextSettings
    \/ EnsureStarted \/ LinkWaitTakesSettings \/ LinkSeen \/ NetifUp \/ NetifTimeout
    \/ ReportIp \/ MonitorTakesSettings \/ MonitorFindsLoss \/ DeregisterLost \/ Retry

---------------------------------------------------------------------------
(* The main loop and the driver *)

SendSettings(on) ==
    /\ budget > 0 /\ budget' = budget - 1
    /\ inbox' = Append(inbox, on)
    /\ UNCHANGED <<pc, enabled, registered, driverVars, reported, connectedLinks, lwipGate>>

\* The cable is plugged into a started driver, and pulled, or the driver's stop
\* event arrives; an address is assigned to a connected interface, and lost at
\* any time after.
CableChanges ==
    /\ started \/ connected
    /\ connected' = ~connected
    /\ UNCHANGED <<started, up>>

AddressChanges ==
    /\ up \/ connected
    /\ up' = ~up
    /\ UNCHANGED <<started, connected>>

DriverStep ==
    /\ CableChanges \/ AddressChanges
    /\ UNCHANGED <<pc, enabled, inbox, registered, reported, connectedLinks, lwipGate, budget>>

Next == TaskStep \/ DriverStep \/ \E on \in BOOLEAN : SendSettings(on)

Spec == Init /\ [][Next]_vars
FairSpec == Spec /\ WF_vars(TaskStep)

---------------------------------------------------------------------------
(* Properties *)

TypeOK ==
    /\ pc \in Places /\ enabled \in BOOLEAN /\ registered \in BOOLEAN
    /\ inbox \in Seq(BOOLEAN)
    /\ started \in BOOLEAN /\ connected \in BOOLEAN /\ up \in BOOLEAN
    /\ reported \in Reports
    /\ connectedLinks \in 0 .. Width - 1 /\ lwipGate \in 0 .. Width - 1
    /\ budget \in 0 .. Budget

\* The task counts its link only while it works with it, and not while the last
\* frame tells the master that the link is gone, except for the one step in
\* which it is about to stop counting; whenever it waits to retry, the master
\* has been told.
CountFollowsReports ==
    /\ registered <=> pc \in {"gotip", "monitor", "lost"}
    /\ pc \in {"gotip", "monitor"} => reported \in {"connected", "got_ip"}
    /\ pc \in {"lost", "retry"} => reported = "disconnected"

\* A link that goes down and stays down is no longer counted in the end.
LostLinkUncounted == registered /\ ~connected ~> ~registered \/ connected

\* Settings are taken from the channel, in whatever wait the task is.
SettingsTaken == (inbox # <<>> /\ pc # "dead") ~> (inbox = <<>> \/ pc = "dead")

\* README 4.1.3: on loss of the link `ethernet_disconnected' is sent, after
\* which the firmware waits for the link to come back.
LossReported ==
    reported \in {"connected", "got_ip"} /\ ~connected
        ~> reported = "disconnected" \/ connected
===========================================================================

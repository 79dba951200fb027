--------------------------- MODULE WifiWatchdog ---------------------------
(***************************************************************************)
(* WifiTask with the task watchdog (system/wdt.rs) it is subscribed to.    *)
(* Time is counted where the task waits without feeding: in the blocking   *)
(* recv after an error of the configuration.  A message for the station    *)
(* ends that wait at once, so no time passes with one in the channel.      *)
(***************************************************************************)
EXTENDS WifiTask

CONSTANT WdtLimit   \* units of time after which the watchdog resets the chip

VARIABLE unfed      \* time since the task last fed the watchdog

timedVars == <<vars, unfed>>

Starved == unfed > WdtLimit

Tick ==
    /\ pc = "blocked" /\ staInbox = <<>>
    /\ unfed' = unfed + 1
    /\ UNCHANGED vars

\* The loop feeds at its top, and every other wait in its slices.
TaskRuns == TaskStep /\ unfed' = 0

Outside ==
    /\ DriverStep \/ SendScan \/ \E on \in BOOLEAN : SendSta(on) \/ SendAp(on)
    /\ UNCHANGED unfed

\* The chip restarts: every task, channel and counter is new.
Reset ==
    /\ Starved
    /\ pc' = "init" /\ sta' = FALSE /\ ap' = FALSE
    /\ staInbox' = <<>> /\ apInbox' = <<>> /\ scans' = 0
    /\ registered' = FALSE /\ connectedLinks' = 0 /\ lwipGate' = 0
    /\ apStartedReported' = FALSE /\ apDisabledReported' = FALSE
    /\ staDisconnectedReported' = FALSE
    /\ driverStarted' = FALSE /\ connected' = FALSE /\ up' = FALSE
    /\ staNews' = <<>> /\ apReport' = "none"
    /\ unfed' = 0
    /\ UNCHANGED budget

TimedNext ==
    \/ ~Starved /\ (TaskRuns \/ Outside \/ Tick)
    \/ Reset

TimedSpec == Init /\ unfed = 0 /\ [][TimedNext]_timedVars

---------------------------------------------------------------------------
(* Properties *)

\* CONTEXT.md: the station and the access point are controlled independently.
\* So settings that correct an error of the access point's configuration are
\* taken, and do not stay in their channel until the watchdog resets the chip.
ApCorrectionTaken ==
    ~(Starved /\ pc = "blocked" /\ ap /\ apReport = "error" /\ apInbox # <<>>)
===========================================================================

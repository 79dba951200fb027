---------------------------- MODULE NtpClient ----------------------------
(***************************************************************************)
(* The `ntp-client' thread (services/ntp_client.rs): it looks at the count *)
(* of active links before a round, asks the servers of its settings one    *)
(* after the other, and waits, for settings or for a deadline.             *)
(*                                                                         *)
(* Settings are reduced to the number of servers to ask: 0 for a disabled  *)
(* client, else 1 .. MaxServers, which the decoder enforces.  Of the frame *)
(* that each request leads to, the server and the outcome are kept.        *)
(***************************************************************************)
EXTENDS LinkCounters, Sequences

CONSTANT MaxServers   \* servers a settings message may carry (3 in the code)

VARIABLES
    pc,              \* where the task is
    servers,         \* servers of the settings in force, 0 when disabled
    inbox,           \* ntp_client_settings channel
    left,            \* servers that the current round may still ask
    news,            \* history: the frames of the current round
    connectedLinks,  \* shared: connected_links
    lwipGate,        \* shared: lwip_socket_gate
    budget           \* messages the master may still send

Settings == 0 .. MaxServers
Places == {"first", "gate", "top", "off", "nolink", "syncing", "wait"}

InitTask == pc = "first" /\ servers = 0 /\ inbox = <<>> /\ left = 0 /\ news = <<>>

---------------------------------------------------------------------------
(* Helpers *)

TakeSettings ==
    /\ inbox # <<>>
    /\ servers' = Head(inbox) /\ inbox' = Tail(inbox)

\* recv_timeout returns a message that waits before it looks at the clock.
Deadline == inbox = <<>> /\ UNCHANGED <<servers, inbox>>

---------------------------------------------------------------------------
(* The thread *)

AwaitFirstSettings ==
    /\ pc = "first" /\ TakeSettings /\ pc' = "gate"
    /\ UNCHANGED <<left, news, connectedLinks, lwipGate, budget>>

\* wait_for_lwip_driver_init: both drivers have signalled or 120 s passed, so
\* the wait may end at any time.
GatePassed ==
    /\ pc = "gate" /\ pc' = "top"
    /\ UNCHANGED <<servers, inbox, left, news, connectedLinks, lwipGate, budget>>

SeeDisabled ==
    /\ pc = "top" /\ servers = 0 /\ pc' = "off"
    /\ UNCHANGED <<servers, inbox, left, news, connectedLinks, lwipGate, budget>>

SeeNoLink ==
    /\ pc = "top" /\ servers > 0 /\ connectedLinks = 0 /\ pc' = "nolink"
    /\ UNCHANGED <<servers, inbox, left, news, connectedLinks, lwipGate, budget>>

\* Seeded defect: the count of links is not looked at.
StartRound_Unguarded ==
    /\ pc = "top" /\ servers > 0
    /\ pc' = "syncing" /\ left' = servers
    /\ UNCHANGED <<servers, inbox, news, connectedLinks, lwipGate, budget>>

StartRound ==
    /\ pc = "top" /\ servers > 0 /\ connectedLinks > 0
    /\ pc' = "syncing" /\ left' = servers
    /\ UNCHANGED <<servers, inbox, news, connectedLinks, lwipGate, budget>>

Asked == servers - left + 1
Tell(ok) == news' = Append(news, [server |-> Asked, ok |-> ok])

\* Seeded defect: a success does not end the round.
AskServer_NoBreak ==
    /\ pc = "syncing"
    /\ \E ok \in BOOLEAN : Tell(ok)
    /\ left' = left - 1
    /\ pc' = IF left' = 0 THEN "wait" ELSE "syncing"
    /\ UNCHANGED <<servers, inbox, connectedLinks, lwipGate, budget>>

\* sync_once blocks for seconds; its outcome is reported, and a failure leads
\* to the next server.
AskServer ==
    /\ pc = "syncing"
    /\ \E ok \in BOOLEAN : Tell(ok) /\ left' = IF ok THEN 0 ELSE left - 1
    /\ pc' = IF left' = 0 THEN "wait" ELSE "syncing"
    /\ UNCHANGED <<servers, inbox, connectedLinks, lwipGate, budget>>

AwaitNextSettings ==
    /\ pc = "off" /\ TakeSettings /\ pc' = "top"
    /\ UNCHANGED <<left, news, connectedLinks, lwipGate, budget>>

\* Seeded defect: without a link only settings end the wait.
AwaitLink_NoDeadline ==
    /\ pc = "nolink" /\ TakeSettings /\ pc' = "top"
    /\ UNCHANGED <<left, news, connectedLinks, lwipGate, budget>>

\* Sixty seconds without a link, in slices of half a second.
AwaitLink ==
    /\ pc = "nolink" /\ pc' = "top"
    /\ TakeSettings \/ Deadline
    /\ UNCHANGED <<left, news, connectedLinks, lwipGate, budget>>

\* resync_period after a success, sixty seconds after a failed round.
AwaitNextRound ==
    /\ pc = "wait" /\ pc' = "top" /\ news' = <<>>
    /\ TakeSettings \/ Deadline
    /\ UNCHANGED <<left, connectedLinks, lwipGate, budget>>

TaskStep ==
    \/ AwaitFirstSettings \/ GatePassed \/ SeeDisabled \/ SeeNoLink \/ StartRound
    \/ AskServer \/ AwaitNextSettings \/ AwaitLink \/ AwaitNextRound

SendSettings(n) ==
    /\ budget > 0 /\ budget' = budget - 1
    /\ inbox' = Append(inbox, n)
    /\ UNCHANGED <<pc, servers, left, news, connectedLinks, lwipGate>>

---------------------------------------------------------------------------
(* Properties *)

\* The types; and a blocking call always has a server to ask.
TypeOK ==
    /\ pc \in Places /\ servers \in Settings /\ inbox \in Seq(Settings)
    /\ left \in Settings /\ news \in Seq([server : 1 .. MaxServers, ok : BOOLEAN])
    /\ pc = "syncing" => left > 0

\* The master can follow a round: it is told of every server that was asked, in
\* the order of their priority, and nothing after a success; a round ends with
\* a success or with the failure of the last server.
RoundReported ==
    LET n == Len(news)
    IN  /\ \A i \in 1 .. n : news[i].server = i
        /\ \A i \in 1 .. n - 1 : ~news[i].ok
        /\ pc = "syncing" => n < servers /\ (n > 0 => ~news[n].ok)
        /\ pc = "wait" => n > 0 /\ (news[n].ok \/ n = servers)
===========================================================================

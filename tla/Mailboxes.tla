----------------------------- MODULE Mailboxes -----------------------------
(***************************************************************************)
(* What the main loop promises the tasks: a mailbox for each, into which   *)
(* the master's messages for it are posted, and out of which it is handed  *)
(* the oldest one that it does not have yet, as long as it receives.  No   *)
(* message is handed to another task, skipped, repeated, reordered or      *)
(* taken back; only a restart empties the mailboxes.                       *)
(***************************************************************************)
EXTENDS Naturals, Sequences

CONSTANTS Tasks, Message

VARIABLES
    posted,  \* task -> the messages for it, in the order of their arrival
    handed,  \* task -> those it was handed
    open     \* the tasks that receive

mailVars == <<posted, handed, open>>

Empty == [t \in Tasks |-> <<>>]

Init == posted = Empty /\ handed = Empty /\ open = Tasks

\* A message for t arrives, whether t still receives or not.
Post(t) ==
    /\ \E m \in Message : posted' = [posted EXCEPT ![t] = Append(@, m)]
    /\ UNCHANGED <<handed, open>>

\* t gets the next of its messages.
Hand(t) ==
    /\ t \in open /\ Len(handed[t]) < Len(posted[t])
    /\ handed' = [handed EXCEPT ![t] = Append(@, posted[t][Len(@) + 1])]
    /\ UNCHANGED <<posted, open>>

\* t is gone; what it has not been handed it never is.
Close(t) ==
    /\ t \in open /\ open' = open \ {t}
    /\ UNCHANGED <<posted, handed>>

Restart == posted' = Empty /\ handed' = Empty /\ open' = Tasks

Next == Restart \/ \E t \in Tasks : Post(t) \/ Hand(t) \/ Close(t)

Spec == Init /\ [][Next]_mailVars
============================================================================

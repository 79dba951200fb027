--------------------------- MODULE SlotRegister ---------------------------
(***************************************************************************)
(* What the TCP server promises the master: a table of connection slots    *)
(* in which a slot passes from one connection to the next only through     *)
(* `disconnected', and no connection is ever in two slots.                 *)
(***************************************************************************)
EXTENDS Integers

CONSTANTS MaxClients, Conns, NoConn

VARIABLE reg   \* slot -> connection or NoConn

Slots == 0 .. MaxClients - 1

Init == reg = [i \in Slots |-> NoConn]

\* ServiceState `connected': the connection takes a free slot.
Occupy(i, c) ==
    /\ reg[i] = NoConn
    /\ \A j \in Slots : reg[j] # c
    /\ reg' = [reg EXCEPT ![i] = c]

\* ServiceState `disconnected': the slot is free again.
Release(i) ==
    /\ reg[i] # NoConn
    /\ reg' = [reg EXCEPT ![i] = NoConn]

Next == \E i \in Slots : Release(i) \/ \E c \in Conns : Occupy(i, c)

Spec == Init /\ [][Next]_reg
===========================================================================

--------------------------- MODULE LinkCounters ---------------------------
(***************************************************************************)
(* The two atomic u8 counters that main.rs shares between the tasks:       *)
(* `connected_links', how many interfaces have an address, and             *)
(* `lwip_socket_gate', how many driver tasks finished their initialisation.*)
(***************************************************************************)
EXTENDS Integers

Width == 256   \* u8

\* fetch_add and fetch_sub wrap around.
FetchAdd(n) == (n + 1) % Width
FetchSub(n) == (n + Width - 1) % Width
===========================================================================

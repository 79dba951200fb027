-------------------------- MODULE MCUdpListener --------------------------
(* A small instance of UdpListener for TLC. *)
EXTENDS UdpListener

\* Two request ports and two response ports in turn; the same port twice, which
\* the decoder accepts and bind cannot; one port; and no response port at all.
MCMessages ==
    { [req |-> <<1, 2>>, resp |-> <<3, 4>>, type |-> "t1"],
      [req |-> <<1, 1>>, resp |-> <<3>>,    type |-> "t1"],
      [req |-> <<2>>,    resp |-> <<4, 3>>, type |-> "t2"],
      [req |-> <<1>>,    resp |-> <<>>,     type |-> "t1"] }

\* Only the settings whose second bind is bound to fail.
MCPortTwice == { [req |-> <<1, 1>>, resp |-> <<3>>, type |-> "t1"] }
===========================================================================

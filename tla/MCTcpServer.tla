--------------------------- MODULE MCTcpServer ---------------------------
(* Small instances of TcpServer for TLC. *)
EXTENDS TcpServer, TLC

\* Safety runs: connections are interchangeable.
ConnSymmetry == Permutations(Conns)
===========================================================================

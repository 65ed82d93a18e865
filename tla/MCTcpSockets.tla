---------------------------- MODULE MCTcpSockets ----------------------------
(* Sockets for TLC. *)
EXTENDS TcpSockets, TLC

CONSTANTS c1, c2, c3

ThreeSockets == {c1, c2, c3}
==============================================================================

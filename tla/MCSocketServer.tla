--------------------------- MODULE MCSocketServer ---------------------------
(* Instances of SocketServer: two connections with a request each.         *)
EXTENDS SocketServer, TLC
=============================================================================

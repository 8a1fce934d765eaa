------------------------ MODULE MCReconnectConnector ------------------------
(* Instances of ReconnectConnector: three sockets let one close, one open  *)
(* and one wait; two attempts reach the limit and the retry before it.     *)
EXTENDS ReconnectConnector, TLC
=============================================================================

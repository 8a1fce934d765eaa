---------------------------- MODULE MCSocketPool ----------------------------
(* Instances of SocketPool: with two sockets one drains or closes while    *)
(* the other is opened, shared by three clients and torn down, and is then *)
(* opened again itself, so that releases and close events of one meet the  *)
(* count and the pool entry of the other.                                  *)
EXTENDS SocketPool, TLC
=============================================================================

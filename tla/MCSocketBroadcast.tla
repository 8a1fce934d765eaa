------------------------- MODULE MCSocketBroadcast -------------------------
(* Instances of SocketBroadcast: three seeds on one connection let a seed   *)
(* supersede one that superseded another.                                   *)
EXTENDS SocketBroadcast, TLC

\* Connections are alike, and so are the calls of join().
Exchange == Permutations(Conn) \cup Permutations(Seed)
=============================================================================

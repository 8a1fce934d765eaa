---------------------------- MODULE MCJobRunner ----------------------------
(* An interval of three units and a check every two, and a clock that is    *)
(* one unit ahead of the other.                                             *)
EXTENDS JobRunner, TLC

CONSTANTS i1, i2

MCInstance == {i1, i2}
MCAlone == {i1}
MCAhead == [i \in MCInstance |-> IF i = i1 THEN 0 ELSE MaxAhead]
AloneAhead == [i \in MCAlone |-> 0]
=============================================================================

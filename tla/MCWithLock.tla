----------------------------- MODULE MCWithLock -----------------------------
(* Instances of WithLock: two runs, and a clock of a few TTLs.             *)
EXTENDS WithLock, TLC

CONSTANTS r1, r2, o1, o2

OwnPerRun == r1 :> o1 @@ r2 :> o2
OneRunner == r1 :> o1 @@ r2 :> o1

SkewOfR2 == [r \in Run |-> IF r = r2 THEN MaxSkew ELSE 0]

HoldOfR1 == [r \in Run |-> IF r = r1 THEN Ttl + 3 ELSE 0]
HoldOfR2 == [r \in Run |-> IF r = r2 THEN 2 * Ttl ELSE 0]

\* The variables of a withLock call that is over, crashed or lost are never read
\* again, except the start that HoldUntil counts from.
Dead(r) == pc[r] \in {"over", "crashed"}
Seen ==
  <<now, lease, calls, pc, aborted, renewing, cooldown,
    [r \in Run |-> IF Dead(r) /\ HoldFor[r] = 0 THEN 0 ELSE startedAt[r]],
    [r \in Run |-> IF Dead(r) \/ aborted[r] THEN <<0, 0>>
                  ELSE <<renewedAt[r], beatAt[r]>>],
    [r \in Run |-> IF pc[r] = "settling" THEN settleBy[r] ELSE 0]>>
=============================================================================

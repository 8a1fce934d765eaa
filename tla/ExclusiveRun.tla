---------------------------- MODULE ExclusiveRun ----------------------------
(***************************************************************************)
(* What withLock promises to its callers: of the runs that contend for a   *)
(* lock one works at a time, each works once at most, and one whose work   *)
(* ended, or was told to stop, never resumes it.                           *)
(***************************************************************************)
CONSTANT Run

VARIABLE stage  \* of each run: "waiting", "working" or "done"

Init == stage = [r \in Run |-> "waiting"]

Begin(r) ==
  /\ stage[r] = "waiting" /\ \A q \in Run : stage[q] # "working"
  /\ stage' = [stage EXCEPT ![r] = "working"]

GiveUp(r) == stage[r] = "waiting" /\ stage' = [stage EXCEPT ![r] = "done"]

End(r) == stage[r] = "working" /\ stage' = [stage EXCEPT ![r] = "done"]

Next == \E r \in Run : Begin(r) \/ GiveUp(r) \/ End(r)

Spec == Init /\ [][Next]_stage
=============================================================================

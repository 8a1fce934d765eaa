----------------------------- MODULE JobRunner -----------------------------
(***************************************************************************)
(* One job of GGJobRunner on several instances: the checks of each         *)
(* JobLoop, runs by schedule and by run(), batches and their rows, and     *)
(* stop (GGJobRunner.ts). The lock is what withLock makes of it: it is     *)
(* held by the run of an instance, by nobody, or it is an Orphan, a lease  *)
(* that nobody renews or releases any more and that ends with its TTL; and *)
(* it may be in the cooldown of holdUntil.                                 *)
(*                                                                         *)
(* A runner has one owner for all its runs, so a call that an earlier run  *)
(* no longer waits for (a renew in flight when fn fails or has no hold, a  *)
(* renew, a hold or a release that the run saw fail) may still land on the *)
(* lease of a later run or shorten a cooldown: see LateCall (that it may   *)
(* prolong one instead only delays runs).                                  *)
(*                                                                         *)
(* Time is what is left of each timer and of the cooldown. Timers may be   *)
(* late by any amount, clocks are apart by up to MaxAhead. Slack is        *)
(* checkEveryMs / 10.                                                      *)
(***************************************************************************)
EXTENDS Integers, FiniteSets

CONSTANTS
  Instance,
  MaxAhead,                \* bound of Ahead
  Ahead,                   \* how far the clock of each instance is ahead
  Setting,                 \* what a read of the settings may give, of {"on", "off", "unreadable"}
  Interval, CheckEvery, Slack,
  StartupDelay, Retry,     \* Retry: MIN_CHECK_EVERY_MS
  Limit, MaxRows,          \* MaxRows: bound of a data set, which may exceed the limit
  Parallel, MaxExtraRuns,
  MaxFaults,               \* bound of crashes and calls that land late
  None, Orphan

ASSUME JobAssumption ==
  /\ MaxAhead \in Nat /\ Ahead \in [Instance -> 0..MaxAhead]
  /\ Slack \in Nat /\ CheckEvery \in Nat /\ Interval \in Nat
  /\ Setting \subseteq {"on", "off", "unreadable"} /\ Slack < CheckEvery /\ CheckEvery <= Interval
  /\ {StartupDelay, Retry, Limit, MaxRows, MaxExtraRuns, MaxFaults} \subseteq Nat /\ Parallel \in Nat \ {0}
  /\ None \notin Instance /\ Orphan \notin Instance

VARIABLES
  oneInstance,  \* fixed: runOn
  lastConfig,   \* of each instance, None before the first that could be read
  started, stopped,
  returned,     \* stop() has returned
  timer,        \* what is left, None: not armed
  run,          \* the run of each instance
  holder,       \* of the lock
  jobCooldown,  \* what is left of it by a clock that is not ahead
  past,         \* instances whose owner has run before: its calls may still land
  spoilt,       \* history: such a call has shortened the latest cooldown
  since,        \* history: since startedAt of the last run that held the lock on
  faults

loop == <<lastConfig, started, stopped, returned, timer>>
lock == <<holder, jobCooldown, past, spoilt, since>>
jobVars == <<oneInstance, loop, run, lock, faults>>

\* hold: a run by schedule, which holds the lock on; age: since its startedAt, as far as Due;
\* struck: history, a late call has ended its lease; left: rows of the batch not yet begun;
\* active: rows being processed; more: the batch came back full and no row of it failed.
NoRun == [pc |-> "idle", hold |-> FALSE, age |-> 0, lost |-> FALSE, struck |-> FALSE,
          left |-> 0, active |-> 0, more |-> FALSE, extra |-> 0]

Idle(i) == run[i] = NoRun
Aborted(i) == stopped[i] \/ run[i].lost
Working(i) == run[i].pc \in {"loading", "rows", "reporting"}
Due == Interval - Slack
Smaller(a, b) == IF a < b THEN a ELSE b
Free(i) == holder = None /\ jobCooldown <= Ahead[i]

JobInit ==
  /\ oneInstance \in BOOLEAN
  /\ lastConfig = [i \in Instance |-> None] /\ timer = [i \in Instance |-> None]
  /\ started = [i \in Instance |-> FALSE] /\ stopped = started /\ returned = started
  /\ run = [i \in Instance |-> NoRun]
  /\ holder = None /\ jobCooldown = 0 /\ past = {} /\ spoilt = FALSE /\ since = Due /\ faults = 0

----------------------------------------------------------------------------
\* The loop

StartLoop(i) ==
  /\ ~started[i] /\ started' = [started EXCEPT ![i] = TRUE] /\ timer' = [timer EXCEPT ![i] = StartupDelay]
  /\ UNCHANGED <<oneInstance, lastConfig, stopped, returned, run, lock, faults>>

\* runOnce, as far as its first await.
Begin(i, scheduled) ==
  run' = [run EXCEPT ![i] = [NoRun EXCEPT !.pc = IF oneInstance THEN "acquiring" ELSE "loading", !.hold = oneInstance /\ scheduled]]

Config(i, read) == IF read = "unreadable" THEN lastConfig[i] ELSE read

\* A loop that was stopped before it was started gets here.
TickStopped(i) ==
  /\ timer[i] = 0 /\ stopped[i] /\ timer' = [timer EXCEPT ![i] = None]
  /\ UNCHANGED <<oneInstance, lastConfig, started, stopped, returned, run, lock, faults>>

TickUnconfigured(i) ==
  /\ timer[i] = 0 /\ ~stopped[i] /\ "unreadable" \in Setting /\ lastConfig[i] = None /\ timer' = [timer EXCEPT ![i] = Retry]
  /\ UNCHANGED <<oneInstance, lastConfig, started, stopped, returned, run, lock, faults>>

Scheduled(i) == timer' = [timer EXCEPT ![i] = IF oneInstance THEN CheckEvery ELSE Interval]

\* Mutant: the check for stop is missing.
TickAlways(i, read) ==
  /\ timer[i] = 0
  /\ Config(i, read) # None /\ lastConfig' = [lastConfig EXCEPT ![i] = Config(i, read)] /\ Scheduled(i)
  /\ IF Config(i, read) = "on" /\ Idle(i) THEN Begin(i, TRUE) ELSE UNCHANGED run
  /\ UNCHANGED <<oneInstance, started, stopped, returned, lock, faults>>

TickLoop(i, read) ==
  /\ timer[i] = 0 /\ ~stopped[i]
  /\ Config(i, read) # None /\ lastConfig' = [lastConfig EXCEPT ![i] = Config(i, read)] /\ Scheduled(i)
  /\ IF Config(i, read) = "on" /\ Idle(i) THEN Begin(i, TRUE) ELSE UNCHANGED run
  /\ UNCHANGED <<oneInstance, started, stopped, returned, lock, faults>>

\* Stopped, disabled or busy it does nothing.
RunNow(i) ==
  /\ ~stopped[i] /\ "on" \in Setting /\ Idle(i) /\ Begin(i, FALSE)
  /\ UNCHANGED <<oneInstance, loop, lock, faults>>

Stop(i) ==
  /\ ~stopped[i] /\ stopped' = [stopped EXCEPT ![i] = TRUE] /\ timer' = [timer EXCEPT ![i] = None]
  /\ UNCHANGED <<oneInstance, lastConfig, started, returned, run, lock, faults>>

\* stop() awaits `running`.
StopReturns(i) ==
  /\ stopped[i] /\ ~returned[i] /\ Idle(i) /\ returned' = [returned EXCEPT ![i] = TRUE]
  /\ UNCHANGED <<oneInstance, lastConfig, started, stopped, timer, run, lock, faults>>

----------------------------------------------------------------------------
\* A run

Over(i) == run' = [run EXCEPT ![i] = NoRun] /\ past' = past \cup {i}

LockAcquired(i) ==
  /\ run[i].pc = "acquiring" /\ Free(i) /\ holder' = i /\ run' = [run EXCEPT ![i].pc = "loading"]
  /\ UNCHANGED <<oneInstance, loop, jobCooldown, past, spoilt, since, faults>>

Busy(i) ==
  /\ run[i].pc = "acquiring" /\ ~Free(i) /\ run' = [run EXCEPT ![i] = NoRun]
  /\ UNCHANGED <<oneInstance, loop, lock, faults>>

\* The call fails, and may take the lock all the same, now or later.
AcquireFails(i) ==
  /\ run[i].pc = "acquiring" /\ Over(i) /\ holder' \in {holder} \cup (IF Free(i) THEN {Orphan} ELSE {})
  /\ UNCHANGED <<oneInstance, loop, jobCooldown, spoilt, since, faults>>

\* fn ends: withLock settles, or leaves alone a lock that was lost.
RunEnds(i, completed) ==
  IF oneInstance /\ ~run[i].lost
  THEN run' = [run EXCEPT ![i].pc = "freeing", ![i].hold = @ /\ completed /\ ~stopped[i]] /\ past' = past
  ELSE Over(i)

\* The workers take rows until there are none, or the signal fires.
Loads(i, n) ==
  LET begun == IF Aborted(i) THEN 0 ELSE Smaller(Parallel, n)
  IN /\ run[i].pc = "loading"
     /\ run' = [run EXCEPT ![i] = [@ EXCEPT !.pc = IF begun = 0 THEN "reporting" ELSE "rows",
                  !.active = begun, !.left = n - begun, !.more = n >= Limit]]
     /\ UNCHANGED <<oneInstance, loop, lock, faults>>

LoadFails(i) ==
  /\ run[i].pc = "loading" /\ RunEnds(i, FALSE)
  /\ UNCHANGED <<oneInstance, loop, holder, jobCooldown, spoilt, since, faults>>

\* Mutant: a worker goes on when the signal has fired.
NextRegardless(i) == run[i].left > 0

NextRow(i) == run[i].left > 0 /\ ~Aborted(i)

RowEnds(i, ok) ==
  /\ run[i].pc = "rows"
  /\ run' = [run EXCEPT ![i] = [run[i] EXCEPT !.more = @ /\ ok,
               !.left = IF NextRow(i) THEN @ - 1 ELSE @, !.active = IF NextRow(i) THEN @ ELSE @ - 1,
               !.pc = IF NextRow(i) \/ run[i].active > 1 THEN "rows" ELSE "reporting"]]
  /\ UNCHANGED <<oneInstance, loop, lock, faults>>

\* dataSetFinished has settled.
BatchEnds(i) ==
  /\ run[i].pc = "reporting"
  /\ IF Aborted(i) \/ ~run[i].more \/ run[i].extra >= MaxExtraRuns THEN RunEnds(i, TRUE)
     ELSE run' = [run EXCEPT ![i].pc = "loading", ![i].extra = @ + 1] /\ past' = past
  /\ UNCHANGED <<oneInstance, loop, holder, jobCooldown, spoilt, since, faults>>

\* A renew answers false, or two thirds of a TTL have passed.
LockLost(i) ==
  /\ oneInstance /\ Working(i) /\ ~run[i].lost /\ run' = [run EXCEPT ![i].lost = TRUE]
  /\ holder' \in IF holder = i THEN {Orphan, None} ELSE {holder}
  /\ UNCHANGED <<oneInstance, loop, jobCooldown, past, spoilt, since, faults>>

\* Mutant: a whole check of slack.
HoldForLess(i) == Interval - CheckEvery - run[i].age

\* What is left until holdUntil, by the clock of i.
HoldLeft(i) == Due - run[i].age

\* The hold or the release does nothing where the lease is no longer the owner's.
LockFreed(i) ==
  /\ run[i].pc = "freeing" /\ Over(i) /\ holder' = (IF holder = i THEN None ELSE holder)
  /\ IF holder = i /\ run[i].hold /\ HoldLeft(i) > 0
     THEN jobCooldown' = HoldLeft(i) + Ahead[i] /\ spoilt' = FALSE /\ since' = run[i].age
     ELSE UNCHANGED <<jobCooldown, spoilt, since>>
  /\ UNCHANGED <<oneInstance, loop, faults>>

FreeFails(i) ==
  /\ run[i].pc = "freeing" /\ Over(i) /\ holder' = (IF holder = i THEN Orphan ELSE holder)
  /\ UNCHANGED <<oneInstance, loop, jobCooldown, spoilt, since, faults>>

Fault == faults < MaxFaults /\ faults' = faults + 1

\* The owner of a cooldown has a run behind it: the one that held the lock on.
LateCallShortens ==
  /\ Fault /\ jobCooldown > 0 /\ jobCooldown' \in 0 .. jobCooldown - 1 /\ spoilt' = TRUE
  /\ UNCHANGED <<oneInstance, loop, run, holder, past, since>>

LateCallStrikes(i) ==
  /\ Fault /\ holder = i /\ i \in past /\ holder' = None /\ run' = [run EXCEPT ![i].struck = TRUE]
  /\ UNCHANGED <<oneInstance, loop, jobCooldown, past, spoilt, since>>

LateCallAcquires ==
  /\ Fault /\ past # {} /\ holder = None /\ jobCooldown = 0 /\ holder' = Orphan
  /\ UNCHANGED <<oneInstance, loop, run, jobCooldown, past, spoilt, since>>

----------------------------------------------------------------------------
\* The rest of the world

\* The TTL of a lease that nobody renews.
Expire ==
  /\ holder = Orphan /\ holder' = None
  /\ UNCHANGED <<oneInstance, loop, run, jobCooldown, past, spoilt, since, faults>>

\* An instance dies and another, with an owner of its own, takes its place.
InstanceCrashes(i) ==
  /\ Fault
  /\ run' = [run EXCEPT ![i] = NoRun] /\ past' = past \ {i}
  /\ holder' = (IF holder = i THEN Orphan ELSE holder)
  /\ lastConfig' = [lastConfig EXCEPT ![i] = None] /\ timer' = [timer EXCEPT ![i] = None]
  /\ started' = [started EXCEPT ![i] = FALSE] /\ stopped' = [stopped EXCEPT ![i] = FALSE]
  /\ returned' = [returned EXCEPT ![i] = FALSE]
  /\ UNCHANGED <<oneInstance, jobCooldown, spoilt, since>>

Elapse ==
  LET Less(t) == IF t \in {None, 0} THEN t ELSE t - 1
  IN /\ timer' = [i \in Instance |-> Less(timer[i])]
     /\ jobCooldown' = Less(jobCooldown) /\ since' = Smaller(since + 1, Due)
     /\ run' = [i \in Instance |-> IF run[i].hold THEN [run[i] EXCEPT !.age = Smaller(@ + 1, Due)] ELSE run[i]]
     /\ UNCHANGED <<oneInstance, lastConfig, started, stopped, returned, holder, past, spoilt, faults>>

Settles(i) ==
  \/ Busy(i) \/ LoadFails(i) \/ BatchEnds(i) \/ LockFreed(i) \/ FreeFails(i)
  \/ \E n \in 0..MaxRows : Loads(i, n)
  \/ \E ok \in BOOLEAN : RowEnds(i, ok)

JobNext ==
  \/ \E i \in Instance :
       \/ StartLoop(i) \/ TickStopped(i) \/ TickUnconfigured(i) \/ RunNow(i) \/ Stop(i) \/ StopReturns(i)
       \/ \E read \in Setting : TickLoop(i, read)
       \/ LockAcquired(i) \/ AcquireFails(i) \/ Settles(i) \/ LockLost(i) \/ LateCallStrikes(i) \/ InstanceCrashes(i)
  \/ LateCallShortens \/ LateCallAcquires \/ Expire \/ Elapse

\* Time passes, timers fire, leases expire; what the job and the store are asked settles in the
\* end; an acquire that could succeed does not fail, nor a value of the settings stay away, for ever.
JobFairness ==
  /\ WF_jobVars(Elapse) /\ WF_jobVars(Expire)
  /\ \A i \in Instance :
       /\ WF_jobVars(TickUnconfigured(i)) /\ WF_jobVars(Settles(i)) /\ SF_jobVars(LockAcquired(i))
       /\ \A read \in Setting : SF_jobVars(TickLoop(i, read))

JobSpec == JobInit /\ [][JobNext]_jobVars /\ JobFairness

----------------------------------------------------------------------------
\* Properties

\* stop() "stops new rows, waits for running ones and frees its locks" (GGJobRunner): after it
\* returned nothing of the instance runs or holds the lock, also when start() came after stop().
StoppedIsIdle == \A i \in Instance : returned[i] => Idle(i) /\ holder # i

\* A run whose lock was lost or whose runner stops begins no row and no batch more, wherever the
\* signal reached it (runBatches asks the signal at three places between awaits).
AbortedBeginsNothing ==
  [][\A i \in Instance :
       Aborted(i) /\ Working(i) /\ Working(i)' =>
         /\ run'[i].extra = run[i].extra
         /\ \/ run'[i].left = run[i].left /\ run'[i].active <= run[i].active
            \/ run[i].pc = "loading" /\ run'[i].active = 0]_jobVars

\* At most one run by schedule per interval over all instances, up to the slack and the skew of
\* the clocks: after a run that held the lock on, no instance begins one for any reason, whoever
\* crashes, fails or loses its lock meanwhile. Nothing but a late call on that very cooldown breaks
\* it, which one owner for all runs makes possible (GGJobRunner.runOnce).
HeldRunsAreSpaced ==
  [][\A i \in Instance :
       oneInstance /\ ~Working(i) /\ Working(i)' => since >= Due - MaxAhead \/ spoilt]_jobVars

\* Without that exception it fails.
RunsAreSpacedAnyway ==
  [][\A i \in Instance : oneInstance /\ ~Working(i) /\ Working(i)' => since >= Due - MaxAhead]_jobVars

\* The job goes on as long as an instance is up ("an unreadable setting must not
\* end the loop"), whatever was lost, failed or crashed before.
JobRecurs ==
  \A i \in Instance :
    <>[](started[i] /\ ~stopped[i]) => []<>(\E j \in Instance : Working(j))
=============================================================================

------------------------------ MODULE WithLock ------------------------------
(***************************************************************************)
(* withLock(): one lock id, the lease row that stands for it in the store, *)
(* and the calls of withLock that contend for it.                          *)
(*                                                                         *)
(* A run is one call of withLock. Its GGLock calls travel: the caller      *)
(* reads its own clock when it sends (":now" of the conditional write),    *)
(* the store executes the call later, the reply arrives later still, or    *)
(* the caller sees the call fail. GGInstanceLock is the case where the     *)
(* store executes a call in the instant it is sent.                        *)
(***************************************************************************)
EXTENDS Integers, FiniteSets

CONSTANTS
  Run,               \* calls of withLock
  Owner,             \* lock owners: one per call, or one per GGJobRunner
  NoOwner,           \* no row: nobody holds the lease
  OwnerOf,           \* the owner each run passes
  Skew,              \* how far the clock of each run is ahead of `now`
  MaxSkew,           \* bound of Skew
  Third,             \* the heartbeat period: a third of the TTL
  HoldFor,           \* holdUntil of each run, relative to its start (0: not set)
  AcquireMax,        \* bound of the wait for an acquire that succeeds
  Late,              \* bound of how late the heartbeat timer may fire
  FailedCallsLand,   \* may a call the caller saw fail still reach the store?
  MaxNow             \* bound of the clock

ASSUME ConstantsAssumption ==
  /\ OwnerOf \in [Run -> Owner] /\ NoOwner \notin Owner
  /\ MaxSkew \in Nat /\ Skew \in [Run -> 0..MaxSkew]
  /\ Third \in Nat \ {0} /\ HoldFor \in [Run -> Nat]
  /\ AcquireMax \in Nat /\ Late \in Nat /\ MaxNow \in Nat
  /\ FailedCallsLand \in BOOLEAN

VARIABLES
  now,        \* true time
  lease,      \* the row of the lock id
  calls,      \* GGLock calls on their way to the store, or replies on their way back
  pc,         \* where each run is
  startedAt,  \* the clock of the run when it sent acquire
  renewedAt,  \* withLock's renewedAt: when the last call that succeeded was sent
  beatAt,     \* when the heartbeat interval is due
  renewing,   \* withLock's renewing: when the awaited renew was sent
  aborted,    \* lost.signal.aborted
  settleBy,   \* when the wait for `renewing` before a hold gives up
  cooldown    \* history: the holdUntil of the latest hold that was granted, 0
              \* once a call that nobody waits for any more has changed the row

vars == <<now, lease, calls, pc, startedAt, renewedAt, beatAt, renewing,
          aborted, settleBy, cooldown>>
local == <<pc, startedAt, renewedAt, beatAt, renewing, aborted, settleBy>>

Ttl == 3 * Third
NotSent == -1

NoLease == [owner |-> NoOwner, until |-> 0]

Call == [run : Run, kind : {"acquire", "renew", "hold", "release"},
         at : Nat, until : Nat, reply : {"none", "yes", "no"}]

Clock(r) == now + Skew[r]
HoldUntil(r) == startedAt[r] + HoldFor[r]

TypeOK ==
  /\ now \in Nat
  /\ lease \in [owner : Owner \cup {NoOwner}, until : Nat]
  /\ calls \in SUBSET Call
  /\ pc \in [Run -> {"idle", "acquiring", "running", "settling", "freeing",
                     "over", "crashed"}]
  /\ startedAt \in [Run -> Nat] /\ renewedAt \in [Run -> Nat]
  /\ beatAt \in [Run -> Nat] /\ settleBy \in [Run -> Nat]
  /\ renewing \in [Run -> Nat \cup {NotSent}]
  /\ aborted \in [Run -> BOOLEAN]
  /\ cooldown \in Nat

Init ==
  /\ now = 0 /\ lease = NoLease /\ calls = {} /\ cooldown = 0
  /\ pc = [r \in Run |-> "idle"]
  /\ startedAt = [r \in Run |-> 0] /\ renewedAt = [r \in Run |-> 0]
  /\ beatAt = [r \in Run |-> 0] /\ settleBy = [r \in Run |-> 0]
  /\ renewing = [r \in Run |-> NotSent]
  /\ aborted = [r \in Run |-> FALSE]

-----------------------------------------------------------------------------
(* The store: each call is one atomic conditional write.                   *)

Sent(r, kind, until) ==
  [run |-> r, kind |-> kind, at |-> Clock(r), until |-> until, reply |-> "none"]

\* The caller is still waiting for this call; a reply nobody awaits vanishes.
Awaited(c) ==
  \/ c.kind = "acquire" /\ pc[c.run] = "acquiring"
  \/ c.kind = "renew" /\ renewing[c.run] = c.at
  \/ c.kind \in {"hold", "release"} /\ pc[c.run] = "freeing"

\* Its run saw it fail, has ended or died, or has waited a TTL for it.
Strays(c) ==
  \/ ~Awaited(c) \/ pc[c.run] = "over"
  \/ c.kind = "renew" /\ c.until <= Clock(c.run)

\* What stands of the cooldown when c changes the row.
Standing(c) ==
  IF Strays(c) THEN 0 ELSE IF c.kind = "hold" THEN c.until ELSE cooldown

Reply(c, ok) ==
  (calls \ {c}) \cup
  (IF Awaited(c) THEN {[c EXCEPT !.reply = IF ok THEN "yes" ELSE "no"]} ELSE {})

IsFree(at) == lease.until <= at
IsHeldBy(o, at) == lease.owner = o /\ lease.until > at

\* Mutant: the put lost its condition.
ServeAcquireAlways(c) ==
  /\ c.kind = "acquire" /\ c.reply = "none"
  /\ calls' = Reply(c, TRUE)
  /\ lease' = [owner |-> OwnerOf[c.run], until |-> c.until]
  /\ UNCHANGED <<now, local, cooldown>>

ServeAcquire(c) ==
  /\ c.kind = "acquire" /\ c.reply = "none"
  /\ calls' = Reply(c, IsFree(c.at))
  /\ lease' = IF IsFree(c.at)
              THEN [owner |-> OwnerOf[c.run], until |-> c.until] ELSE lease
  /\ UNCHANGED <<now, local, cooldown>>

\* Mutant: a renew adds its TTL to what is left of the lease.
ServeRenewAdds(c) ==
  /\ c.kind \in {"renew", "hold"} /\ c.reply = "none"
  /\ calls' = Reply(c, IsHeldBy(OwnerOf[c.run], c.at))
  /\ lease' = IF IsHeldBy(OwnerOf[c.run], c.at)
              THEN [lease EXCEPT !.until = @ + c.until - c.at] ELSE lease
  /\ cooldown' = IF IsHeldBy(OwnerOf[c.run], c.at) THEN Standing(c) ELSE cooldown
  /\ UNCHANGED <<now, local>>

ServeRenew(c) ==
  /\ c.kind \in {"renew", "hold"} /\ c.reply = "none"
  /\ calls' = Reply(c, IsHeldBy(OwnerOf[c.run], c.at))
  /\ lease' = IF IsHeldBy(OwnerOf[c.run], c.at)
              THEN [lease EXCEPT !.until = c.until] ELSE lease
  /\ cooldown' = IF IsHeldBy(OwnerOf[c.run], c.at) THEN Standing(c) ELSE cooldown
  /\ UNCHANGED <<now, local>>

ServeRelease(c) ==
  /\ c.kind = "release" /\ c.reply = "none"
  /\ calls' = Reply(c, lease.owner = OwnerOf[c.run])
  /\ lease' = IF lease.owner = OwnerOf[c.run] THEN NoLease ELSE lease
  /\ cooldown' = IF lease.owner = OwnerOf[c.run] THEN Standing(c) ELSE cooldown
  /\ UNCHANGED <<now, local>>

-----------------------------------------------------------------------------
(* withLock.                                                               *)

Ended == {"idle", "over"}

\* The runs of one owner follow each other: JobLoop starts none while one runs,
\* and the owner of a process that crashed is never used again.
Start(r) ==
  /\ pc[r] = "idle"
  /\ \A q \in Run \ {r} : OwnerOf[q] = OwnerOf[r] => pc[q] \in Ended
  /\ pc' = [pc EXCEPT ![r] = "acquiring"]
  /\ startedAt' = [startedAt EXCEPT ![r] = Clock(r)]
  /\ renewedAt' = [renewedAt EXCEPT ![r] = Clock(r)]
  /\ calls' = calls \cup {Sent(r, "acquire", Clock(r) + Ttl)}
  /\ UNCHANGED <<now, lease, beatAt, renewing, aborted, settleBy, cooldown>>

\* BUSY, or the heartbeat is armed and fn starts.
Acquired(r, c) ==
  /\ c.run = r /\ c.kind = "acquire" /\ c.reply # "none"
  /\ pc[r] = "acquiring"
  /\ calls' = calls \ {c}
  /\ pc' = [pc EXCEPT ![r] = IF c.reply = "yes" THEN "running" ELSE "over"]
  /\ beatAt' = IF c.reply = "yes" THEN [beatAt EXCEPT ![r] = Clock(r) + Third]
                                  ELSE beatAt
  /\ UNCHANGED <<now, lease, startedAt, renewedAt, renewing, aborted,
                 settleBy, cooldown>>

Live(r) == pc[r] = "running" /\ ~aborted[r]

\* Mutant: the boundary itself still renews.
OverdueStrictly(r) == Clock(r) - renewedAt[r] > 2 * Third

Overdue(r) == Clock(r) - renewedAt[r] >= 2 * Third

\* The heartbeat finds that two thirds of a TTL passed: lose().
BeatLoses(r) ==
  /\ Live(r) /\ Clock(r) >= beatAt[r] /\ Overdue(r)
  /\ aborted' = [aborted EXCEPT ![r] = TRUE]
  /\ UNCHANGED <<now, lease, calls, pc, startedAt, renewedAt, beatAt, renewing,
                 settleBy, cooldown>>

BeatRenews(r) ==
  /\ Live(r) /\ Clock(r) >= beatAt[r] /\ ~Overdue(r)
  /\ beatAt' = [beatAt EXCEPT ![r] = Clock(r) + Third]
  /\ IF renewing[r] # NotSent THEN UNCHANGED <<calls, renewing>>
     ELSE /\ calls' = calls \cup {Sent(r, "renew", Clock(r) + Ttl)}
          /\ renewing' = [renewing EXCEPT ![r] = Clock(r)]
  /\ UNCHANGED <<now, lease, pc, startedAt, renewedAt, aborted, settleBy, cooldown>>

\* `done` is not set yet, so a renew that answers false still loses the lock.
NotDone(r) == pc[r] \in {"running", "settling"}

Renewed(r, c) ==
  /\ c.run = r /\ c.kind = "renew" /\ c.reply # "none" /\ renewing[r] = c.at
  /\ calls' = calls \ {c}
  /\ renewing' = [renewing EXCEPT ![r] = NotSent]
  /\ renewedAt' = IF c.reply = "yes" THEN [renewedAt EXCEPT ![r] = c.at]
                                     ELSE renewedAt
  /\ aborted' = IF c.reply = "no" /\ NotDone(r)
                THEN [aborted EXCEPT ![r] = TRUE] ELSE aborted
  /\ UNCHANGED <<now, lease, pc, startedAt, beatAt, settleBy, cooldown>>

\* `done = true`, then hold, release, or nothing when the lock was lost.
Finish(r, hold) ==
  IF aborted[r]
  THEN /\ pc' = [pc EXCEPT ![r] = "over"]
       /\ calls' = calls
  ELSE /\ pc' = [pc EXCEPT ![r] = "freeing"]
       /\ calls' = calls \cup
            {IF hold /\ HoldUntil(r) > Clock(r)
             THEN Sent(r, "hold", HoldUntil(r))
             ELSE Sent(r, "release", 0)}

\* Mutant: the hold does not wait for the renew in flight.
FnEndsUnsettled(r, completed) ==
  /\ pc[r] = "running"
  /\ Finish(r, completed /\ HoldFor[r] > 0)
  /\ UNCHANGED <<now, lease, startedAt, renewedAt, beatAt, renewing, aborted,
                 settleBy, cooldown>>

\* fn settled: `completed` unless it threw or the caller's own signal aborted.
FnEnds(r, completed) ==
  LET hold == completed /\ HoldFor[r] > 0 /\ HoldUntil(r) > Clock(r)
  IN  /\ pc[r] = "running"
      /\ IF hold /\ renewing[r] # NotSent
         THEN /\ pc' = [pc EXCEPT ![r] = "settling"]
              /\ settleBy' = [settleBy EXCEPT ![r] = Clock(r) + Ttl]
              /\ calls' = calls
         ELSE Finish(r, hold) /\ settleBy' = settleBy
      /\ UNCHANGED <<now, lease, startedAt, renewedAt, beatAt, renewing,
                     aborted, cooldown>>

\* The renew in flight settled, or a TTL passed.
Settled(r) ==
  /\ pc[r] = "settling"
  /\ renewing[r] = NotSent \/ Clock(r) >= settleBy[r]
  /\ Finish(r, TRUE)
  /\ UNCHANGED <<now, lease, startedAt, renewedAt, beatAt, renewing, aborted,
                 settleBy, cooldown>>

\* The hold or the release answered: withLock returns.
Freed(r, c) ==
  /\ c.run = r /\ c.kind \in {"hold", "release"} /\ c.reply # "none"
  /\ pc[r] = "freeing"
  /\ calls' = calls \ {c}
  /\ pc' = [pc EXCEPT ![r] = "over"]
  /\ UNCHANGED <<now, lease, startedAt, renewedAt, beatAt, renewing, aborted,
                 settleBy, cooldown>>

-----------------------------------------------------------------------------
(* The world: failing calls, crashes, time.                                *)

\* The caller sees an awaited call fail: acquire rejects withLock, a renew is
\* logged and forgotten, a hold or a release is logged and withLock returns.
CallFails(r, c) ==
  /\ c.run = r /\ Awaited(c)
  /\ calls' = IF FailedCallsLand /\ c.reply = "none" THEN calls ELSE calls \ {c}
  /\ pc' = IF c.kind = "renew" THEN pc ELSE [pc EXCEPT ![r] = "over"]
  /\ renewing' = IF c.kind = "renew" THEN [renewing EXCEPT ![r] = NotSent]
                                     ELSE renewing
  /\ UNCHANGED <<now, lease, startedAt, renewedAt, beatAt, aborted, settleBy,
                 cooldown>>

\* The process dies; the calls it sent may still reach the store.
Crash(r) ==
  /\ pc[r] \notin {"idle", "over", "crashed"}
  /\ pc' = [pc EXCEPT ![r] = "crashed"]
  /\ renewing' = [renewing EXCEPT ![r] = NotSent]
  /\ UNCHANGED <<now, lease, calls, startedAt, renewedAt, beatAt, aborted,
                 settleBy, cooldown>>

\* Time passes, but not past the heartbeat of a live run by more than Late, nor
\* past AcquireMax of a run still waiting to acquire.
Tick ==
  /\ now < MaxNow
  /\ \A r \in Run : Live(r) => Clock(r) < beatAt[r] + Late
  /\ \A r \in Run : pc[r] = "acquiring" => Clock(r) < startedAt[r] + AcquireMax
  /\ now' = now + 1
  /\ UNCHANGED <<lease, calls, local, cooldown>>

Next ==
  \/ \E r \in Run :
       \/ Start(r) \/ BeatLoses(r) \/ BeatRenews(r) \/ Settled(r) \/ Crash(r)
       \/ \E completed \in BOOLEAN : FnEnds(r, completed)
       \/ \E c \in calls : \/ Acquired(r, c) \/ Renewed(r, c)
                           \/ Freed(r, c) \/ CallFails(r, c)
  \/ \E c \in calls : ServeAcquire(c) \/ ServeRenew(c) \/ ServeRelease(c)
  \/ Tick

Spec == Init /\ [][Next]_vars

-----------------------------------------------------------------------------
(* What the properties below need: each run has an owner of its own, as    *)
(* withLock arranges when none is passed, and the waits that the code does *)
(* not bound stay short against the heartbeat period.                      *)

DistinctOwners == \A r, q \in Run : OwnerOf[r] = OwnerOf[q] => r = q
Timing == AcquireMax + 2 * Late + MaxSkew < Third

(* Properties.                                                             *)

\* A run whose signal has not been aborted holds a lease that no clock finds
\* expired: fn never works under a lease someone else may take, although the
\* row is read and renewed only every ttl/3.
LiveRunHoldsLease ==
  \A r \in Run : Live(r) => /\ lease.owner = OwnerOf[r]
                            /\ lease.until > now + MaxSkew

\* Two runs are never both at work un-aborted, whatever crashed, failed, was
\* delayed or was taken over in between.
LiveRunsExclude ==
  \A r, q \in Run : Live(r) /\ Live(q) => r = q

\* holdUntil is a cooldown, for the owner of the hold too: once it was granted
\* the row covers it, so no acquire succeeds before then (README of the lock
\* package), whatever owners the runs have. Nothing but a call that its run has
\* given up waiting for can cut it short, see Strays.
CooldownKept ==
  cooldown > now + MaxSkew => lease.until >= cooldown

\* Without that exception it fails where a call that failed may land, and where
\* runs share an owner.
CooldownNeverCut ==
  [][cooldown > now + MaxSkew => lease'.until >= cooldown]_vars

\* A holder that dies locks the others out for at most a TTL, or until the
\* holdUntil it asked for; renewals do not add up.
LockoutBounded ==
  \/ lease.until <= now + MaxSkew + Ttl
  \/ \E r \in Run : /\ HoldFor[r] > 0 /\ lease.owner = OwnerOf[r]
                    /\ lease.until = HoldUntil(r)

\* withLock implements the abstract lock: a run works while its signal is intact.
StageOf(r) ==
  IF pc[r] \in {"idle", "acquiring"} THEN "waiting"
  ELSE IF Live(r) THEN "working" ELSE "done"

Stage == [r \in Run |-> StageOf(r)]

Exclusive == INSTANCE ExclusiveRun WITH stage <- Stage

\* fn runs at most once per call and never beside another un-aborted fn, and a run
\* whose signal was aborted does not come back, step for step as in ExclusiveRun.
ImplementsExclusiveRun == Exclusive!Spec
=============================================================================

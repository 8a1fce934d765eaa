--------------------------- MODULE WithLockProofs ---------------------------
(***************************************************************************)
(* Proofs about WithLock, for any number of runs and any length of the     *)
(* TTL: the type invariant, that a run whose signal is not aborted holds   *)
(* the lease, hence that two such runs never overlap, and how long a lease *)
(* and a cooldown last. Then about JobRunner, which relies on the lease.   *)
(***************************************************************************)
EXTENDS WithLock, JobRunner, TLAPS

\* Clocks only move forward, and a lease asked for ends a TTL after the asking.
CallsOK ==
  \A c \in calls : /\ c.at <= Clock(c.run)
                   /\ c.kind \in {"acquire", "renew"} => c.until = c.at + Ttl

CallsOf(r) == {c \in calls : c.run = r}

IdleOK(r) ==
  pc[r] = "idle" => CallsOf(r) = {} /\ ~aborted[r] /\ renewing[r] = NotSent

\* One acquire is out; once it succeeded nobody can take the lease.
AcquiringOK(r) ==
  pc[r] = "acquiring" =>
    /\ ~aborted[r] /\ renewing[r] = NotSent
    /\ renewedAt[r] = startedAt[r]
    /\ startedAt[r] <= Clock(r) /\ Clock(r) <= startedAt[r] + AcquireMax
    /\ \A c, d \in CallsOf(r) : c = d
    /\ \A c \in CallsOf(r) :
         /\ c.kind = "acquire" /\ c.at = startedAt[r]
         /\ c.reply = "yes" => /\ lease.owner = OwnerOf[r]
                               /\ lease.until >= startedAt[r] + Ttl

\* The next beat is either the first since the last success, and will renew, or
\* it is the second and will lose.
BeatOK(r) ==
  \/ /\ renewedAt[r] + Third <= beatAt[r]
     /\ beatAt[r] <= renewedAt[r] + Third + AcquireMax
  \/ /\ renewedAt[r] + 2 * Third <= beatAt[r]
     /\ beatAt[r] <= renewedAt[r] + 2 * Third + AcquireMax + Late

LiveOK(r) ==
  Live(r) =>
    /\ lease.owner = OwnerOf[r] /\ lease.until >= renewedAt[r] + Ttl
    /\ BeatOK(r) /\ Clock(r) <= beatAt[r] + Late
    /\ \A c, d \in CallsOf(r) : c = d
    /\ \A c \in CallsOf(r) :
         /\ c.kind = "renew" /\ beatAt[r] = c.at + Third
         /\ c.at >= renewedAt[r] + Third
         /\ c.reply = "yes" => lease.until >= c.at + Ttl

RunOK(r) == IdleOK(r) /\ AcquiringOK(r) /\ LiveOK(r)

IInv == CallsOK /\ \A r \in Run : RunOK(r)

-----------------------------------------------------------------------------

\* Every reachable state is well typed.
THEOREM TypeCorrect == Spec => []TypeOK
<1>1. Init => TypeOK
  BY ConstantsAssumption DEF Init, TypeOK, NoLease, NotSent
<1>2. TypeOK /\ [Next]_vars => TypeOK'
  <2> SUFFICES ASSUME TypeOK, [Next]_vars PROVE TypeOK'
    OBVIOUS
  <2> USE ConstantsAssumption DEF TypeOK
  <2>0. \A r \in Run : Clock(r) \in Nat /\ HoldUntil(r) \in Nat /\ Ttl \in Nat
    BY DEF Clock, HoldUntil, Ttl
  <2>1. ASSUME NEW r \in Run, Start(r) PROVE TypeOK'
    BY <2>0, <2>1 DEF Start, Sent, Call
  <2>2. ASSUME NEW r \in Run, BeatLoses(r) PROVE TypeOK'
    BY <2>0, <2>2 DEF BeatLoses
  <2>3. ASSUME NEW r \in Run, BeatRenews(r) PROVE TypeOK'
    BY <2>0, <2>3 DEF BeatRenews, Sent, Call
  <2>5. ASSUME NEW r \in Run, Settled(r) PROVE TypeOK'
    BY <2>0, <2>5 DEF Settled, Finish, Sent, Call
  <2>6. ASSUME NEW r \in Run, Crash(r) PROVE TypeOK'
    BY <2>6 DEF Crash
  <2>7. ASSUME NEW r \in Run, NEW completed \in BOOLEAN, FnEnds(r, completed)
        PROVE TypeOK'
    BY <2>0, <2>7 DEF FnEnds, Finish, Sent, Call
  <2>8. ASSUME NEW r \in Run, NEW c \in calls, Acquired(r, c) PROVE TypeOK'
    BY <2>0, <2>8 DEF Acquired
  <2>9. ASSUME NEW r \in Run, NEW c \in calls, Renewed(r, c) PROVE TypeOK'
    BY <2>9 DEF Renewed, Call
  <2>10. ASSUME NEW r \in Run, NEW c \in calls, Freed(r, c) PROVE TypeOK'
    BY <2>10 DEF Freed
  <2>11. ASSUME NEW r \in Run, NEW c \in calls, CallFails(r, c) PROVE TypeOK'
    BY <2>11 DEF CallFails
  <2>12. ASSUME NEW c \in calls
         PROVE /\ c.run \in Run /\ c.at \in Nat /\ c.until \in Nat
               /\ c \in Call
               /\ [c EXCEPT !.reply = "yes"] \in Call /\ [c EXCEPT !.reply = "no"] \in Call
    BY DEF Call
  <2>13. ASSUME NEW c \in calls, ServeAcquire(c) PROVE TypeOK'
    <3>1. calls' \in SUBSET Call
      BY <2>12, <2>13 DEF ServeAcquire, Reply, IsFree
    <3>2. lease' \in [owner : Owner \cup {NoOwner}, until : Nat]
      BY <2>12, <2>13 DEF ServeAcquire
    <3> QED
      BY <2>13, <3>1, <3>2 DEF ServeAcquire, local
  <2>14. ASSUME NEW c \in calls, ServeRenew(c) PROVE TypeOK'
    <3>1. calls' \in SUBSET Call
      BY <2>12, <2>14 DEF ServeRenew, Reply, IsHeldBy
    <3>2. lease' \in [owner : Owner \cup {NoOwner}, until : Nat]
      BY <2>12, <2>14 DEF ServeRenew
    <3>3. cooldown' \in Nat
      BY <2>12, <2>14 DEF ServeRenew, Standing
    <3> QED
      BY <2>14, <3>1, <3>2, <3>3 DEF ServeRenew, local
  <2>15. ASSUME NEW c \in calls, ServeRelease(c) PROVE TypeOK'
    <3>1. calls' \in SUBSET Call
      BY <2>12, <2>15 DEF ServeRelease, Reply
    <3>2. lease' \in [owner : Owner \cup {NoOwner}, until : Nat]
      BY <2>15 DEF ServeRelease, NoLease
    <3>3. cooldown' \in Nat
      BY <2>12, <2>15 DEF ServeRelease, Standing
    <3> QED
      BY <2>15, <3>1, <3>2, <3>3 DEF ServeRelease, local
  <2>16. CASE Tick
    BY <2>16 DEF Tick, local
  <2>17. CASE UNCHANGED vars
    BY <2>17 DEF vars
  <2> QED
    BY <2>1, <2>2, <2>3, <2>5, <2>6, <2>7, <2>8, <2>9, <2>10, <2>11, <2>13,
       <2>14, <2>15, <2>16, <2>17 DEF Next
<1> QED
  BY <1>1, <1>2, PTL DEF Spec

-----------------------------------------------------------------------------
(* The inductive step, action by action. A lease that a run relies on is   *)
(* ahead of every clock, so no acquire takes it; and owners are distinct,  *)
(* so no other run renews or empties it.                                   *)

\* A run that relies on the lease: it is at work, or its acquire succeeded.
Relies(r) ==
  \/ Live(r)
  \/ pc[r] = "acquiring" /\ \E c \in CallsOf(r) : c.reply = "yes"

LEMMA RelianceIsSafe ==
  ASSUME TypeOK, IInv, Timing, NEW r \in Run, Relies(r)
  PROVE  lease.owner = OwnerOf[r] /\ lease.until > now + MaxSkew
<1> USE ConstantsAssumption
<1>1. /\ now \in Nat /\ startedAt[r] \in Nat /\ renewedAt[r] \in Nat
      /\ beatAt[r] \in Nat /\ lease.until \in Nat /\ Skew[r] \in 0..MaxSkew
  BY DEF TypeOK
<1>2. RunOK(r)
  BY DEF IInv
<1>3. CASE Live(r)
  BY <1>1, <1>2, <1>3 DEF RunOK, LiveOK, BeatOK, Timing, Ttl, Clock
<1>4. CASE pc[r] = "acquiring" /\ \E c \in CallsOf(r) : c.reply = "yes"
  <2>1. lease.owner = OwnerOf[r] /\ lease.until >= startedAt[r] + Ttl
    BY <1>2, <1>4 DEF RunOK, AcquiringOK
  <2>2. startedAt[r] <= Clock(r) /\ Clock(r) <= startedAt[r] + AcquireMax
    BY <1>2, <1>4 DEF RunOK, AcquiringOK
  <2> QED
    BY <1>1, <2>1, <2>2 DEF Timing, Ttl, Clock
<1> QED
  BY <1>3, <1>4 DEF Relies

\* Fields and clocks have their types.
LEMMA Fields ==
  ASSUME TypeOK
  PROVE  /\ now \in Nat /\ lease.until \in Nat
         /\ Third \in Nat \ {0} /\ AcquireMax \in Nat /\ Late \in Nat
         /\ MaxSkew \in Nat
         /\ \A r \in Run : /\ Skew[r] \in 0..MaxSkew /\ Clock(r) \in Nat
                            /\ startedAt[r] \in Nat /\ renewedAt[r] \in Nat
                            /\ beatAt[r] \in Nat /\ HoldFor[r] \in Nat
         /\ \A c \in calls : /\ c.run \in Run /\ c.at \in Nat /\ c.until \in Nat
                              /\ c \in Call
BY ConstantsAssumption DEF TypeOK, Call, Clock

\* What the store does to the lease and to the calls of one run.
LEMMA ServeStep ==
  ASSUME TypeOK, IInv, Timing, DistinctOwners, NEW c \in calls,
         ServeAcquire(c) \/ ServeRenew(c) \/ ServeRelease(c)
  PROVE  IInv'
<1> USE Fields
<1>1. /\ calls' = calls \ {c} \/ \E v \in {"yes", "no"} :
                        calls' = (calls \ {c}) \cup {[c EXCEPT !.reply = v]}
      /\ UNCHANGED <<now, pc, startedAt, renewedAt, beatAt, renewing, aborted>>
  BY DEF ServeAcquire, ServeRenew, ServeRelease, Reply, local
<1>2. CallsOK'
  BY <1>1 DEF CallsOK, IInv, Clock, Call
<1>3. ASSUME NEW r \in Run, c.run # r PROVE RunOK(r)'
  <2>1. RunOK(r) /\ CallsOK
    BY DEF IInv
  <2>2. CallsOf(r)' = CallsOf(r)
    BY <1>1, <1>3 DEF CallsOf, Call
  <2>3. Relies(r) => lease' = lease
    <3> SUFFICES ASSUME Relies(r) PROVE lease' = lease
      OBVIOUS
    <3>1. lease.owner = OwnerOf[r] /\ lease.until > now + MaxSkew
      BY RelianceIsSafe
    <3>2. OwnerOf[c.run] # OwnerOf[r]
      BY <1>3 DEF DistinctOwners
    <3>3. ~IsFree(c.at)
      BY <2>1, <3>1 DEF CallsOK, Clock, IsFree
    <3> QED
      BY <3>1, <3>2, <3>3 DEF ServeAcquire, ServeRenew, ServeRelease, IsHeldBy
  <2>4. IdleOK(r)'
    BY <1>1, <2>1, <2>2 DEF RunOK, IdleOK
  <2>5. AcquiringOK(r)'
    BY <1>1, <2>1, <2>2, <2>3 DEF RunOK, AcquiringOK, Relies, Clock
  <2>6. LiveOK(r)'
    BY <1>1, <2>1, <2>2, <2>3 DEF RunOK, LiveOK, BeatOK, Relies, Live, Clock
  <2> QED
    BY <2>4, <2>5, <2>6 DEF RunOK
<1>4. ASSUME NEW r \in Run, c.run = r PROVE RunOK(r)'
  <2>1. RunOK(r) /\ CallsOK /\ c \in CallsOf(r)
    BY <1>4 DEF IInv, CallsOf
  <2>2. IdleOK(r)'
    BY <1>1, <2>1 DEF RunOK, IdleOK
  <2>3. ASSUME pc[r] = "acquiring" PROVE AcquiringOK(r)'
    <3>1. c.kind = "acquire" /\ c.at = startedAt[r] /\ CallsOf(r) = {c}
      BY <2>1, <2>3 DEF RunOK, AcquiringOK
    <3>2. ServeAcquire(c) /\ c.until = startedAt[r] + Ttl
      BY <2>1, <3>1 DEF ServeAcquire, ServeRenew, ServeRelease, CallsOK
    <3>3. \A d \in CallsOf(r)' : d = [c EXCEPT !.reply = IF IsFree(c.at) THEN "yes" ELSE "no"]
      BY <1>4, <3>1, <3>2 DEF ServeAcquire, Reply, CallsOf, Call
    <3>4. IsFree(c.at) => lease' = [owner |-> OwnerOf[r], until |-> startedAt[r] + Ttl]
      BY <1>4, <3>2 DEF ServeAcquire
    <3>5. \A d \in CallsOf(r)' : /\ d.kind = "acquire" /\ d.at = startedAt[r]
                                 /\ d.reply = "yes" => IsFree(c.at)
      BY <3>1, <3>3 DEF Call
    <3>6. Ttl \in Nat
      BY DEF Ttl
    <3> QED
      BY <1>1, <2>1, <2>3, <3>3, <3>4, <3>5, <3>6 DEF RunOK, AcquiringOK, Clock
  <2>4. ASSUME Live(r) PROVE LiveOK(r)'
    <3>1. /\ c.kind = "renew" /\ beatAt[r] = c.at + Third
          /\ c.at >= renewedAt[r] + Third /\ CallsOf(r) = {c}
          /\ lease.owner = OwnerOf[r] /\ lease.until >= renewedAt[r] + Ttl
      BY <2>1, <2>4 DEF RunOK, LiveOK
    <3>2. ServeRenew(c) /\ c.until = c.at + Ttl /\ Ttl \in Nat
      BY <2>1, <3>1 DEF ServeAcquire, ServeRenew, ServeRelease, CallsOK, Ttl
    <3>3. \A d \in CallsOf(r)' : d = [c EXCEPT !.reply =
                 IF IsHeldBy(OwnerOf[c.run], c.at) THEN "yes" ELSE "no"]
      BY <1>4, <3>1, <3>2 DEF ServeRenew, Reply, CallsOf, Call
    <3>4. /\ lease'.owner = OwnerOf[r] /\ lease'.until >= renewedAt[r] + Ttl
          /\ IsHeldBy(OwnerOf[c.run], c.at) => lease'.until >= c.at + Ttl
      BY <1>4, <3>1, <3>2 DEF ServeRenew, TypeOK
    <3>5. \A d \in CallsOf(r)' : /\ d.kind = "renew" /\ d.at = c.at
                                 /\ d.reply = "yes" => IsHeldBy(OwnerOf[c.run], c.at)
      BY <3>1, <3>3 DEF Call
    <3> QED
      BY <1>1, <2>1, <2>4, <3>1, <3>3, <3>4, <3>5 DEF RunOK, LiveOK, BeatOK, Live, Clock
  <2> QED
    BY <1>1, <2>2, <2>3, <2>4 DEF RunOK, AcquiringOK, LiveOK, Live
<1> QED
  BY <1>2, <1>3, <1>4 DEF IInv

-----------------------------------------------------------------------------
(* The steps of a caller leave the lease and the other runs alone.         *)

\* A step of run r, seen from the others.
Frame(r) ==
  /\ lease' = lease /\ now' = now
  /\ \A q \in Run \ {r} : /\ pc'[q] = pc[q] /\ startedAt'[q] = startedAt[q]
                          /\ renewedAt'[q] = renewedAt[q] /\ beatAt'[q] = beatAt[q]
                          /\ renewing'[q] = renewing[q] /\ aborted'[q] = aborted[q]
                          /\ CallsOf(q)' = CallsOf(q)

LEMMA FrameStep ==
  ASSUME TypeOK, IInv, NEW r \in Run, Frame(r), CallsOK', RunOK(r)'
  PROVE  IInv'
<1>1. ASSUME NEW q \in Run \ {r} PROVE RunOK(q)'
  <2>1. RunOK(q)
    BY DEF IInv
  <2>2. IdleOK(q)'
    BY <2>1 DEF RunOK, IdleOK, Frame
  <2>3. AcquiringOK(q)'
    BY <2>1 DEF RunOK, AcquiringOK, Frame, Clock
  <2>4. LiveOK(q)'
    BY <2>1 DEF RunOK, LiveOK, BeatOK, Frame, Live, Clock
  <2> QED
    BY <2>2, <2>3, <2>4 DEF RunOK
<1> QED
  BY <1>1 DEF IInv

\* A run that is neither idle, nor acquiring, nor at work owes nothing.
LEMMA Unconcerned ==
  ASSUME NEW r \in Run, pc'[r] \notin {"idle", "acquiring"}, ~Live(r)'
  PROVE  RunOK(r)'
BY DEF RunOK, IdleOK, AcquiringOK, LiveOK

LEMMA StartStep ==
  ASSUME TypeOK, IInv, NEW r \in Run, Start(r)
  PROVE  IInv'
<1> USE Fields
<1> DEFINE c == Sent(r, "acquire", Clock(r) + Ttl)
<1>1. /\ c.run = r /\ c.kind = "acquire" /\ c.at = Clock(r)
      /\ c.until = Clock(r) + Ttl /\ c.reply = "none"
  BY DEF Sent
<1>2. RunOK(r) /\ CallsOK
  BY DEF IInv
<1>3. CallsOf(r)' = {c} /\ \A q \in Run \ {r} : CallsOf(q)' = CallsOf(q)
  BY <1>1, <1>2 DEF Start, RunOK, IdleOK, CallsOf
<1>4. Frame(r)
  BY <1>3 DEF Start, Frame, TypeOK
<1>5. CallsOK'
  BY <1>1, <1>2 DEF Start, CallsOK, Clock
<1>6. /\ pc'[r] = "acquiring" /\ startedAt'[r] = Clock(r) /\ renewedAt'[r] = Clock(r)
      /\ ~aborted'[r] /\ renewing'[r] = NotSent /\ Clock(r)' = Clock(r)
  BY <1>2 DEF Start, TypeOK, RunOK, IdleOK, Clock
<1>7. RunOK(r)'
  BY <1>1, <1>3, <1>6 DEF RunOK, IdleOK, AcquiringOK, LiveOK, Live
<1> QED
  BY <1>4, <1>5, <1>7, FrameStep

LEMMA AcquiredStep ==
  ASSUME TypeOK, IInv, NEW r \in Run, NEW c \in calls, Acquired(r, c)
  PROVE  IInv'
<1> USE Fields
<1>1. RunOK(r) /\ CallsOK /\ c \in CallsOf(r)
  BY DEF IInv, CallsOf, Acquired
<1>2. /\ CallsOf(r)' = {}
      /\ \A q \in Run \ {r} : CallsOf(q)' = CallsOf(q)
  BY <1>1 DEF Acquired, RunOK, AcquiringOK, CallsOf
<1>3. Frame(r)
  BY <1>2 DEF Acquired, Frame, TypeOK
<1>4. CallsOK'
  BY <1>1 DEF Acquired, CallsOK, Clock
<1>5. CASE c.reply = "yes"
  <2>1. /\ pc'[r] = "running" /\ beatAt'[r] = Clock(r) + Third
        /\ renewedAt'[r] = renewedAt[r] /\ aborted'[r] = aborted[r]
    BY <1>5 DEF Acquired, TypeOK
  <2>2. /\ lease.owner = OwnerOf[r] /\ lease.until >= renewedAt[r] + Ttl
        /\ renewedAt[r] <= Clock(r) /\ Clock(r) <= renewedAt[r] + AcquireMax
    BY <1>1, <1>5 DEF Acquired, RunOK, AcquiringOK
  <2>3. BeatOK(r)' /\ Clock(r)' <= beatAt'[r] + Late
    BY <2>1, <2>2, <1>3 DEF BeatOK, Frame, Clock
  <2>4. LiveOK(r)'
    BY <2>1, <2>2, <2>3, <1>2, <1>3 DEF LiveOK, Frame
  <2> QED
    BY <2>1, <2>4, <1>3, <1>4, FrameStep DEF RunOK, IdleOK, AcquiringOK
<1>6. CASE c.reply # "yes"
  <2>1. pc'[r] = "over"
    BY <1>6 DEF Acquired, TypeOK
  <2> QED
    BY <2>1, <1>3, <1>4, FrameStep, Unconcerned DEF Live
<1> QED
  BY <1>5, <1>6

LEMMA BeatLosesStep ==
  ASSUME TypeOK, IInv, NEW r \in Run, BeatLoses(r)
  PROVE  IInv'
<1>1. Frame(r) /\ pc'[r] = "running" /\ aborted'[r]
  BY DEF BeatLoses, Frame, TypeOK, CallsOf, Live
<1>2. CallsOK'
  BY DEF BeatLoses, IInv, CallsOK, Clock
<1> QED
  BY <1>1, <1>2, FrameStep, Unconcerned DEF Live

\* A beat that still renews is the first since the last success: no renew of
\* this run is out.
LEMMA BeatRenewsStep ==
  ASSUME TypeOK, IInv, NEW r \in Run, BeatRenews(r)
  PROVE  IInv'
<1> USE Fields
<1> DEFINE c == Sent(r, "renew", Clock(r) + Ttl)
<1>1. /\ c.run = r /\ c.kind = "renew" /\ c.at = Clock(r)
      /\ c.until = Clock(r) + Ttl /\ c.reply = "none"
  BY DEF Sent
<1>2. RunOK(r) /\ CallsOK /\ Live(r)
  BY DEF IInv, BeatRenews
<1>3. CallsOf(r) = {}
  <2> SUFFICES ASSUME NEW d \in CallsOf(r) PROVE FALSE
    OBVIOUS
  <2>1. d.at \in Nat
    BY DEF CallsOf
  <2>2. beatAt[r] = d.at + Third /\ d.at >= renewedAt[r] + Third
    BY <1>2 DEF RunOK, LiveOK
  <2> QED
    BY <2>1, <2>2 DEF BeatRenews, Overdue
<1>4. /\ CallsOf(r)' \subseteq {c}
      /\ \A q \in Run \ {r} : CallsOf(q)' = CallsOf(q)
  BY <1>1, <1>3 DEF BeatRenews, CallsOf
<1>5. Frame(r)
  BY <1>4 DEF BeatRenews, Frame, TypeOK
<1>6. CallsOK'
  BY <1>1, <1>2 DEF BeatRenews, CallsOK, Clock
<1>7. /\ pc'[r] = "running" /\ ~aborted'[r] /\ renewedAt'[r] = renewedAt[r]
      /\ beatAt'[r] = Clock(r) + Third /\ Clock(r)' = Clock(r)
  BY <1>2 DEF BeatRenews, TypeOK, Live, Clock
<1>8. /\ BeatOK(r) /\ Clock(r) >= beatAt[r] /\ Clock(r) <= beatAt[r] + Late
      /\ Clock(r) < renewedAt[r] + 2 * Third
  BY <1>2 DEF BeatRenews, Overdue, RunOK, LiveOK
<1>9. /\ Clock(r) >= renewedAt[r] + Third
      /\ Clock(r) <= renewedAt[r] + Third + AcquireMax + Late
  BY <1>8 DEF BeatOK
<1>10. BeatOK(r)'
  BY <1>7, <1>9 DEF BeatOK
<1>11. LiveOK(r)'
  BY <1>1, <1>2, <1>4, <1>5, <1>7, <1>9, <1>10 DEF LiveOK, RunOK, Frame
<1> QED
  BY <1>5, <1>6, <1>7, <1>11, FrameStep DEF RunOK, IdleOK, AcquiringOK

LEMMA RenewedStep ==
  ASSUME TypeOK, IInv, NEW r \in Run, NEW c \in calls, Renewed(r, c)
  PROVE  IInv'
<1> USE Fields
<1>1. RunOK(r) /\ CallsOK /\ c \in CallsOf(r)
  BY DEF IInv, CallsOf, Renewed
<1>2. /\ CallsOf(r)' = CallsOf(r) \ {c} /\ \A q \in Run \ {r} : CallsOf(q)' = CallsOf(q)
  BY DEF Renewed, CallsOf
<1>3. Frame(r)
  BY <1>2 DEF Renewed, Frame, TypeOK
<1>4. CallsOK'
  BY <1>1 DEF Renewed, CallsOK, Clock
<1>5. pc'[r] = pc[r] /\ pc[r] \notin {"idle", "acquiring"}
  BY <1>1 DEF Renewed, RunOK, IdleOK, AcquiringOK
<1>6. CASE Live(r)'
  <2>1. Live(r) /\ c.reply = "yes"
    BY <1>5, <1>6 DEF Renewed, Live, NotDone, TypeOK, Call
  <2>2. renewedAt'[r] = c.at /\ beatAt'[r] = beatAt[r] /\ c.at \in Nat
    BY <2>1 DEF Renewed, TypeOK
  <2>3. CallsOf(r)' = {}
    BY <1>1, <1>2, <2>1 DEF RunOK, LiveOK
  <2>4. /\ beatAt[r] = c.at + Third /\ lease.until >= c.at + Ttl
        /\ lease.owner = OwnerOf[r] /\ Clock(r) <= beatAt[r] + Late
    BY <1>1, <2>1 DEF RunOK, LiveOK
  <2>5. BeatOK(r)'
    BY <2>2, <2>4 DEF BeatOK
  <2>6. LiveOK(r)'
    BY <2>2, <2>3, <2>4, <2>5, <1>3 DEF LiveOK, Frame, Clock
  <2> QED
    BY <1>5, <2>6, <1>3, <1>4, FrameStep DEF RunOK, IdleOK, AcquiringOK
<1>7. CASE ~Live(r)'
  BY <1>5, <1>7, <1>3, <1>4, FrameStep, Unconcerned
<1> QED
  BY <1>6, <1>7

\* hold and release are sent when fn is over, and the run relies on nothing.
LEMMA FinishStep ==
  ASSUME TypeOK, IInv, NEW r \in Run, pc[r] \in {"running", "settling"},
         UNCHANGED <<now, lease, startedAt, renewedAt, beatAt, renewing, aborted>>,
         \/ calls' = calls
         \/ calls' = calls \cup {Sent(r, "hold", HoldUntil(r))}
         \/ calls' = calls \cup {Sent(r, "release", 0)},
         NEW p \in {"over", "freeing", "settling"}, pc' = [pc EXCEPT ![r] = p]
  PROVE  IInv'
<1> USE Fields
<1>1. Frame(r)
  BY DEF Frame, TypeOK, CallsOf, Sent
<1>2. CallsOK'
  BY DEF IInv, CallsOK, Sent, Clock
<1>3. pc'[r] \notin {"idle", "acquiring", "running"}
  BY DEF TypeOK
<1> QED
  BY <1>1, <1>2, <1>3, FrameStep, Unconcerned DEF Live

LEMMA FnEndsStep ==
  ASSUME TypeOK, IInv, NEW r \in Run, NEW completed \in BOOLEAN,
         FnEnds(r, completed)
  PROVE  IInv'
BY FinishStep DEF FnEnds, Finish

LEMMA SettledStep ==
  ASSUME TypeOK, IInv, NEW r \in Run, Settled(r)
  PROVE  IInv'
BY FinishStep DEF Settled, Finish

LEMMA FreedStep ==
  ASSUME TypeOK, IInv, NEW r \in Run, NEW c \in calls, Freed(r, c)
  PROVE  IInv'
<1>1. Frame(r) /\ pc'[r] = "over"
  BY DEF Freed, Frame, TypeOK, CallsOf
<1>2. CallsOK'
  BY DEF Freed, IInv, CallsOK, Clock
<1> QED
  BY <1>1, <1>2, FrameStep, Unconcerned DEF Live

LEMMA CallFailsStep ==
  ASSUME TypeOK, IInv, NEW r \in Run, NEW c \in calls, CallFails(r, c)
  PROVE  IInv'
<1> USE Fields
<1>1. RunOK(r) /\ CallsOK /\ c \in CallsOf(r)
  BY DEF IInv, CallsOf, CallFails
<1>2. /\ CallsOf(r)' \subseteq CallsOf(r)
      /\ \A q \in Run \ {r} : CallsOf(q)' = CallsOf(q)
  BY DEF CallFails, CallsOf
<1>3. Frame(r)
  BY <1>2 DEF CallFails, Frame, TypeOK
<1>4. CallsOK'
  BY <1>1 DEF CallFails, CallsOK, Clock
<1>5. CASE c.kind = "renew"
  <2>1. pc' = pc /\ aborted' = aborted /\ pc[r] \notin {"idle", "acquiring"}
    BY <1>1, <1>5 DEF CallFails, RunOK, IdleOK, AcquiringOK
  <2>2. LiveOK(r)'
    BY <1>1, <1>2, <1>3, <2>1 DEF RunOK, LiveOK, BeatOK, Live, CallFails, Clock
  <2> QED
    BY <2>1, <2>2, <1>3, <1>4, FrameStep DEF RunOK, IdleOK, AcquiringOK
<1>6. CASE c.kind # "renew"
  <2>1. pc'[r] = "over"
    BY <1>6 DEF CallFails, TypeOK
  <2> QED
    BY <2>1, <1>3, <1>4, FrameStep, Unconcerned DEF Live
<1> QED
  BY <1>5, <1>6

LEMMA CrashStep ==
  ASSUME TypeOK, IInv, NEW r \in Run, Crash(r)
  PROVE  IInv'
<1>1. Frame(r) /\ pc'[r] = "crashed"
  BY DEF Crash, Frame, TypeOK, CallsOf
<1>2. CallsOK'
  BY DEF Crash, IInv, CallsOK, Clock
<1> QED
  BY <1>1, <1>2, FrameStep, Unconcerned DEF Live

\* Time stops at the deadlines of a live run, so its lease stays ahead of it.
LEMMA TickStep ==
  ASSUME TypeOK, IInv, Tick
  PROVE  IInv'
<1> USE Fields
<1>1. \A r \in Run : Clock(r)' = Clock(r) + 1
  BY DEF Tick, Clock
<1>2. CallsOK'
  BY <1>1 DEF IInv, CallsOK, Tick
<1>3. ASSUME NEW r \in Run PROVE RunOK(r)'
  <2>1. RunOK(r)
    BY DEF IInv
  <2>2. CallsOf(r)' = CallsOf(r)
    BY DEF Tick, CallsOf
  <2>3. IdleOK(r)'
    BY <2>1, <2>2 DEF RunOK, IdleOK, Tick, local
  <2>4. AcquiringOK(r)'
    BY <1>1, <2>1, <2>2 DEF RunOK, AcquiringOK, Tick, local
  <2>5. LiveOK(r)'
    BY <1>1, <2>1, <2>2 DEF RunOK, LiveOK, BeatOK, Live, Tick, local
  <2> QED
    BY <2>3, <2>4, <2>5 DEF RunOK
<1> QED
  BY <1>2, <1>3 DEF IInv

-----------------------------------------------------------------------------

LEMMA InductiveInvariant ==
  ASSUME Timing, DistinctOwners
  PROVE  Spec => []IInv
<1>1. Init => IInv
  BY ConstantsAssumption
  DEF Init, IInv, CallsOK, RunOK, IdleOK, AcquiringOK, LiveOK, CallsOf, Live
<1>2. TypeOK /\ IInv /\ [Next]_vars => IInv'
  <2> SUFFICES ASSUME TypeOK, IInv, [Next]_vars PROVE IInv'
    OBVIOUS
  <2>1. CASE Tick
    BY <2>1, TickStep
  <2>2. CASE UNCHANGED vars
    BY <2>2 DEF vars, IInv, CallsOK, RunOK, IdleOK, AcquiringOK, LiveOK, BeatOK,
                CallsOf, Live, Clock
  <2>3. ASSUME NEW c \in calls, ServeAcquire(c) \/ ServeRenew(c) \/ ServeRelease(c)
        PROVE IInv'
    BY <2>3, ServeStep
  <2>4. ASSUME NEW r \in Run,
               \/ Start(r) \/ BeatLoses(r) \/ BeatRenews(r) \/ Settled(r) \/ Crash(r)
               \/ \E completed \in BOOLEAN : FnEnds(r, completed)
               \/ \E c \in calls : \/ Acquired(r, c) \/ Renewed(r, c)
                                   \/ Freed(r, c) \/ CallFails(r, c)
        PROVE IInv'
    BY <2>4, StartStep, BeatLosesStep, BeatRenewsStep, SettledStep, CrashStep,
       FnEndsStep, AcquiredStep, RenewedStep, FreedStep, CallFailsStep
  <2> QED
    BY <2>1, <2>2, <2>3, <2>4 DEF Next
<1> QED
  BY <1>1, <1>2, TypeCorrect, PTL DEF Spec

\* A run whose signal is not aborted holds a lease that no clock finds expired.
THEOREM LiveRunHoldsLeaseTheorem ==
  ASSUME Timing, DistinctOwners
  PROVE  Spec => []LiveRunHoldsLease
<1>1. TypeOK /\ IInv => LiveRunHoldsLease
  BY RelianceIsSafe DEF LiveRunHoldsLease, Relies
<1> QED
  BY <1>1, TypeCorrect, InductiveInvariant, PTL

\* withLock excludes: two runs are never both at work with their signals intact.
THEOREM LiveRunsExcludeTheorem ==
  ASSUME Timing, DistinctOwners
  PROVE  Spec => []LiveRunsExclude
<1>1. LiveRunHoldsLease => LiveRunsExclude
  BY DEF LiveRunHoldsLease, LiveRunsExclude, DistinctOwners
<1> QED
  BY <1>1, LiveRunHoldsLeaseTheorem, PTL

-----------------------------------------------------------------------------

\* Each step moves the stage of one run at most, and forward.
LEMMA StageStep ==
  ASSUME TypeOK, [Next]_vars, LiveRunsExclude'
  PROVE  [Exclusive!Next]_Stage
<1>0. Stage = [r \in Run |-> StageOf(r)] /\ Stage' = [r \in Run |-> StageOf(r)']
  BY DEF Stage
<1>1. ASSUME NEW r \in Run, \A q \in Run \ {r} : StageOf(q)' = StageOf(q),
             \/ StageOf(r)' = StageOf(r)
             \/ StageOf(r) = "waiting" /\ StageOf(r)' \in {"working", "done"}
             \/ StageOf(r) = "working" /\ StageOf(r)' = "done"
      PROVE  [Exclusive!Next]_Stage
  <2>1. Stage' = [Stage EXCEPT ![r] = StageOf(r)']
    BY <1>0, <1>1
  <2>2. CASE StageOf(r)' = StageOf(r)
    BY <1>0, <2>1, <2>2
  <2>3. CASE StageOf(r) = "waiting" /\ StageOf(r)' = "working"
    <3>1. \A q \in Run : StageOf(q)' = "working" => q = r
      BY <2>3 DEF StageOf, LiveRunsExclude
    <3>2. \A q \in Run : StageOf(q) # "working"
      BY <1>1, <2>3, <3>1
    <3> QED
      BY <1>0, <2>1, <2>3, <3>2 DEF Exclusive!Next, Exclusive!Begin
  <2>4. CASE StageOf(r) = "waiting" /\ StageOf(r)' = "done"
    BY <1>0, <2>1, <2>4 DEF Exclusive!Next, Exclusive!GiveUp
  <2>5. CASE StageOf(r) = "working" /\ StageOf(r)' = "done"
    BY <1>0, <2>1, <2>5 DEF Exclusive!Next, Exclusive!End
  <2> QED
    BY <1>1, <2>2, <2>3, <2>4, <2>5
<1>2. CASE UNCHANGED <<pc, aborted>>
  <2>1. \A r \in Run : StageOf(r)' = StageOf(r)
    BY <1>2 DEF StageOf, Live
  <2> QED
    BY <1>0, <2>1
<1>3. ASSUME NEW r \in Run,
             \/ Start(r) \/ BeatLoses(r) \/ Settled(r) \/ Crash(r)
             \/ \E completed \in BOOLEAN : FnEnds(r, completed)
             \/ \E c \in calls : \/ Acquired(r, c) \/ Renewed(r, c)
                                 \/ Freed(r, c) \/ CallFails(r, c)
      PROVE  [Exclusive!Next]_Stage
  <2>1. \A q \in Run \ {r} : pc'[q] = pc[q] /\ aborted'[q] = aborted[q]
    BY <1>3 DEF TypeOK, Start, BeatLoses, Settled, Crash, FnEnds, Finish, Acquired, Renewed,
                Freed, CallFails
  <2>2. \/ pc'[r] = pc[r] /\ (aborted[r] => aborted'[r])
        \/ pc[r] = "idle" /\ pc'[r] = "acquiring"
        \/ pc'[r] \notin {"idle", "acquiring", "running"}
        \/ pc[r] = "acquiring" /\ pc'[r] = "running"
    BY <1>3 DEF TypeOK, Start, BeatLoses, Settled, Crash, FnEnds, Finish, Acquired, Renewed,
                Freed, CallFails
  <2>3. \A q \in Run \ {r} : StageOf(q)' = StageOf(q)
    BY <2>1 DEF StageOf, Live
  <2>4. \/ StageOf(r)' = StageOf(r)
        \/ StageOf(r) = "waiting" /\ StageOf(r)' \in {"working", "done"}
        \/ StageOf(r) = "working" /\ StageOf(r)' = "done"
    BY <2>2 DEF StageOf, Live
  <2> QED
    BY <1>1, <2>3, <2>4
<1>4. ASSUME NEW r \in Run, BeatRenews(r) PROVE UNCHANGED <<pc, aborted>>
  BY <1>4 DEF BeatRenews
<1>5. ASSUME NEW c \in calls, ServeAcquire(c) \/ ServeRenew(c) \/ ServeRelease(c)
      PROVE UNCHANGED <<pc, aborted>>
  BY <1>5 DEF ServeAcquire, ServeRenew, ServeRelease, local
<1>6. Tick \/ UNCHANGED vars => UNCHANGED <<pc, aborted>>
  BY DEF Tick, vars, local
<1> QED
  BY <1>2, <1>3, <1>4, <1>5, <1>6 DEF Next

\* withLock is an implementation of the abstract lock.
THEOREM ImplementsExclusiveRunTheorem ==
  ASSUME Timing, DistinctOwners
  PROVE  Spec => ImplementsExclusiveRun
<1>1. Init => Exclusive!Init
  BY DEF Init, Exclusive!Init, Stage, StageOf
<1>2. TypeOK /\ LiveRunsExclude' /\ [Next]_vars => [Exclusive!Next]_Stage
  BY StageStep
<1> QED
  BY <1>1, <1>2, TypeCorrect, LiveRunsExcludeTheorem, PTL
  DEF Spec, ImplementsExclusiveRun, Exclusive!Spec
-----------------------------------------------------------------------------
(* What a run's calls are at each stage, whatever the owners and delays:   *)
(* the ground for the bounds on the lease.                                 *)

RunStep(r) ==
  \/ Start(r) \/ BeatLoses(r) \/ BeatRenews(r) \/ Settled(r) \/ Crash(r)
  \/ \E completed \in BOOLEAN : FnEnds(r, completed)
  \/ \E c \in calls : Acquired(r, c) \/ Renewed(r, c) \/ Freed(r, c) \/ CallFails(r, c)

ServeCall(c) == ServeAcquire(c) \/ ServeRenew(c) \/ ServeRelease(c)

\* It sends nothing any more.
Past(r) == pc[r] \in {"freeing", "over", "crashed"}

FitsStage(r) ==
  /\ pc[r] = "idle" => CallsOf(r) = {}
  /\ pc[r] = "acquiring" => \A c \in CallsOf(r) : c.kind = "acquire"
  /\ pc[r] \in {"running", "settling"} => \A c \in CallsOf(r) : c.kind = "renew"
  /\ pc[r] = "settling" => HoldFor[r] > 0
  /\ pc[r] = "freeing" => \A c \in CallsOf(r) : c.kind # "acquire"
  /\ \A c \in CallsOf(r) : c.kind = "hold" => HoldFor[r] > 0 /\ c.until = HoldUntil(r)
  /\ \A c, d \in CallsOf(r) : c.kind # "renew" /\ d.kind # "renew" => c = d
  /\ pc[r] \in {"idle", "acquiring"} => renewing[r] = NotSent
  /\ renewing[r] <= Clock(r)

Structure == CallsOK /\ \A r \in Run : FitsStage(r)

LEMMA RunFrame ==
  ASSUME TypeOK, NEW r \in Run, RunStep(r)
  PROVE  Frame(r) /\ \A q \in Run \ {r} : settleBy'[q] = settleBy[q]
<1> USE Fields
<1>1. CASE Start(r)
  BY <1>1 DEF Start, Frame, TypeOK, CallsOf, Sent
<1>2. CASE BeatLoses(r) \/ Crash(r)
  BY <1>2 DEF BeatLoses, Crash, Frame, TypeOK, CallsOf
<1>3. CASE BeatRenews(r)
  <2>1. \A q \in Run \ {r} : CallsOf(q)' = CallsOf(q)
    BY <1>3 DEF BeatRenews, CallsOf, Sent
  <2> QED
    BY <1>3, <2>1 DEF BeatRenews, Frame, TypeOK
<1>4. ASSUME NEW completed \in BOOLEAN, FnEnds(r, completed) \/ Settled(r)
      PROVE  Frame(r) /\ \A q \in Run \ {r} : settleBy'[q] = settleBy[q]
  <2>1. \A q \in Run \ {r} : CallsOf(q)' = CallsOf(q)
    BY <1>4 DEF FnEnds, Settled, Finish, CallsOf, Sent
  <2> QED
    BY <1>4, <2>1 DEF FnEnds, Settled, Finish, Frame, TypeOK
<1>5. ASSUME NEW c \in calls, Acquired(r, c) \/ Renewed(r, c) \/ Freed(r, c) \/ CallFails(r, c)
      PROVE  Frame(r) /\ \A q \in Run \ {r} : settleBy'[q] = settleBy[q]
  <2>1. \A q \in Run \ {r} : CallsOf(q)' = CallsOf(q)
    BY <1>5 DEF Acquired, Renewed, Freed, CallFails, CallsOf
  <2> QED
    BY <1>5, <2>1 DEF Acquired, Renewed, Freed, CallFails, Frame, TypeOK
<1> QED
  BY <1>1, <1>2, <1>3, <1>4, <1>5 DEF RunStep

\* A served call leaves, or stays with its answer; nothing else changes but the lease.
LEMMA Served ==
  ASSUME TypeOK, NEW c \in calls, ServeCall(c)
  PROVE  /\ c.reply = "none"
         /\ UNCHANGED <<now, local>>
         /\ \A r \in Run : \A d \in CallsOf(r)' :
              \/ d \in CallsOf(r) /\ d # c
              \/ /\ c.run = r /\ d.run = r /\ d.kind = c.kind /\ d.at = c.at
                 /\ d.until = c.until /\ d.reply \in {"yes", "no"}
         /\ \A r \in Run : \A d, e \in CallsOf(r)' :
              d \notin CallsOf(r) \ {c} /\ e \notin CallsOf(r) \ {c} => d = e
<1> USE Fields
<1>1. /\ \/ calls' = calls \ {c}
         \/ calls' = (calls \ {c}) \cup {[c EXCEPT !.reply = "yes"]}
         \/ calls' = (calls \ {c}) \cup {[c EXCEPT !.reply = "no"]}
      /\ c.reply = "none" /\ UNCHANGED <<now, local>>
  BY DEF ServeCall, ServeAcquire, ServeRenew, ServeRelease, Reply
<1>2. ASSUME NEW y \in {"yes", "no"}
      PROVE  LET d == [c EXCEPT !.reply = y] IN
             d.run = c.run /\ d.kind = c.kind /\ d.at = c.at /\ d.until = c.until /\ d.reply = y
  BY DEF Call
<1> QED
  BY <1>1, <1>2 DEF CallsOf

\* Answered calls answer what was asked.
LEMMA CallsOKStep ==
  ASSUME TypeOK, CallsOK, [Next]_vars
  PROVE  CallsOK'
<1> USE Fields
<1>1. Ttl \in Nat /\ \A r \in Run : HoldUntil(r) \in Nat
  BY DEF Ttl, HoldUntil
<1>2. ASSUME NEW c \in calls, ServeCall(c) PROVE CallsOK'
  <2>1. ASSUME NEW d \in calls' PROVE d.run \in Run /\ d \in CallsOf(d.run)'
    BY <1>2, <2>1 DEF ServeCall, ServeAcquire, ServeRenew, ServeRelease, Reply, CallsOf, Call
  <2>2. \A r \in Run : Clock(r)' = Clock(r)
    BY <1>2, Served DEF Clock
  <2>3. ASSUME NEW d \in calls' PROVE \E e \in calls : /\ d.run = e.run /\ d.kind = e.kind
                                                       /\ d.at = e.at /\ d.until = e.until
    BY <1>2, <2>1, <2>3, Served DEF CallsOf
  <2> QED
    BY <2>1, <2>2, <2>3 DEF CallsOK
<1>3. ASSUME NEW r \in Run, RunStep(r) PROVE CallsOK'
  <2>1. now' = now
    BY <1>3, RunFrame DEF Frame
  <2>2. \A d \in calls' : \/ d \in calls
                          \/ /\ d.run = r /\ d.at = Clock(r)
                             /\ d.kind \in {"acquire", "renew"} => d.until = d.at + Ttl
    BY <1>3 DEF RunStep, Start, BeatLoses, BeatRenews, Settled, Crash, FnEnds, Finish, Acquired,
                Renewed, Freed, CallFails, Sent
  <2> QED
    BY <2>1, <2>2 DEF CallsOK, Clock
<1>4. CASE Tick
  BY <1>4 DEF Tick, CallsOK, Clock
<1>5. CASE UNCHANGED vars
  BY <1>5 DEF vars, CallsOK, Clock
<1> QED
  BY <1>2, <1>3, <1>4, <1>5 DEF Next, RunStep, ServeCall

LEMMA StructureStep ==
  ASSUME TypeOK, Structure, [Next]_vars
  PROVE  Structure'
<1> USE Fields
<1>1. CallsOK /\ \A r \in Run : FitsStage(r)
  BY DEF Structure
<1>2. ASSUME NEW c \in calls, ServeCall(c), NEW r \in Run PROVE FitsStage(r)'
  <2>1. UNCHANGED <<now, pc, startedAt, renewing>>
    BY <1>2, Served DEF local
  <2>2. \A d \in CallsOf(r)' : \E e \in CallsOf(r) : d.kind = e.kind /\ d.until = e.until
    BY <1>2, Served DEF CallsOf
  <2>3. ASSUME NEW d \in CallsOf(r)', NEW e \in CallsOf(r)', d.kind # "renew", e.kind # "renew"
        PROVE  d = e
    <3>1. CASE d \in CallsOf(r) /\ d # c
      <4>1. \A x \in CallsOf(r) : x.kind # "renew" => x = d
        BY <1>1, <2>3, <3>1 DEF FitsStage
      <4>2. c \notin CallsOf(r) \/ c.kind = "renew"
        BY <3>1, <4>1
      <4> QED
        BY <1>2, <2>3, <4>1, <4>2, Served DEF CallsOf
    <3>2. CASE e \in CallsOf(r) /\ e # c
      <4>1. \A x \in CallsOf(r) : x.kind # "renew" => x = e
        BY <1>1, <2>3, <3>2 DEF FitsStage
      <4>2. c \notin CallsOf(r) \/ c.kind = "renew"
        BY <3>2, <4>1
      <4> QED
        BY <1>2, <2>3, <4>1, <4>2, Served DEF CallsOf
    <3>3. CASE d \notin CallsOf(r) \ {c} /\ e \notin CallsOf(r) \ {c}
      BY <1>2, <2>3, <3>3, Served
    <3> QED
      BY <3>1, <3>2, <3>3
  <2> QED
    BY <1>1, <2>1, <2>2, <2>3 DEF FitsStage, Clock, HoldUntil
<1>3. ASSUME NEW r \in Run, RunStep(r) PROVE \A q \in Run : FitsStage(q)'
  <2>1. Frame(r) /\ FitsStage(r)
    BY <1>1, <1>3, RunFrame
  <2>2. ASSUME NEW q \in Run, q # r PROVE FitsStage(q)'
    BY <1>1, <2>1, <2>2 DEF FitsStage, Frame, Clock, HoldUntil
  <2>3. FitsStage(r)'
    <3>1. CASE Start(r)
      <4>1. CallsOf(r)' = {Sent(r, "acquire", Clock(r) + Ttl)} /\ pc'[r] = "acquiring"
            /\ renewing' = renewing /\ now' = now /\ renewing[r] = NotSent
        BY <2>1, <3>1 DEF Start, FitsStage, CallsOf, Sent, TypeOK
      <4> QED
        BY <4>1 DEF FitsStage, Sent, Clock, NotSent
    <3>2. CASE BeatLoses(r) \/ Crash(r)
      BY <2>1, <3>2 DEF BeatLoses, Crash, FitsStage, CallsOf, Clock, HoldUntil, TypeOK, NotSent
    <3>3. CASE BeatRenews(r)
      <4>1. /\ pc' = pc /\ startedAt' = startedAt /\ now' = now /\ pc[r] = "running"
            /\ renewing'[r] = renewing[r] \/ renewing'[r] = Clock(r)
        BY <3>3 DEF BeatRenews, TypeOK, Live
      <4>2. \A d \in CallsOf(r)' : d \in CallsOf(r) \/ d.kind = "renew"
        BY <3>3 DEF BeatRenews, CallsOf, Sent
      <4> QED
        BY <2>1, <4>1, <4>2 DEF FitsStage, Clock, HoldUntil
    <3>4. ASSUME NEW completed \in BOOLEAN, FnEnds(r, completed) \/ Settled(r)
          PROVE  FitsStage(r)'
      <4>1. /\ startedAt' = startedAt /\ now' = now /\ renewing' = renewing
            /\ pc[r] \in {"running", "settling"}
            /\ pc'[r] \in {"settling", "freeing", "over"}
            /\ pc'[r] = "settling" => HoldFor[r] > 0 /\ calls' = calls
        BY <3>4 DEF FnEnds, Settled, Finish, TypeOK
      <4>2. \A d \in CallsOf(r) : d.kind = "renew"
        BY <2>1, <4>1 DEF FitsStage
      <4>3. \/ calls' = calls
            \/ calls' = calls \cup {Sent(r, "hold", HoldUntil(r))} /\ HoldFor[r] > 0
            \/ calls' = calls \cup {Sent(r, "release", 0)}
        BY <2>1, <3>4 DEF FnEnds, Settled, Finish, FitsStage
      <4>4. \A u : Sent(r, "hold", u).kind = "hold" /\ Sent(r, "hold", u).until = u
                   /\ Sent(r, "release", u).kind = "release"
        BY DEF Sent
      <4>5. CASE calls' = calls
        BY <2>1, <4>1, <4>2, <4>5 DEF FitsStage, CallsOf, Clock, HoldUntil
      <4>6. CASE calls' = calls \cup {Sent(r, "hold", HoldUntil(r))} /\ HoldFor[r] > 0
        <5>1. \A d \in CallsOf(r)' : d \in CallsOf(r) \/ d = Sent(r, "hold", HoldUntil(r))
          BY <4>6 DEF CallsOf
        <5>2. pc'[r] # "settling"
          BY <4>1, <4>2, <4>4, <4>6 DEF CallsOf, Sent
        <5> QED
          BY <2>1, <4>1, <4>2, <4>4, <4>6, <5>1, <5>2 DEF FitsStage, Clock, HoldUntil
      <4>7. CASE calls' = calls \cup {Sent(r, "release", 0)}
        <5>1. \A d \in CallsOf(r)' : d \in CallsOf(r) \/ d = Sent(r, "release", 0)
          BY <4>7 DEF CallsOf
        <5>2. pc'[r] # "settling"
          BY <4>1, <4>2, <4>4, <4>7 DEF CallsOf, Sent
        <5> QED
          BY <2>1, <4>1, <4>2, <4>4, <5>1, <5>2 DEF FitsStage, Clock, HoldUntil
      <4> QED
        BY <4>3, <4>5, <4>6, <4>7
    <3>5. ASSUME NEW c \in calls, Acquired(r, c) \/ Renewed(r, c) \/ Freed(r, c) \/ CallFails(r, c)
          PROVE  FitsStage(r)'
      <4>1. CallsOf(r)' \subseteq CallsOf(r) /\ c \in CallsOf(r)
        BY <3>5 DEF Acquired, Renewed, Freed, CallFails, CallsOf
      <4>2. /\ startedAt' = startedAt /\ now' = now
            /\ renewing'[r] = renewing[r] \/ renewing'[r] = NotSent
        BY <3>5 DEF Acquired, Renewed, Freed, CallFails, TypeOK
      <4>3. \/ pc'[r] = pc[r] \/ pc'[r] = "over"
            \/ pc'[r] = "running" /\ CallsOf(r)' = {}
        <5>1. CASE Acquired(r, c)
          BY <2>1, <4>1, <5>1 DEF Acquired, FitsStage, CallsOf, TypeOK
        <5>2. CASE Renewed(r, c) \/ Freed(r, c) \/ CallFails(r, c)
          BY <5>2 DEF Renewed, Freed, CallFails, TypeOK
        <5> QED
          BY <3>5, <5>1, <5>2
      <4> QED
        BY <2>1, <4>1, <4>2, <4>3 DEF FitsStage, Clock, HoldUntil, NotSent
    <3> QED
      BY <1>3, <3>1, <3>2, <3>3, <3>4, <3>5 DEF RunStep
  <2> QED
    BY <2>2, <2>3
<1>4. CASE Tick
  <2>1. \A r \in Run : Clock(r)' = Clock(r) + 1 /\ renewing[r] \in Nat \cup {NotSent}
    BY <1>4 DEF Tick, Clock, TypeOK
  <2> QED
    BY <1>1, <1>4, <2>1, CallsOKStep DEF Structure, Tick, local, FitsStage, CallsOf, HoldUntil, NotSent
<1>5. CASE UNCHANGED vars
  BY <1>1, <1>5 DEF vars, Structure, CallsOK, FitsStage, CallsOf, Clock, HoldUntil
<1> QED
  BY <1>2, <1>3, <1>4, <1>5, CallsOKStep DEF Next, RunStep, ServeCall, Structure

LEMMA StructureHolds == Spec => []Structure
<1>1. Init => Structure
  BY ConstantsAssumption DEF Init, Structure, CallsOK, FitsStage, CallsOf, NotSent, Clock
<1>2. TypeOK /\ Structure /\ [Next]_vars => Structure'
  BY StructureStep
<1> QED
  BY <1>1, <1>2, TypeCorrect, PTL DEF Spec

\* What is in the row was asked for: a TTL from some clock, or a hold.
Asked ==
  \/ lease.until <= now + MaxSkew + Ttl
  \/ \E r \in Run : /\ pc[r] # "idle" /\ HoldFor[r] > 0 /\ lease.owner = OwnerOf[r]
                    /\ lease.until = HoldUntil(r)

LEMMA AskedStep ==
  ASSUME TypeOK, Structure, Asked, [Next]_vars
  PROVE  Asked'
<1> USE Fields
<1>1. Ttl \in Nat
  BY DEF Ttl
<1>2. ASSUME NEW c \in calls, ServeCall(c) PROVE Asked'
  <2>1. /\ c.at <= now + MaxSkew /\ c \in CallsOf(c.run)
        /\ c.kind \in {"acquire", "renew"} => c.until = c.at + Ttl
        /\ c.kind = "hold" => pc[c.run] # "idle" /\ HoldFor[c.run] > 0 /\ c.until = HoldUntil(c.run)
    BY DEF Structure, CallsOK, Clock, FitsStage, CallsOf
  <2>2. UNCHANGED <<now, pc, startedAt>>
    BY <1>2, Served DEF local
  <2>3. \/ lease' = lease
        \/ c.kind = "acquire" /\ lease'.until = c.until
        \/ c.kind \in {"renew", "hold"} /\ lease'.until = c.until /\ lease'.owner = OwnerOf[c.run]
        \/ lease'.until = 0
    BY <1>2 DEF ServeCall, ServeAcquire, ServeRenew, ServeRelease, IsHeldBy, NoLease, TypeOK
  <2> QED
    BY <1>1, <2>1, <2>2, <2>3 DEF Asked, HoldUntil
<1>3. ASSUME NEW r \in Run, RunStep(r) PROVE Asked'
  <2>1. lease' = lease /\ now' = now
    BY <1>3, RunFrame DEF Frame
  <2>2. \A q \in Run : pc[q] # "idle" => pc'[q] # "idle" /\ startedAt'[q] = startedAt[q]
    BY <1>3 DEF RunStep, Start, BeatLoses, BeatRenews, Settled, Crash, FnEnds, Finish, Acquired,
                Renewed, Freed, CallFails, TypeOK
  <2> QED
    BY <2>1, <2>2 DEF Asked, HoldUntil
<1>4. CASE Tick
  BY <1>1, <1>4 DEF Tick, local, Asked, HoldUntil
<1>5. CASE UNCHANGED vars
  BY <1>5 DEF vars, Asked, HoldUntil
<1> QED
  BY <1>2, <1>3, <1>4, <1>5 DEF Next, RunStep, ServeCall

\* A holder that dies locks the others out for a TTL or until its holdUntil,
\* whatever the owners, the delays and the failures.
THEOREM LockoutBoundedTheorem == Spec => []LockoutBounded
<1>1. Init => Asked
  BY ConstantsAssumption DEF Init, Asked, NoLease, Ttl
<1>2. TypeOK /\ Structure /\ Asked /\ [Next]_vars => Asked'
  BY AskedStep
<1>3. Asked => LockoutBounded
  BY DEF Asked, LockoutBounded
<1> QED
  BY <1>1, <1>2, <1>3, TypeCorrect, StructureHolds, PTL DEF Spec

-----------------------------------------------------------------------------
(* The cooldown. The runs of one owner take turns, so when a hold is       *)
(* granted only its own run could still change the row, and a renew of     *)
(* that run which is still out was waited for, a TTL long.                 *)

AtWork == {"acquiring", "running", "settling", "freeing"}

TakeTurns ==
  \A r, q \in Run : r # q /\ OwnerOf[r] = OwnerOf[q] /\ pc[r] \in AtWork => pc[q] \in Ended

\* No renew that the run waits for is younger than a TTL.
NoneYoung(r, at) == renewing[r] = NotSent \/ renewing[r] + Ttl <= at

Waited(r) ==
  /\ pc[r] = "settling" /\ renewing[r] # NotSent => settleBy[r] >= renewing[r] + Ttl
  /\ pc[r] = "freeing" => \A h \in CallsOf(r) : h.kind = "hold" => NoneYoung(r, h.at)
  /\ pc[r] = "crashed" => renewing[r] = NotSent

\* Of a run whose owner has the row: it does not touch it any more.
Spared(r) ==
  /\ pc[r] \notin {"running", "settling"}
  /\ pc[r] = "acquiring" => \A c \in CallsOf(r) : c.reply # "yes"
  /\ pc[r] = "freeing" =>
       /\ NoneYoung(r, Clock(r))
       /\ \A c \in CallsOf(r) : c.kind \in {"hold", "release"} => c.reply # "none"

Kept ==
  cooldown > now + MaxSkew =>
    lease.until >= cooldown /\ \A r \in Run : OwnerOf[r] = lease.owner => Spared(r)

LEMMA TakeTurnsStep ==
  ASSUME TypeOK, TakeTurns, [Next]_vars PROVE TakeTurns'
<1> USE DEF TakeTurns, AtWork, Ended
<1>1. ASSUME NEW c \in calls, ServeCall(c) PROVE TakeTurns'
  BY <1>1, Served DEF local
<1>2. ASSUME NEW r \in Run, Start(r) PROVE TakeTurns'
  BY <1>2 DEF Start, TypeOK
<1>3. ASSUME NEW r \in Run, RunStep(r), ~Start(r) PROVE TakeTurns'
  <2>1. \A q \in Run \ {r} : pc'[q] = pc[q]
    BY <1>3, RunFrame DEF Frame
  <2>2. pc[r] \in Ended => pc'[r] = pc[r]
    BY <1>3 DEF RunStep, BeatLoses, BeatRenews, Live, Settled, Crash, FnEnds, Acquired, Renewed,
                Freed, CallFails, Awaited, TypeOK
  <2>3. pc'[r] \in AtWork => pc[r] \in AtWork
    BY <1>3 DEF RunStep, BeatLoses, BeatRenews, Live, Settled, Crash, FnEnds, Finish, Acquired,
                Renewed, Freed, CallFails, TypeOK
  <2> QED
    BY <2>1, <2>2, <2>3
<1>4. CASE Tick \/ UNCHANGED vars
  BY <1>4 DEF Tick, vars, local
<1> QED
  BY <1>1, <1>2, <1>3, <1>4 DEF Next, RunStep, ServeCall

LEMMA WaitedStep ==
  ASSUME TypeOK, Structure, [Next]_vars, NEW r \in Run, Waited(r) PROVE Waited(r)'
<1> USE Fields
<1>0. FitsStage(r) /\ Ttl \in Nat /\ renewing[r] \in Nat \cup {NotSent} /\ Clock(r) \in Nat
  BY ConstantsAssumption DEF Structure, Ttl, TypeOK, Clock
<1>1. ASSUME NEW c \in calls, ServeCall(c) PROVE Waited(r)'
  <2>1. UNCHANGED <<pc, renewing, settleBy>>
    BY <1>1, Served DEF local
  <2>2. \A d \in CallsOf(r)' : \E e \in CallsOf(r) : d.kind = e.kind /\ d.at = e.at
    BY <1>1, Served DEF CallsOf
  <2> QED
    BY <2>1, <2>2 DEF Waited, NoneYoung
<1>2. ASSUME NEW q \in Run, RunStep(q), q # r PROVE Waited(r)'
  BY <1>2, RunFrame DEF Frame, Waited, NoneYoung
<1>3. ASSUME NEW completed \in BOOLEAN, FnEnds(r, completed) \/ Settled(r) PROVE Waited(r)'
  <2>1. pc[r] \in {"running", "settling"} /\ renewing' = renewing
    BY <1>3 DEF FnEnds, Settled
  <2>2. CASE pc'[r] = "settling"
    <3>1. settleBy'[r] = Clock(r) + Ttl
      BY <1>3, <2>2 DEF FnEnds, Settled, Finish, TypeOK
    <3>2. settleBy'[r] >= renewing'[r] + Ttl
      BY <1>0, <2>1, <3>1 DEF FitsStage, NotSent
    <3> QED
      BY <2>2, <3>2 DEF Waited
  <2>3. CASE pc'[r] = "freeing"
    <3>1. ASSUME NEW h \in CallsOf(r)', h.kind = "hold" PROVE NoneYoung(r, h.at)'
      <4>1. h \notin CallsOf(r)
        BY <1>0, <2>1, <3>1 DEF FitsStage
      <4>2. h = Sent(r, "hold", HoldUntil(r)) \/ h = Sent(r, "release", 0)
        BY <1>3, <4>1 DEF FnEnds, Settled, Finish, CallsOf
      <4>3. h = Sent(r, "hold", HoldUntil(r)) /\ h.at = Clock(r)
        BY <3>1, <4>2 DEF Sent
      <4>4. CASE FnEnds(r, completed)
        BY <2>1, <2>3, <4>1, <4>3, <4>4 DEF FnEnds, Finish, CallsOf, Sent, NoneYoung, TypeOK
      <4>5. CASE Settled(r)
        <5>1. renewing[r] = NotSent \/ (Clock(r) >= settleBy[r] /\ settleBy[r] >= renewing[r] + Ttl)
          BY <4>5 DEF Settled, Waited
        <5>2. settleBy[r] \in Nat
          BY DEF TypeOK
        <5>3. NoneYoung(r, Clock(r))
          BY <1>0, <5>1, <5>2 DEF NoneYoung
        <5> QED
          BY <2>1, <4>3, <5>3 DEF NoneYoung
      <4> QED
        BY <1>3, <4>4, <4>5
    <3> QED
      BY <2>3, <3>1 DEF Waited
  <2>4. CASE pc'[r] = "over"
    BY <2>4 DEF Waited
  <2>5. pc'[r] \in {"settling", "freeing", "over"}
    BY <1>3 DEF FnEnds, Settled, Finish, TypeOK
  <2> QED
    BY <2>2, <2>3, <2>4, <2>5
<1>4. CASE Crash(r)
  BY <1>4 DEF Crash, Waited, TypeOK
<1>5. CASE Start(r) \/ BeatLoses(r) \/ BeatRenews(r) \/ \E c \in calls : Acquired(r, c) \/ Freed(r, c)
  <2>1. pc'[r] \notin {"settling", "freeing", "crashed"}
    BY <1>5 DEF Start, BeatLoses, BeatRenews, Live, Acquired, Freed, TypeOK
  <2> QED
    BY <2>1 DEF Waited
<1>6. ASSUME NEW c \in calls, Renewed(r, c) \/ CallFails(r, c) PROVE Waited(r)'
  <2>1. CASE c.kind = "renew"
    BY <1>6, <2>1 DEF Renewed, CallFails, Waited, NoneYoung, TypeOK
  <2>2. CASE c.kind # "renew"
    BY <1>6, <2>2 DEF Renewed, CallFails, Waited, TypeOK
  <2> QED
    BY <2>1, <2>2
<1>7. CASE Tick \/ UNCHANGED vars
  BY <1>7 DEF Tick, vars, local, Waited, NoneYoung, CallsOf
<1> QED
  BY <1>1, <1>2, <1>3, <1>4, <1>5, <1>6, <1>7 DEF Next, RunStep, ServeCall

\* What the store does while a cooldown stands.
LEMMA KeptServed ==
  ASSUME TypeOK, Structure, TakeTurns, Kept, NEW c \in calls, ServeCall(c), Waited(c.run)
  PROVE  Kept'
<1> USE Fields, ConstantsAssumption
<1>0. /\ UNCHANGED <<now, pc, renewing>> /\ c.reply = "none" /\ c \in CallsOf(c.run)
      /\ c.run \in Run /\ c.at \in Nat /\ c.until \in Nat /\ Ttl \in Nat
      /\ FitsStage(c.run) /\ c.at <= Clock(c.run) /\ Clock(c.run) <= now + MaxSkew
      /\ (c.kind = "renew" => c.until = c.at + Ttl)
  BY Served DEF local, Structure, CallsOK, CallsOf, Clock, Ttl
<1>1. SUFFICES ASSUME cooldown' > now + MaxSkew
               PROVE  /\ lease'.until >= cooldown'
                      /\ \A r \in Run : OwnerOf[r] = lease'.owner => Spared(r)'
  BY <1>0 DEF Kept
<1>2. now \in Nat /\ MaxSkew \in Nat /\ cooldown \in Nat /\ cooldown' \in Nat
  <2>1. cooldown' = cooldown \/ cooldown' = 0 \/ cooldown' = c.until
    BY DEF ServeCall, ServeAcquire, ServeRenew, ServeRelease, Standing
  <2> QED
    BY <1>0, <2>1 DEF TypeOK
\* A call that is refused.
<1>3. ASSUME lease' = lease, cooldown' = cooldown, calls' = Reply(c, FALSE)
      PROVE  lease'.until >= cooldown' /\ \A r \in Run : OwnerOf[r] = lease'.owner => Spared(r)'
  <2>1. lease.until >= cooldown /\ \A r \in Run : OwnerOf[r] = lease.owner => Spared(r)
    BY <1>1, <1>3 DEF Kept
  <2>2. \A r \in Run : \A d \in CallsOf(r)' : d \in CallsOf(r) \/ d.reply = "no"
    BY <1>3 DEF Reply, CallsOf, Call
  <2>3. ASSUME NEW r \in Run, Spared(r) PROVE Spared(r)'
    BY <1>0, <2>2, <2>3 DEF Spared, NoneYoung, Clock
  <2> QED
    BY <1>3, <2>1, <2>3
<1>4. CASE ServeAcquire(c)
  <2>1. ~IsFree(c.at)
    BY <1>0, <1>1, <1>2, <1>4 DEF ServeAcquire, IsFree, Kept, TypeOK
  <2>2. calls' = Reply(c, FALSE)
    BY <1>4, <2>1 DEF ServeAcquire, Reply
  <2>3. lease' = lease /\ cooldown' = cooldown
    BY <1>4, <2>1 DEF ServeAcquire
  <2> QED
    BY <1>3, <2>2, <2>3
<1>5. CASE ServeRenew(c)
  <2>1. CASE ~IsHeldBy(OwnerOf[c.run], c.at)
    <3>1. calls' = Reply(c, FALSE)
      BY <1>5, <2>1 DEF ServeRenew, Reply
    <3>2. lease' = lease /\ cooldown' = cooldown
      BY <1>5, <2>1 DEF ServeRenew
    <3> QED
      BY <1>3, <3>1, <3>2
  <2>2. CASE IsHeldBy(OwnerOf[c.run], c.at)
    <3>1. lease'.until = c.until /\ lease'.owner = lease.owner /\ lease.owner = OwnerOf[c.run]
      BY <1>5, <2>2 DEF ServeRenew, IsHeldBy, TypeOK
    <3>2. ~Strays(c) /\ cooldown' = IF c.kind = "hold" THEN c.until ELSE cooldown
      BY <1>1, <1>2, <1>5, <2>2 DEF ServeRenew, Standing
    <3>3. CASE c.kind = "hold"
      <4>1. pc[c.run] = "freeing" /\ NoneYoung(c.run, Clock(c.run))
        <5>1. pc[c.run] = "freeing"
          BY <3>2, <3>3 DEF Strays, Awaited
        <5>2. NoneYoung(c.run, c.at)
          BY <1>0, <3>3, <5>1 DEF Waited
        <5>3. renewing[c.run] \in Nat \cup {NotSent} /\ Clock(c.run) \in Nat
          BY <1>0 DEF TypeOK, Clock
        <5> QED
          BY <1>0, <5>1, <5>2, <5>3 DEF NoneYoung
      <4>2. ASSUME NEW d \in CallsOf(c.run)', d.kind \in {"hold", "release"} PROVE d.reply # "none"
        <5>1. d \in CallsOf(c.run) /\ d # c => FALSE
          BY <1>0, <3>3, <4>2 DEF FitsStage
        <5> QED
          BY <1>0, <5>1, Served
      <4>3. Spared(c.run)'
        BY <1>0, <4>1, <4>2 DEF Spared, NoneYoung, Clock
      <4>4. ASSUME NEW r \in Run \ {c.run}, OwnerOf[r] = lease.owner PROVE Spared(r)'
        <5>1. pc[r] \in Ended
          BY <1>0, <3>1, <4>1, <4>4 DEF TakeTurns, AtWork
        <5> QED
          BY <1>0, <5>1 DEF Spared, Ended
      <4> QED
        BY <1>0, <3>1, <3>2, <3>3, <4>3, <4>4
    <3>4. CASE c.kind # "hold"
      <4>1. c.kind = "renew" /\ renewing[c.run] = c.at /\ pc[c.run] # "over" /\ c.until > Clock(c.run)
        <5>1. c.kind = "renew"
          BY <1>5, <3>4 DEF ServeRenew
        <5>2. Clock(c.run) \in Nat
          BY <1>0 DEF Clock, TypeOK
        <5> QED
          BY <1>0, <3>2, <5>1, <5>2 DEF Strays, Awaited
      <4>2. Spared(c.run)
        BY <1>0, <1>1, <3>1, <3>2, <3>4 DEF Kept
      <4>3. pc[c.run] \in {"idle", "acquiring", "freeing", "crashed"}
        BY <1>0, <4>1, <4>2 DEF Spared, TypeOK
      <4>4. renewing[c.run] # NotSent
        BY <1>0, <4>1 DEF NotSent
      <4>5. pc[c.run] = "freeing"
        BY <1>0, <4>3, <4>4 DEF FitsStage, Waited
      <4>6. c.at + Ttl <= Clock(c.run)
        BY <4>1, <4>2, <4>4, <4>5 DEF Spared, NoneYoung
      <4>7. Clock(c.run) \in Nat
        BY <1>0 DEF Clock, TypeOK
      <4> QED
        BY <1>0, <4>1, <4>6, <4>7
    <3> QED
      BY <3>3, <3>4
  <2> QED
    BY <2>1, <2>2
<1>6. CASE ServeRelease(c)
  <2>1. CASE lease.owner # OwnerOf[c.run]
    BY <1>3, <1>6, <2>1 DEF ServeRelease
  <2>2. CASE lease.owner = OwnerOf[c.run]
    <3>1. ~Strays(c) /\ cooldown' = cooldown /\ c.kind = "release"
      BY <1>1, <1>2, <1>6, <2>2 DEF ServeRelease, Standing
    <3>2. pc[c.run] = "freeing"
      BY <3>1 DEF Strays, Awaited
    <3>3. Spared(c.run)
      BY <1>0, <1>1, <2>2, <3>1 DEF Kept
    <3> QED
      BY <1>0, <3>1, <3>2, <3>3 DEF Spared
  <2> QED
    BY <2>1, <2>2
<1> QED
  BY <1>4, <1>5, <1>6 DEF ServeCall

\* A run that leaves the row alone still does after a step of its own.
LEMMA SparedStep ==
  ASSUME TypeOK, Structure, NEW r \in Run, RunStep(r), Spared(r) PROVE Spared(r)'
<1> USE Fields
<1>1. CASE Start(r)
  <2>1. CallsOf(r)' = {Sent(r, "acquire", Clock(r) + Ttl)} /\ pc'[r] = "acquiring"
    BY <1>1 DEF Start, Structure, FitsStage, CallsOf, Sent, TypeOK
  <2> QED
    BY <2>1 DEF Spared, Sent
<1>2. ~BeatLoses(r) /\ ~BeatRenews(r) /\ ~Settled(r) /\ \A b \in BOOLEAN : ~FnEnds(r, b)
  BY DEF BeatLoses, BeatRenews, Settled, FnEnds, Live, Spared
<1>3. CASE Crash(r)
  BY <1>3 DEF Crash, Spared, TypeOK
<1>4. ASSUME NEW c \in calls, Acquired(r, c) PROVE Spared(r)'
  <2>1. c \in CallsOf(r) /\ pc[r] = "acquiring"
    BY <1>4 DEF Acquired, CallsOf
  <2>2. pc'[r] = "over"
    BY <1>4, <2>1 DEF Acquired, Spared, TypeOK
  <2> QED
    BY <2>2 DEF Spared
<1>5. ASSUME NEW c \in calls, Renewed(r, c) \/ (CallFails(r, c) /\ c.kind = "renew") PROVE Spared(r)'
  <2>1. pc' = pc /\ renewing'[r] = NotSent /\ calls' \subseteq calls
    BY <1>5 DEF Renewed, CallFails, TypeOK
  <2> QED
    BY <2>1 DEF Spared, NoneYoung, CallsOf
<1>6. ASSUME NEW c \in calls, Freed(r, c) \/ (CallFails(r, c) /\ c.kind # "renew") PROVE Spared(r)'
  <2>1. pc'[r] = "over"
    BY <1>6 DEF Freed, CallFails, TypeOK
  <2> QED
    BY <2>1 DEF Spared
<1> QED
  BY <1>1, <1>2, <1>3, <1>4, <1>5, <1>6 DEF RunStep

LEMMA KeptStep ==
  ASSUME TypeOK, Structure, TakeTurns, \A r \in Run : Waited(r), Kept, [Next]_vars
  PROVE  Kept'
<1> USE Fields, ConstantsAssumption
<1>1. ASSUME NEW c \in calls, ServeCall(c) PROVE Kept'
  BY <1>1, KeptServed
<1>2. ASSUME NEW q \in Run, RunStep(q) PROVE Kept'
  <2>1. UNCHANGED <<lease, now, cooldown>>
    BY <1>2 DEF RunStep, Start, BeatLoses, BeatRenews, Settled, Crash, FnEnds, Acquired, Renewed,
                Freed, CallFails
  <2>2. ASSUME NEW r \in Run, Spared(r), r # q PROVE Spared(r)'
    BY <1>2, <2>2, RunFrame DEF Frame, Spared, NoneYoung, Clock
  <2>3. ASSUME NEW r \in Run, Spared(r) PROVE Spared(r)'
    BY <1>2, <2>2, <2>3, SparedStep
  <2> QED
    BY <2>1, <2>3 DEF Kept
<1>3. CASE Tick
  <2>1. now' = now + 1 /\ UNCHANGED <<lease, calls, local, cooldown>>
    BY <1>3 DEF Tick
  <2>2. cooldown' > now' + MaxSkew => cooldown > now + MaxSkew
    BY <2>1 DEF TypeOK
  <2>3. ASSUME NEW r \in Run, Spared(r) PROVE Spared(r)'
    <3>1. Clock(r)' = Clock(r) + 1 /\ Clock(r) \in Nat /\ Ttl \in Nat
          /\ renewing[r] \in Nat \cup {NotSent}
      BY <2>1 DEF Clock, Ttl, TypeOK
    <3>2. NoneYoung(r, Clock(r)) => NoneYoung(r, Clock(r))'
      BY <2>1, <3>1 DEF NoneYoung, local
    <3> QED
      BY <2>1, <2>3, <3>2 DEF Spared, CallsOf, local
  <2> QED
    BY <2>1, <2>2, <2>3 DEF Kept
<1>4. CASE UNCHANGED vars
  BY <1>4 DEF vars, Kept, Spared, NoneYoung, CallsOf, Clock
<1> QED
  BY <1>1, <1>2, <1>3, <1>4 DEF Next, RunStep, ServeCall

\* No acquire succeeds before the end of a cooldown: the row covers it from the
\* moment that its hold is granted, whatever owners the runs have and whatever
\* fails, crashes or is late, but for a call that its run has given up waiting
\* for and that changes the row after that.
THEOREM CooldownKeptTheorem == Spec => []CooldownKept
<1> DEFINE CooldownInv == TakeTurns /\ Kept /\ \A r \in Run : Waited(r)
<1>1. Init => CooldownInv
  BY ConstantsAssumption DEF Init, TakeTurns, AtWork, Kept, Waited
<1>2. TypeOK /\ Structure /\ CooldownInv /\ [Next]_vars => CooldownInv'
  BY TakeTurnsStep, WaitedStep, KeptStep
<1>3. CooldownInv => CooldownKept
  BY DEF Kept, CooldownKept
<1> QED
  BY <1>1, <1>2, <1>3, TypeCorrect, StructureHolds, PTL DEF Spec

-----------------------------------------------------------------------------
\* The job runner, which relies on the lease: one job of GGJobRunner on several
\* instances, for any number of them, any interval, any slack and any
\* number of rows.

USE JobAssumption

JobRun ==
  [pc : {"idle", "acquiring", "loading", "rows", "reporting", "freeing"},
   hold : BOOLEAN, age : 0..Due, lost : BOOLEAN, struck : BOOLEAN, left : Int,
   active : Int, more : BOOLEAN, extra : Int]

JobTypes ==
  /\ oneInstance \in BOOLEAN
  /\ stopped \in [Instance -> BOOLEAN] /\ returned \in [Instance -> BOOLEAN]
  /\ run \in [Instance -> JobRun]
  /\ jobCooldown \in Nat /\ since \in 0..Due
  /\ holder \in Instance \cup {None, Orphan}

\* The run of i is past acquire, has not heard that it lost the lock, and no
\* late call has ended its lease.
HasLock(i) == ~run[i].lost /\ ~run[i].struck /\ (Working(i) \/ run[i].pc = "freeing")

\* The lock is with the run that has it, and with no other instance.
HolderWorks ==
  \A i \in Instance :
    /\ run[i].pc \in {"acquiring", "freeing"} => oneInstance /\ ~run[i].lost
    /\ run[i].pc = "acquiring" => ~run[i].struck
    /\ (holder = i) <=> (oneInstance /\ HasLock(i))

ReturnedIsOver == \A i \in Instance : returned[i] => stopped[i] /\ run[i] = NoRun

\* What is left of the cooldown covers what is missing to the next due run, if
\* no late call has shortened it.
Spaced == spoilt \/ since + jobCooldown >= Due

JobInv == JobTypes /\ HolderWorks /\ ReturnedIsOver /\ Spaced

LEMMA DueNat == Due \in Nat /\ Due > 0
  BY DEF Due

\* What a step leaves of the run and of the lock of an instance.
LEMMA JobInitially ==
  ASSUME JobInit PROVE JobInv
<1>1. NoRun \in JobRun /\ NoRun.pc = "idle"
  BY DueNat DEF NoRun, JobRun
<1>2. JobTypes
  BY <1>1, DueNat DEF JobInit, JobTypes
<1>3. HolderWorks
  BY <1>1 DEF JobInit, HolderWorks, HasLock, Working
<1>4. ReturnedIsOver /\ Spaced
  BY DueNat DEF JobInit, ReturnedIsOver, Spaced
<1> QED
  BY <1>2, <1>3, <1>4 DEF JobInv

LEMMA JobTypesKept ==
  ASSUME JobTypes, [JobNext]_jobVars PROVE JobTypes'
<1> USE DueNat
<1> USE DEF JobTypes, loop, lock
<1>0. NoRun \in JobRun
  BY DEF NoRun, JobRun
<1>1. ASSUME NEW i \in Instance,
             StartLoop(i) \/ TickStopped(i) \/ TickUnconfigured(i) \/ Stop(i) \/ StopReturns(i)
      PROVE JobTypes'
  BY <1>1 DEF StartLoop, TickStopped, TickUnconfigured, Stop, StopReturns
<1>2. ASSUME NEW i \in Instance, NEW b \in BOOLEAN, Begin(i, b) PROVE run' \in [Instance -> JobRun]
  BY <1>0, <1>2 DEF Begin, JobRun, NoRun
<1>3. ASSUME NEW i \in Instance, (\E read \in Setting : TickLoop(i, read)) \/ RunNow(i) PROVE JobTypes'
  <2>1. run' \in [Instance -> JobRun]
    BY <1>2, <1>3 DEF TickLoop, RunNow
  <2> QED
    BY <1>3, <2>1 DEF TickLoop, RunNow
<1>4. ASSUME NEW i \in Instance, Over(i) PROVE run' \in [Instance -> JobRun]
  BY <1>0, <1>4 DEF Over
<1>5. ASSUME NEW i \in Instance, NEW b \in BOOLEAN, RunEnds(i, b) PROVE run' \in [Instance -> JobRun]
  BY <1>4, <1>5 DEF RunEnds, JobRun
<1>6. ASSUME NEW i \in Instance, LockAcquired(i) \/ Busy(i) \/ AcquireFails(i) PROVE JobTypes'
  <2>1. run' \in [Instance -> JobRun]
    BY <1>0, <1>4, <1>6 DEF LockAcquired, Busy, AcquireFails, JobRun
  <2> QED
    BY <1>6, <2>1 DEF LockAcquired, Busy, AcquireFails
<1>7. ASSUME NEW i \in Instance, NEW n \in 0..MaxRows, Loads(i, n) PROVE JobTypes'
  <2> DEFINE begun == IF Aborted(i) THEN 0 ELSE Smaller(Parallel, n)
             new == [run[i] EXCEPT !.pc = IF begun = 0 THEN "reporting" ELSE "rows",
                       !.active = begun, !.left = n - begun, !.more = n >= Limit]
  <2>2. begun \in Int /\ n \in Int /\ Limit \in Int
    BY DEF Smaller
  <2>3. run' = [run EXCEPT ![i] = new]
    BY <1>7 DEF Loads
  <2> HIDE DEF begun
  <2>4. n - begun \in Int /\ (n >= Limit) \in BOOLEAN /\ run[i] \in JobRun
    BY <2>2
  <2>5. new \in JobRun
    BY <2>2, <2>4 DEF JobRun
  <2> HIDE DEF new
  <2>1. run' \in [Instance -> JobRun]
    BY <2>3, <2>5
  <2> QED
    BY <1>7, <2>1 DEF Loads
<1>8. ASSUME NEW i \in Instance, NEW ok \in BOOLEAN, RowEnds(i, ok) PROVE JobTypes'
  <2> DEFINE more == NextRow(i)
             again == run[i].more /\ ok
             rows == IF more THEN run[i].left - 1 ELSE run[i].left
             busy == IF more THEN run[i].active ELSE run[i].active - 1
             at == IF more \/ run[i].active > 1 THEN "rows" ELSE "reporting"
             new == [run[i] EXCEPT !.more = again, !.left = rows, !.active = busy, !.pc = at]
  <2>2. run' = [run EXCEPT ![i] = new]
    BY <1>8, Zenon DEF RowEnds
  <2>4. run[i] \in JobRun
    OBVIOUS
  <2>5. again \in BOOLEAN /\ rows \in Int /\ busy \in Int /\ at \in {"rows", "reporting"}
    BY <2>4 DEF JobRun
  <2> HIDE DEF again, rows, busy, at
  <2>3. new \in JobRun
    BY <2>4, <2>5 DEF JobRun
  <2> HIDE DEF new
  <2>1. run' \in [Instance -> JobRun]
    BY <2>2, <2>3
  <2> QED
    BY <1>8, <2>1 DEF RowEnds
<1>9. ASSUME NEW i \in Instance, LoadFails(i) \/ BatchEnds(i) PROVE JobTypes'
  <2>1. CASE RunEnds(i, FALSE) \/ RunEnds(i, TRUE)
    BY <1>5, <1>9, <2>1 DEF LoadFails, BatchEnds
  <2>2. CASE run' = [run EXCEPT ![i].pc = "loading", ![i].extra = @ + 1]
    BY <1>9, <2>2 DEF LoadFails, BatchEnds, JobRun
  <2> QED
    BY <1>9, <2>1, <2>2 DEF LoadFails, BatchEnds
<1>10. ASSUME NEW i \in Instance, LockLost(i) PROVE JobTypes'
  <2>2. run' = [run EXCEPT ![i] = [run[i] EXCEPT !.lost = TRUE]]
    BY <1>10 DEF LockLost
  <2>4. run[i] \in JobRun
    OBVIOUS
  <2>3. [run[i] EXCEPT !.lost = TRUE] \in JobRun
    BY <2>4 DEF JobRun
  <2>1. run' \in [Instance -> JobRun]
    BY <2>2, <2>3
  <2> QED
    BY <1>10, <2>1 DEF LockLost
<1>11. ASSUME NEW i \in Instance, LockFreed(i) \/ FreeFails(i) PROVE JobTypes'
  <2>1. run' \in [Instance -> JobRun] /\ run[i].age \in 0..Due
    BY <1>4, <1>11 DEF LockFreed, FreeFails, JobRun
  <2> QED
    BY <1>11, <2>1 DEF LockFreed, FreeFails, HoldLeft
<1>12. ASSUME NEW i \in Instance, InstanceCrashes(i) PROVE JobTypes'
  BY <1>0, <1>12 DEF InstanceCrashes
<1>13. ASSUME Expire PROVE JobTypes'
  BY <1>13 DEF Expire
<1>16. ASSUME NEW i \in Instance, LateCallStrikes(i) PROVE JobTypes'
  <2>1. run[i] \in JobRun /\ run' = [run EXCEPT ![i] = [run[i] EXCEPT !.struck = TRUE]]
    BY <1>16 DEF LateCallStrikes
  <2>2. [run[i] EXCEPT !.struck = TRUE] \in JobRun
    BY <2>1 DEF JobRun
  <2>3. run' \in [Instance -> JobRun]
    BY <2>1, <2>2
  <2> QED
    BY <1>16, <2>3 DEF LateCallStrikes
<1>17. ASSUME LateCallShortens \/ LateCallAcquires PROVE JobTypes'
  BY <1>17 DEF LateCallShortens, LateCallAcquires
<1>14. ASSUME Elapse PROVE JobTypes'
  <2>1. ASSUME NEW i \in Instance PROVE run'[i] \in JobRun
    <3>1. run[i] \in JobRun /\ Smaller(run[i].age + 1, Due) \in 0..Due
      BY DEF JobRun, Smaller
    <3>2. [run[i] EXCEPT !.age = Smaller(@ + 1, Due)] \in JobRun
      BY <3>1 DEF JobRun
    <3> QED
      BY <1>0, <1>14, <3>2 DEF Elapse
  <2>2. run' \in [Instance -> JobRun]
    BY <1>14, <2>1 DEF Elapse
  <2>3. jobCooldown' \in Nat /\ since' \in 0..Due
    BY <1>14 DEF Elapse, Smaller
  <2> QED
    BY <1>14, <2>2, <2>3 DEF Elapse
<1>15. CASE UNCHANGED jobVars
  BY <1>15 DEF jobVars
<1> QED
  BY <1>1, <1>3, <1>6, <1>7, <1>8, <1>9, <1>10, <1>11, <1>12, <1>13, <1>14, <1>15,
     <1>16, <1>17
  DEF JobNext, Settles

\* A step of instance i leaves the runs of the others alone.
LEMMA HolderWorksKept ==
  ASSUME JobTypes, HolderWorks, [JobNext]_jobVars PROVE HolderWorks'
<1> USE DEF JobTypes, HolderWorks, HasLock, Working, loop, lock
<1>0. NoRun.pc = "idle" /\ ~NoRun.lost /\ ~NoRun.struck
  BY DEF NoRun
<1>1. ASSUME NEW i \in Instance,
             \/ StartLoop(i) \/ TickStopped(i) \/ TickUnconfigured(i) \/ Stop(i)
             \/ StopReturns(i)
      PROVE HolderWorks'
  BY <1>1 DEF StartLoop, TickStopped, TickUnconfigured, Stop, StopReturns
<1>2. ASSUME NEW i \in Instance, NEW b \in BOOLEAN, Begin(i, b), Idle(i),
             UNCHANGED <<oneInstance, holder>>
      PROVE HolderWorks'
  <2>1. run'[i].pc = (IF oneInstance THEN "acquiring" ELSE "loading") /\ ~run'[i].lost /\ ~run'[i].struck
    BY <1>0, <1>2 DEF Begin, NoRun
  <2>2. \A j \in Instance \ {i} : run'[j] = run[j]
    BY <1>2 DEF Begin
  <2>3. holder # i
    BY <1>0, <1>2 DEF Idle
  <2> QED
    BY <1>2, <2>1, <2>2, <2>3
<1>3. ASSUME NEW i \in Instance, (\E read \in Setting : TickLoop(i, read)) \/ RunNow(i) PROVE HolderWorks'
  <2>1. CASE UNCHANGED <<run, oneInstance, holder>>
    BY <2>1
  <2> QED
    BY <1>2, <1>3, <2>1 DEF TickLoop, RunNow
<1>4. ASSUME NEW i \in Instance, Over(i) PROVE run'[i] = NoRun /\ \A j \in Instance \ {i} : run'[j] = run[j]
  BY <1>4 DEF Over
<1>5. ASSUME NEW i \in Instance, NEW b \in BOOLEAN, RunEnds(i, b), Working(i),
             UNCHANGED <<oneInstance, holder>>
      PROVE HolderWorks'
  <2>1. CASE oneInstance /\ ~run[i].lost
    <3>1. run'[i].pc = "freeing" /\ run'[i].lost = run[i].lost /\ run'[i].struck = run[i].struck
      BY <1>5, <2>1 DEF RunEnds, JobRun
    <3>2. \A j \in Instance \ {i} : run'[j] = run[j]
      BY <1>5, <2>1 DEF RunEnds
    <3> QED
      BY <1>5, <2>1, <3>1, <3>2
  <2>2. CASE ~(oneInstance /\ ~run[i].lost)
    BY <1>0, <1>4, <1>5, <2>2 DEF RunEnds
  <2> QED
    BY <2>1, <2>2
<1>6. ASSUME NEW i \in Instance, LockAcquired(i) PROVE HolderWorks'
  <2>1. run'[i].pc = "loading" /\ run'[i].lost = run[i].lost
       /\ run'[i].struck = run[i].struck /\ oneInstance /\ ~run[i].lost
    BY <1>6 DEF LockAcquired, JobRun
  <2>2. \A j \in Instance \ {i} : run'[j] = run[j] /\ holder # j
    BY <1>6 DEF LockAcquired, Free
  <2> QED
    BY <1>6, <2>1, <2>2 DEF LockAcquired
<1>7. ASSUME NEW i \in Instance, Busy(i) \/ AcquireFails(i) PROVE HolderWorks'
  <2>1. run'[i] = NoRun /\ \A j \in Instance \ {i} : run'[j] = run[j]
    BY <1>4, <1>7 DEF Busy, AcquireFails
  <2>2. holder # i /\ \A j \in Instance : (holder' = j) <=> (holder = j)
    BY <1>7 DEF Busy, AcquireFails, Free
  <2> QED
    BY <1>0, <1>7, <2>1, <2>2 DEF Busy, AcquireFails
<1>8. ASSUME NEW i \in Instance, NEW n \in 0..MaxRows, Loads(i, n) PROVE HolderWorks'
  <2>1. run'[i].pc \in {"reporting", "rows"} /\ run'[i].lost = run[i].lost /\ run'[i].struck = run[i].struck
    BY <1>8 DEF Loads, JobRun
  <2>2. \A j \in Instance \ {i} : run'[j] = run[j]
    BY <1>8 DEF Loads
  <2> QED
    BY <1>8, <2>1, <2>2 DEF Loads
<1>9. ASSUME NEW i \in Instance, NEW ok \in BOOLEAN, RowEnds(i, ok) PROVE HolderWorks'
  <2>1. run'[i].pc \in {"reporting", "rows"} /\ run'[i].lost = run[i].lost /\ run'[i].struck = run[i].struck
    BY <1>9 DEF RowEnds, JobRun
  <2>2. \A j \in Instance \ {i} : run'[j] = run[j]
    BY <1>9 DEF RowEnds
  <2> QED
    BY <1>9, <2>1, <2>2 DEF RowEnds
<1>10. ASSUME NEW i \in Instance, LoadFails(i) \/ BatchEnds(i) PROVE HolderWorks'
  <2>1. CASE RunEnds(i, FALSE) \/ RunEnds(i, TRUE)
    BY <1>5, <1>10, <2>1 DEF LoadFails, BatchEnds
  <2>2. CASE run[i].pc = "reporting" /\ run' = [run EXCEPT ![i].pc = "loading", ![i].extra = @ + 1]
    <3>1. run'[i].pc = "loading" /\ run'[i].lost = run[i].lost /\ run'[i].struck = run[i].struck
      BY <2>2 DEF JobRun
    <3>2. \A j \in Instance \ {i} : run'[j] = run[j]
      BY <2>2
    <3> QED
      BY <1>10, <2>2, <3>1, <3>2 DEF LoadFails, BatchEnds
  <2> QED
    BY <1>10, <2>1, <2>2 DEF LoadFails, BatchEnds
<1>11. ASSUME NEW i \in Instance, LockLost(i) PROVE HolderWorks'
  <2>1. run'[i].pc = run[i].pc /\ run'[i].lost
    BY <1>11 DEF LockLost, JobRun
  <2>2. \A j \in Instance \ {i} : run'[j] = run[j] /\ ((holder' = j) <=> (holder = j))
    BY <1>11 DEF LockLost
  <2>3. holder' # i
    BY <1>11 DEF LockLost
  <2> QED
    BY <1>11, <2>1, <2>2, <2>3 DEF LockLost
<1>12. ASSUME NEW i \in Instance, LockFreed(i) \/ FreeFails(i) PROVE HolderWorks'
  <2>1. run'[i] = NoRun /\ \A j \in Instance \ {i} : run'[j] = run[j]
    BY <1>4, <1>12 DEF LockFreed, FreeFails
  <2>2. holder' # i /\ \A j \in Instance \ {i} : (holder' = j) <=> (holder = j)
    BY <1>12 DEF LockFreed, FreeFails
  <2> QED
    BY <1>0, <1>12, <2>1, <2>2 DEF LockFreed, FreeFails
<1>13. ASSUME NEW i \in Instance, InstanceCrashes(i) PROVE HolderWorks'
  <2>1. run'[i] = NoRun /\ \A j \in Instance \ {i} : run'[j] = run[j]
    BY <1>4, <1>13 DEF InstanceCrashes
  <2>2. holder' # i /\ \A j \in Instance \ {i} : (holder' = j) <=> (holder = j)
    BY <1>13 DEF InstanceCrashes
  <2> QED
    BY <1>0, <1>13, <2>1, <2>2 DEF InstanceCrashes
<1>14. ASSUME Expire \/ LateCallShortens \/ LateCallAcquires PROVE HolderWorks'
  BY <1>14 DEF Expire, LateCallShortens, LateCallAcquires
<1>17. ASSUME NEW i \in Instance, LateCallStrikes(i) PROVE HolderWorks'
  <2>1. holder = i /\ holder' = None /\ oneInstance /\ HasLock(i)
    BY <1>17 DEF LateCallStrikes
  <2>2. run'[i].pc = run[i].pc /\ run'[i].lost = run[i].lost /\ run'[i].struck
    BY <1>17 DEF LateCallStrikes, JobRun
  <2>3. \A j \in Instance \ {i} : run'[j] = run[j] /\ holder # j
    BY <1>17 DEF LateCallStrikes
  <2> QED
    BY <1>17, <2>1, <2>2, <2>3 DEF LateCallStrikes
<1>15. ASSUME Elapse PROVE HolderWorks'
  <2>1. \A i \in Instance : run'[i].pc = run[i].pc /\ run'[i].lost = run[i].lost /\ run'[i].struck = run[i].struck
    BY <1>15 DEF Elapse, Idle, JobRun
  <2> QED
    BY <1>15, <2>1 DEF Elapse
<1>16. CASE UNCHANGED jobVars
  BY <1>16 DEF jobVars
<1> QED
  BY <1>1, <1>3, <1>6, <1>7, <1>8, <1>9, <1>10, <1>11, <1>12, <1>13, <1>14, <1>15, <1>16,
     <1>17
  DEF JobNext, Settles

\* A run that is not over moves only while stop() has not returned.
LEMMA ReturnedIsOverKept ==
  ASSUME JobTypes, HolderWorks, ReturnedIsOver, [JobNext]_jobVars PROVE ReturnedIsOver'
<1> USE DEF JobTypes, ReturnedIsOver, Working, loop, lock
<1>0. NoRun.pc = "idle"
  BY DEF NoRun
<1>1. ASSUME NEW i \in Instance,
             \/ StartLoop(i) \/ TickStopped(i) \/ TickUnconfigured(i) \/ Stop(i)
             \/ StopReturns(i)
      PROVE ReturnedIsOver'
  BY <1>1 DEF StartLoop, TickStopped, TickUnconfigured, Stop, StopReturns, Idle
<1>2. ASSUME NEW i \in Instance, (\E read \in Setting : TickLoop(i, read)) \/ RunNow(i) PROVE ReturnedIsOver'
  BY <1>2 DEF TickLoop, RunNow, Begin
<1>3. ASSUME NEW i \in Instance,
             \/ LockAcquired(i) \/ AcquireFails(i) \/ Busy(i) \/ LoadFails(i)
             \/ BatchEnds(i) \/ LockFreed(i) \/ FreeFails(i) \/ LockLost(i)
             \/ \E n \in 0..MaxRows : Loads(i, n)
             \/ \E ok \in BOOLEAN : RowEnds(i, ok)
      PROVE ReturnedIsOver'
  <2>1. run[i].pc # "idle" /\ UNCHANGED <<stopped, returned>>
    BY <1>3 DEF LockAcquired, AcquireFails, Busy, LoadFails, BatchEnds,
                LockFreed, FreeFails, LockLost, Loads, RowEnds
  <2>2. \A j \in Instance \ {i} : run'[j] = run[j]
    BY <1>3 DEF LockAcquired, AcquireFails, Busy, LoadFails, BatchEnds,
                LockFreed, FreeFails, LockLost, Loads, RowEnds, Over, RunEnds
  <2> QED
    BY <1>0, <2>1, <2>2
<1>4. ASSUME NEW i \in Instance, InstanceCrashes(i) PROVE ReturnedIsOver'
  BY <1>4 DEF InstanceCrashes, Over
<1>5. ASSUME Expire \/ LateCallShortens \/ LateCallAcquires PROVE ReturnedIsOver'
  BY <1>5 DEF Expire, LateCallShortens, LateCallAcquires
<1>8. ASSUME Elapse PROVE ReturnedIsOver'
  <2>1. UNCHANGED <<stopped, returned>> /\ ~NoRun.hold
    BY <1>8 DEF Elapse, NoRun
  <2>2. \A i \in Instance : ~run[i].hold => run'[i] = run[i]
    BY <1>8 DEF Elapse
  <2> QED
    BY <2>1, <2>2
<1>7. ASSUME NEW i \in Instance, LateCallStrikes(i) PROVE ReturnedIsOver'
  BY <1>0, <1>7 DEF LateCallStrikes, HolderWorks, HasLock
<1>6. CASE UNCHANGED jobVars
  BY <1>6 DEF jobVars
<1> QED
  BY <1>1, <1>2, <1>3, <1>4, <1>5, <1>6, <1>7, <1>8 DEF JobNext, Settles

\* One unit of time passes: e is what is left of the cooldown, t what is past.
LEMMA OneUnit ==
  ASSUME NEW s \in Nat, NEW t \in Nat, NEW c \in Nat, NEW e \in Nat, NEW d \in Nat,
         e = c \/ e = c - 1, t = s + 1 \/ t = d, s + c >= d
  PROVE  t + e >= d
OBVIOUS

LEMMA SpacedKept ==
  ASSUME JobTypes, Spaced, [JobNext]_jobVars PROVE Spaced'
<1> USE DueNat DEF JobTypes, Spaced, loop, lock
<1>1. ASSUME NEW i \in Instance, LockFreed(i) PROVE Spaced'
  <2>1. run[i].age \in 0..Due /\ Ahead[i] \in Nat
    BY DEF JobRun
  <2> QED
    BY <1>1, <2>1 DEF LockFreed, HoldLeft, Due
<1>2. ASSUME Elapse PROVE Spaced'
  <2>1. since' = since + 1 \/ since' = Due
    BY <1>2 DEF Elapse, Smaller
  <2>2. jobCooldown' \in Nat /\ (jobCooldown' = jobCooldown \/ jobCooldown' = jobCooldown - 1)
    <3>1. jobCooldown' = (IF jobCooldown \in {None, 0} THEN jobCooldown ELSE jobCooldown - 1)
      BY <1>2 DEF Elapse
    <3>2. jobCooldown \in Nat
      OBVIOUS
    <3> QED
      BY ONLY <3>1, <3>2
  <2>4. spoilt' = spoilt /\ Due \in Nat /\ since \in Nat /\ jobCooldown \in Nat /\ since' \in Nat
    BY <1>2, <2>1 DEF Elapse
  <2>3. Due' = Due
    BY DEF Due
  <2>5. since + jobCooldown >= Due => since' + jobCooldown' >= Due
    BY <2>1, <2>2, <2>4, OneUnit
  <2> QED
    BY <2>3, <2>4, <2>5
<1>4. CASE LateCallShortens
  BY <1>4 DEF LateCallShortens
<1>3. CASE UNCHANGED <<jobCooldown, since, spoilt>>
  BY <1>3 DEF Due
<1> QED
  BY <1>1, <1>2, <1>3, <1>4 DEF JobNext, Settles, jobVars, StartLoop, TickStopped,
     TickUnconfigured, Stop, StopReturns, TickLoop, RunNow, LockAcquired,
     AcquireFails, Busy, LoadFails, BatchEnds, FreeFails, LockLost,
     Loads, RowEnds, InstanceCrashes, Expire, LateCallStrikes, LateCallAcquires

LEMMA JobInvHolds == JobSpec => []JobInv
<1>1. JobInv /\ [JobNext]_jobVars => JobInv'
  BY JobTypesKept, HolderWorksKept, ReturnedIsOverKept, SpacedKept DEF JobInv
<1> QED
  BY <1>1, JobInitially, PTL DEF JobSpec

\* After stop() returned nothing of the instance runs or holds the lock.
THEOREM StoppedIsIdleTheorem == JobSpec => []StoppedIsIdle
<1>1. JobInv => StoppedIsIdle
  BY DEF JobInv, ReturnedIsOver, HolderWorks, HasLock, StoppedIsIdle, Idle, Working,
         NoRun
<1> QED
  BY <1>1, JobInvHolds, PTL

\* The runs of a job that runs on one instance at a time do not overlap, but
\* for one that lost its lock or whose lease a late call of an earlier run of
\* its runner has ended.
THEOREM OneRunAtATime ==
  JobSpec => [](oneInstance => \A i, j \in Instance :
                  /\ Working(i) /\ ~run[i].lost /\ ~run[i].struck
                  /\ Working(j) /\ ~run[j].lost /\ ~run[j].struck
                  => i = j)
<1> DEFINE Alone == oneInstance => \A i, j \in Instance :
             /\ Working(i) /\ ~run[i].lost /\ ~run[i].struck
             /\ Working(j) /\ ~run[j].lost /\ ~run[j].struck
             => i = j
<1>1. JobInv => Alone
  BY DEF JobInv, HolderWorks, HasLock
<1> QED
  BY <1>1, JobInvHolds, PTL

\* A step that finds the run of i under way and leaves it under way.
LEMMA WorkingStep ==
  ASSUME JobTypes, JobNext, NEW i \in Instance, Working(i), Working(i)'
  PROVE  \/ /\ run'[i].extra = run[i].extra /\ run'[i].left = run[i].left
            /\ run'[i].active = run[i].active
         \/ \E n \in 0..MaxRows : Loads(i, n)
         \/ \E ok \in BOOLEAN : RowEnds(i, ok)
         \/ BatchEnds(i)
<1> USE DEF JobTypes, Working
<1>0. run[i].pc # "idle" /\ NoRun.pc = "idle" /\ run[i] # NoRun
  BY DEF NoRun
<1>1. CASE run'[i] = run[i]
  BY <1>1
<1>2. ASSUME NEW j \in Instance,
             \/ StartLoop(j) \/ TickStopped(j) \/ TickUnconfigured(j) \/ Stop(j)
             \/ StopReturns(j) \/ (\E read \in Setting : TickLoop(j, read)) \/ RunNow(j)
      PROVE run'[i] = run[i]
  BY <1>0, <1>2 DEF StartLoop, TickStopped, TickUnconfigured, Stop, StopReturns,
     TickLoop, RunNow, Begin, Idle
<1>3. ASSUME NEW j \in Instance,
             \/ LockAcquired(j) \/ AcquireFails(j) \/ Busy(j) \/ LoadFails(j)
             \/ LockFreed(j) \/ FreeFails(j) \/ InstanceCrashes(j)
      PROVE run'[i] = run[i]
  <2>1. CASE i = j
    <3>1. ~LockAcquired(i) /\ ~AcquireFails(i) /\ ~Busy(i) /\ ~LockFreed(i) /\ ~FreeFails(i)
      BY DEF LockAcquired, AcquireFails, Busy, LockFreed, FreeFails
    <3>2. ASSUME Over(i) PROVE FALSE
      BY <1>0, <3>2 DEF Over
    <3>3. ASSUME RunEnds(i, FALSE) PROVE FALSE
      <4>1. CASE run' = [run EXCEPT ![i].pc = "freeing", ![i].hold = @ /\ FALSE /\ ~stopped[i]]
        BY <4>1 DEF JobRun
      <4> QED
        BY <3>2, <3>3, <4>1 DEF RunEnds
    <3> QED
      BY <1>0, <1>3, <2>1, <3>1, <3>2, <3>3 DEF LoadFails, InstanceCrashes
  <2>2. CASE i # j
    BY <1>3, <2>2 DEF LockAcquired, AcquireFails, Busy, LoadFails, LockFreed,
       FreeFails, InstanceCrashes, Over, RunEnds
  <2> QED
    BY <2>1, <2>2
<1>4. ASSUME NEW j \in Instance, i # j,
             \/ BatchEnds(j) \/ \E n \in 0..MaxRows : Loads(j, n)
             \/ \E ok \in BOOLEAN : RowEnds(j, ok)
      PROVE run'[i] = run[i]
  BY <1>4 DEF BatchEnds, Loads, RowEnds, Over, RunEnds
<1>5. ASSUME NEW j \in Instance, LockLost(j) \/ LateCallStrikes(j)
      PROVE /\ run'[i].extra = run[i].extra /\ run'[i].left = run[i].left
            /\ run'[i].active = run[i].active
  BY <1>5 DEF LockLost, LateCallStrikes, JobRun
<1>6. ASSUME Elapse
      PROVE /\ run'[i].extra = run[i].extra /\ run'[i].left = run[i].left
            /\ run'[i].active = run[i].active
  BY <1>6 DEF Elapse, JobRun, Idle
<1>7. ASSUME Expire \/ LateCallShortens \/ LateCallAcquires PROVE run'[i] = run[i]
  BY <1>7 DEF Expire, LateCallShortens, LateCallAcquires
<1> QED
  BY <1>1, <1>2, <1>3, <1>4, <1>5, <1>6, <1>7 DEF JobNext, Settles

\* A run that lost its lock, or whose runner stops, begins no row and no batch
\* more.
THEOREM AbortedBeginsNothingTheorem == JobSpec => AbortedBeginsNothing
<1> DEFINE Nothing(i) ==
      /\ run'[i].extra = run[i].extra
      /\ \/ run'[i].left = run[i].left /\ run'[i].active <= run[i].active
         \/ run[i].pc = "loading" /\ run'[i].active = 0
    Begun == \A i \in Instance : Aborted(i) /\ Working(i) /\ Working(i)' => Nothing(i)
<1>1. JobInv /\ [JobNext]_jobVars => [Begun]_jobVars
  <2> SUFFICES ASSUME JobInv, JobNext, NEW i \in Instance, Aborted(i), Working(i), Working(i)'
               PROVE  Nothing(i)
    OBVIOUS
  <2>0. JobTypes /\ run[i] \in JobRun
    BY DEF JobInv, JobTypes
  <2>1. CASE /\ run'[i].extra = run[i].extra /\ run'[i].left = run[i].left
             /\ run'[i].active = run[i].active
    BY <2>0, <2>1 DEF JobRun
  <2>2. ASSUME NEW n \in 0..MaxRows, Loads(i, n) PROVE Nothing(i)
    <3>1. run[i].pc = "loading" /\ run'[i].active = 0 /\ run'[i].extra = run[i].extra
      BY <2>0, <2>2 DEF Loads, JobRun, JobTypes
    <3> QED
      BY <3>1
  <2>3. ASSUME NEW ok \in BOOLEAN, RowEnds(i, ok) PROVE Nothing(i)
    <3>1. /\ run'[i].extra = run[i].extra /\ run'[i].left = run[i].left
          /\ run'[i].active = run[i].active - 1
      BY <2>0, <2>3 DEF RowEnds, NextRow, JobRun, JobTypes
    <3> QED
      BY <2>0, <3>1 DEF JobRun
  <2>4. ~BatchEnds(i)
    <3>1. ASSUME RunEnds(i, TRUE) PROVE ~Working(i)'
      BY <2>0, <3>1 DEF RunEnds, Over, Working, NoRun, JobTypes, JobRun
    <3> QED
      BY <3>1 DEF BatchEnds
  <2> QED
    BY <2>0, <2>1, <2>2, <2>3, <2>4, WorkingStep
<1> QED
  BY <1>1, JobInvHolds, PTL DEF JobSpec, AbortedBeginsNothing

\* A run by schedule that held the lock on keeps every other run, of whichever
\* instance, away until the next is due, but for the skew of the clocks and for
\* a cooldown that a late call of an earlier run of its runner has shortened.
THEOREM HeldRunsAreSpacedTheorem == JobSpec => HeldRunsAreSpaced
<1> DEFINE Apart ==
      \A i \in Instance : oneInstance /\ ~Working(i) /\ Working(i)' => since >= Due - MaxAhead \/ spoilt
<1>1. JobInv /\ [JobNext]_jobVars => [Apart]_jobVars
  <2> SUFFICES ASSUME JobInv, JobNext, NEW i \in Instance, oneInstance, ~Working(i), Working(i)'
               PROVE  since >= Due - MaxAhead \/ spoilt
    OBVIOUS
  <2> USE DEF JobInv, JobTypes, Working, loop
  <2>0. NoRun.pc = "idle"
    BY DEF NoRun
  <2>1. CASE \E j \in Instance : LockAcquired(j)
    <3>1. PICK j \in Instance : jobCooldown <= Ahead[j]
      BY <2>1 DEF LockAcquired, Free
    <3>2. Ahead[j] \in 0..MaxAhead
      OBVIOUS
    <3> QED
      BY <3>1, <3>2, DueNat DEF Spaced
  <2>2. ASSUME NEW j \in Instance, NEW b \in BOOLEAN, Begin(j, b) PROVE FALSE
    <3>1. run'[j].pc = "acquiring" /\ \A k \in Instance \ {j} : run'[k] = run[k]
      BY <2>2 DEF Begin, NoRun
    <3> QED
      BY <3>1
  <2>3. ASSUME NEW j \in Instance, (\E read \in Setting : TickLoop(j, read)) \/ RunNow(j) PROVE FALSE
    BY <2>2, <2>3 DEF TickLoop, RunNow
  <2>4. ASSUME NEW j \in Instance, Over(j) PROVE FALSE
    BY <2>0, <2>4 DEF Over
  <2>5. ASSUME NEW j \in Instance, NEW b \in BOOLEAN, RunEnds(j, b) PROVE FALSE
    BY <2>4, <2>5 DEF RunEnds, JobRun
  <2>6. ASSUME NEW j \in Instance,
               \/ StartLoop(j) \/ TickStopped(j) \/ TickUnconfigured(j) \/ Stop(j)
               \/ StopReturns(j)
        PROVE FALSE
    BY <2>6 DEF StartLoop, TickStopped, TickUnconfigured, Stop, StopReturns
  <2>7. ASSUME NEW j \in Instance,
               \/ AcquireFails(j) \/ Busy(j) \/ LoadFails(j) \/ LockFreed(j)
               \/ FreeFails(j) \/ InstanceCrashes(j)
        PROVE FALSE
    BY <2>0, <2>4, <2>5, <2>7 DEF AcquireFails, Busy, LoadFails, LockFreed, FreeFails,
       InstanceCrashes
  <2>8. ASSUME NEW j \in Instance,
               \/ BatchEnds(j) \/ \E n \in 0..MaxRows : Loads(j, n)
               \/ \E ok \in BOOLEAN : RowEnds(j, ok) \/ LockLost(j)
        PROVE FALSE
    <3>1. Working(j)
      BY <2>8 DEF BatchEnds, Loads, RowEnds, LockLost
    <3>2. i # j => run'[i] = run[i]
      BY <2>8 DEF BatchEnds, Loads, RowEnds, LockLost, RunEnds, Over
    <3> QED
      BY <3>1, <3>2
  <2>9. ~Expire /\ ~LateCallShortens /\ ~LateCallAcquires
    BY DEF Expire, LateCallShortens, LateCallAcquires
  <2>11. ASSUME NEW j \in Instance, LateCallStrikes(j) PROVE FALSE
    BY <2>11 DEF LateCallStrikes, JobRun
  <2>10. ASSUME Elapse PROVE FALSE
    <3>1. run'[i].pc = run[i].pc
      BY <2>0, <2>10 DEF Elapse, Idle, JobRun
    <3> QED
      BY <3>1
  <2> QED
    BY <2>1, <2>3, <2>6, <2>7, <2>8, <2>9, <2>10, <2>11 DEF JobNext, Settles
<1> QED
  BY <1>1, JobInvHolds, PTL DEF JobSpec, HeldRunsAreSpaced
=============================================================================

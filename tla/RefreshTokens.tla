---------------------------- MODULE RefreshTokens ----------------------------
(***************************************************************************)
(* GGAuthRefreshToken over its RefreshTokenStore: rotation of refresh      *)
(* tokens, detection of reuse and revocation, with calls of refresh()      *)
(* interleaved at their awaits. A store method takes effect when it is     *)
(* called, as in InMemoryRefreshTokenStore; the caller goes on later.      *)
(***************************************************************************)
EXTENDS Integers

CONSTANTS
  Family,     \* lineages, one per login
  Subject,    \* users
  SubjectOf,  \* of each family
  Token,      \* random tokens, never drawn twice
  Call,       \* calls of refresh() at a time
  None,
  Graces,     \* values of reuseGraceMs, in ticks; 0 is the strict policy
  Ttl,        \* refreshTtlMs, in ticks
  MaxNow      \* bound on the clock

ASSUME RefreshAssumption ==
  /\ None \notin Token /\ None \notin Family /\ None \notin Call
  /\ SubjectOf \in [Family -> Subject]
  /\ Graces \subseteq Nat /\ Ttl \in Nat \ {0} /\ MaxNow \in Nat

VARIABLES
  now,
  grace,   \* reuseGraceMs
  store,   \* the record of each token; one no longer stored keeps its last value
  pc,      \* of each refresh(): where it awaits
  held,    \* of each refresh(): the token it was called with
  found,   \* of each refresh(): the record it found
  mintAt,  \* of each refresh(): when it began to mint
  ended,      \* history: of each family, how it was ended
  survivors,  \* history: of each family, the calls that worked for it when it was revoked
  reborn      \* history: revoked families one of these calls then saved a token of

call == <<pc, held, found, mintAt>>
fate == <<ended, survivors, reborn>>
vars == <<now, grace, store, call, fate>>

Unspent == -1
NoRecord == [family |-> None, expiresAt |-> 0, spentAt |-> Unspent, stored |-> FALSE]
Record == [family : Family \cup {None}, expiresAt : Nat, spentAt : Nat \cup {Unspent},
           stored : BOOLEAN]
Places == {"idle", "finding", "lost", "resolving", "signing", "failed",
           "grace resolving", "grace signing"}

TypeOK ==
  /\ now \in Nat /\ grace \in Graces
  /\ store \in [Token -> Record]
  /\ pc \in [Call -> Places] /\ held \in [Call -> Token \cup {None}]
  /\ found \in [Call -> Record] /\ mintAt \in [Call -> Nat]
  /\ ended \in [Family -> {"no", "logged out", "revoked"}]
  /\ survivors \in [Family -> SUBSET Call] /\ reborn \subseteq Family

Init ==
  /\ now = 0 /\ grace \in Graces
  /\ store = [t \in Token |-> NoRecord]
  /\ pc = [k \in Call |-> "idle"] /\ held = [k \in Call |-> None]
  /\ found = [k \in Call |-> NoRecord] /\ mintAt = [k \in Call |-> 0]
  /\ ended = [f \in Family |-> "no"]
  /\ survivors = [f \in Family |-> {}] /\ reborn = {}

Members(f) == {t \in Token : store[t].family = f}
Live(t) == store[t].stored /\ store[t].spentAt = Unspent
Expired(r) == r.expiresAt <= now

\* A call that spent a token of f and has neither minted its child nor given up.
Rotates(k, f) ==
  pc[k] \in {"resolving", "signing", "failed"} /\ found[k].family = f

-----------------------------------------------------------------------------
(* InMemoryRefreshTokenStore. Every save drops the expired records.        *)

SaveRecord(t, r) ==
  store' = [u \in Token |->
              IF u = t THEN r
              ELSE [store[u] EXCEPT !.stored = @ /\ ~Expired(store[u])]]

\* Mutant: revocation spares the tokens that were spent.
RemoveLive(T) ==
  store' = [t \in Token |-> [store[t] EXCEPT !.stored = @ /\ ~(t \in T /\ Live(t))]]

Remove(T) ==
  store' = [t \in Token |-> [store[t] EXCEPT !.stored = @ /\ t \notin T]]

\* Revocation by `by`, a call or None; the other calls for the family go on.
Revoke(F, by) ==
  /\ Remove({t \in Token : store[t].family \in F})
  /\ ended' = [f \in Family |-> IF f \in F THEN "revoked" ELSE ended[f]]
  /\ survivors' = [f \in Family |-> IF f \notin F THEN survivors[f]
                                   ELSE {k \in Call \ {by} : found[k].family = f}]
  /\ reborn' = reborn \ F

-----------------------------------------------------------------------------
(* GGAuthRefreshToken.                                                     *)

Goes(k, place) == pc' = [pc EXCEPT ![k] = place] /\ UNCHANGED <<held, found, mintAt>>

Returns(k) ==
  /\ pc' = [pc EXCEPT ![k] = "idle"] /\ held' = [held EXCEPT ![k] = None]
  /\ found' = [found EXCEPT ![k] = NoRecord] /\ mintAt' = [mintAt EXCEPT ![k] = 0]

\* mint: the new record goes to the store, the new token to the caller.
Mint(t, f, at) ==
  /\ store[t] = NoRecord
  /\ SaveRecord(t, [family |-> f, expiresAt |-> at + Ttl, spentAt |-> Unspent,
                    stored |-> TRUE])

Issue(f, t) ==
  /\ Members(f) = {}
  /\ Mint(t, f, now)
  /\ UNCHANGED <<now, grace, call, fate>>

\* refresh() may be called with any token; one that is not stored is refused.
Find(k, t) ==
  /\ pc[k] = "idle" /\ store[t].stored
  /\ pc' = [pc EXCEPT ![k] = "finding"]
  /\ held' = [held EXCEPT ![k] = t] /\ found' = [found EXCEPT ![k] = store[t]]
  /\ UNCHANGED <<now, grace, store, mintAt, fate>>

Found(k) == pc[k] = "finding"

RejectExpired(k) ==
  /\ Found(k) /\ Expired(found[k])
  /\ Returns(k)
  /\ UNCHANGED <<now, grace, store, fate>>

InGrace(r) == grace > 0 /\ now - r.spentAt <= grace

RetryInGrace(k) ==
  /\ Found(k) /\ ~Expired(found[k])
  /\ found[k].spentAt # Unspent /\ InGrace(found[k])
  /\ Goes(k, "grace resolving")
  /\ UNCHANGED <<now, grace, store, fate>>

DetectReuse(k) ==
  /\ Found(k) /\ ~Expired(found[k])
  /\ found[k].spentAt # Unspent /\ ~InGrace(found[k])
  /\ Revoke({found[k].family}, k)
  /\ Returns(k)
  /\ UNCHANGED <<now, grace>>

\* Mutant: markSpent does not look whether the record is still live.
SpendAnyway(k) ==
  LET t == held[k] IN
  /\ Found(k) /\ ~Expired(found[k]) /\ found[k].spentAt = Unspent
  /\ store' = [store EXCEPT ![t].spentAt = now, ![t].stored = TRUE]
  /\ Goes(k, "resolving")
  /\ UNCHANGED <<now, grace, fate>>

\* markSpent is the gate: of the calls that found the token live one spends it.
Spend(k) ==
  LET t == held[k] IN
  /\ Found(k) /\ ~Expired(found[k]) /\ found[k].spentAt = Unspent
  /\ IF Live(t)
     THEN store' = [store EXCEPT ![t].spentAt = now] /\ Goes(k, "resolving")
     ELSE UNCHANGED store /\ Goes(k, "lost")
  /\ UNCHANGED <<now, grace, fate>>

RevokeAsLoser(k) ==
  /\ pc[k] = "lost"
  /\ Revoke({found[k].family}, k)
  /\ Returns(k)
  /\ UNCHANGED <<now, grace>>

Resolve(k) ==
  /\ pc[k] \in {"resolving", "grace resolving"}
  /\ mintAt' = [mintAt EXCEPT ![k] = now]
  /\ pc' = [pc EXCEPT ![k] = IF @ = "resolving" THEN "signing" ELSE "grace signing"]
  /\ UNCHANGED <<now, grace, store, held, found, fate>>

\* Mutant: a failed refresh leaves its token spent.
FailSpent(k) ==
  /\ pc[k] \in {"resolving", "signing", "grace resolving", "grace signing"}
  /\ Returns(k)
  /\ UNCHANGED <<now, grace, store, fate>>

\* resolve() or the signing of the access token throws.
Fail(k) ==
  /\ pc[k] \in {"resolving", "signing", "grace resolving", "grace signing"}
  /\ IF pc[k] \in {"resolving", "signing"} THEN Goes(k, "failed") ELSE Returns(k)
  /\ UNCHANGED <<now, grace, store, fate>>

\* For the properties: it saves a token of a family that was revoked under it.
Survives(k) ==
  reborn' = reborn \cup {f \in Family : f = found[k].family /\ k \in survivors[f]}

\* The record goes back as it was found, whatever became of it meanwhile.
Unspend(k) ==
  /\ pc[k] = "failed"
  /\ SaveRecord(held[k], found[k])
  /\ Survives(k)
  /\ Returns(k)
  /\ UNCHANGED <<now, grace, ended, survivors>>

SaveChild(k, t) ==
  /\ pc[k] \in {"signing", "grace signing"}
  /\ Mint(t, found[k].family, mintAt[k])
  /\ Survives(k)
  /\ Returns(k)
  /\ UNCHANGED <<now, grace, ended, survivors>>

\* revoke(refreshToken), a logout.
RevokeToken(t) ==
  /\ store[t].stored
  /\ Remove({t})
  /\ ended' = [ended EXCEPT ![store[t].family] = IF @ = "no" THEN "logged out" ELSE @]
  /\ UNCHANGED <<now, grace, call, survivors, reborn>>

RevokeAll(subject) ==
  /\ Revoke({f \in Family : SubjectOf[f] = subject /\ Members(f) # {}}, None)
  /\ UNCHANGED <<now, grace, call>>

Tick ==
  /\ now < MaxNow
  /\ now' = now + 1
  /\ UNCHANGED <<grace, store, call, fate>>

Next ==
  \/ \E f \in Family, t \in Token : Issue(f, t)
  \/ \E k \in Call : \/ RejectExpired(k) \/ RetryInGrace(k) \/ DetectReuse(k)
                     \/ Spend(k) \/ RevokeAsLoser(k) \/ Resolve(k) \/ Fail(k)
                     \/ Unspend(k)
                     \/ \E t \in Token : Find(k, t) \/ SaveChild(k, t)
  \/ \E t \in Token : RevokeToken(t)
  \/ \E subject \in Subject : RevokeAll(subject)
  \/ Tick

Spec == Init /\ [][Next]_vars

-----------------------------------------------------------------------------
(* Properties.                                                             *)

\* Under the strict policy a lineage has one token that can be redeemed, however
\* many calls redeem at once, fail and undo their spend, or mint after their
\* family was revoked: whoever holds a stolen token cannot keep a branch alive
\* beside its owner.
OneLiveToken ==
  grace = 0 => \A t, u \in Token :
    Live(t) /\ Live(u) /\ store[t].family = store[u].family => t = u

\* A refresh that fails does not burn the session: a family nobody revoked has a
\* redeemable token or a call about to make one, until its last token expires.
NotBurned ==
  \A f \in Family : Members(f) # {} /\ ended[f] = "no" =>
    \/ \E t \in Members(f) : store[t].spentAt = Unspent
                             /\ (store[t].stored \/ Expired(store[t]))
    \/ \E k \in Call : Rotates(k, f)

\* A revoked family has no token in the store, now or ever, unless a call that was
\* under way when it was revoked has saved one since: nothing else brings it back.
RevokedStaysRevoked ==
  \A f \in Family : ended[f] = "revoked" /\ f \notin reborn =>
    \A t \in Members(f) : ~store[t].stored

\* "the whole lineage is revoked", without that exception.
RevokedLineageIsDead ==
  \A f \in Family : ended[f] = "revoked" => \A t \in Members(f) : ~Live(t)
=============================================================================

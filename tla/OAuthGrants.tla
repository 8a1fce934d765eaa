----------------------------- MODULE OAuthGrants -----------------------------
(***************************************************************************)
(* GGOAuthServer and its store: the grants, codes and refresh tokens of    *)
(* one account, and the account's login session, while authorizations,     *)
(* redemptions at the token endpoint and revocations interleave between    *)
(* their calls of the store. The steps that oidc-provider takes are        *)
(* modelled from its use in GGOAuthServer.                                 *)
(***************************************************************************)
EXTENDS Naturals, FiniteSets

CONSTANTS
  MaxGrant,   \* bound on grants
  MaxToken,   \* bound on codes and refresh tokens
  Request     \* redemptions at the token endpoint

ASSUME OAuthAssumption == MaxGrant \in Nat /\ MaxToken \in Nat

VARIABLES
  grants, session,         \* rows of the store: Grant, Session
  lastGrant, lastToken,    \* ids made so far
  row,        \* of each token: its row in the store
  grantOf,    \* of each token: its grantId
  isCode,     \* the tokens that are codes
  auth, authGrant,         \* the authorization under way: its step, its grant
  overtaken,  \* history: something was revoked while it was under way
  returned,   \* history: grants saved by an authorization so overtaken
  resumed,    \* history: so was the session
  pc, presented, late,     \* of each request: its step, its token, and whether the
                           \* token's grant was revoked, and not saved again, before it came
  toRevoke,   \* grants being revoked whose rows are still to go
  toDestroy,  \* grants being revoked whose Grant is still to go
  revoked,    \* grants whose revocation has returned
  everywhere  \* the step of revokeAll

store == <<grants, session, lastGrant, lastToken, row, grantOf, isCode>>
authorization == <<auth, authGrant, overtaken>>
comeback == <<returned, resumed>>
requests == <<pc, presented, late>>
revocation == <<toRevoke, toDestroy, revoked, everywhere>>
vars == <<store, authorization, comeback, requests, revocation>>

Grant == 1..MaxGrant
Token == 1..MaxToken
None == 0

TypeOK ==
  /\ session \in BOOLEAN /\ overtaken \in BOOLEAN /\ resumed \in BOOLEAN
  /\ lastGrant \in 0..MaxGrant /\ grants \subseteq 1..lastGrant
  /\ lastToken \in 0..MaxToken
  /\ row \in [Token -> {"none", "live", "consumed", "gone"}]
  /\ \A t \in Token : row[t] = "none" <=> t > lastToken
  /\ grantOf \in [Token -> 0..lastGrant] /\ isCode \subseteq 1..lastToken
  /\ auth \in {"idle", "loaded", "granted"} /\ authGrant \in 0..lastGrant
  /\ pc \in [Request -> {"idle", "found", "consumed", "issued", "burnt"}]
  /\ \A q \in Request : pc[q] = "idle" <=> presented[q] = None
  /\ presented \in [Request -> 0..lastToken] /\ late \in [Request -> BOOLEAN]
  /\ toRevoke \subseteq 1..lastGrant /\ toDestroy \subseteq 1..lastGrant
  /\ revoked \subseteq 1..lastGrant /\ returned \subseteq 1..lastGrant
  /\ everywhere \in {"idle", "sessions", "grants", "done"}

Init ==
  /\ overtaken = FALSE /\ returned = {} /\ resumed = FALSE
  /\ grants = {} /\ session = FALSE /\ lastGrant = 0
  /\ lastToken = 0 /\ row = [t \in Token |-> "none"]
  /\ grantOf = [t \in Token |-> None] /\ isCode = {}
  /\ auth = "idle" /\ authGrant = None
  /\ pc = [q \in Request |-> "idle"] /\ presented = [q \in Request |-> None]
  /\ late = [q \in Request |-> FALSE]
  /\ toRevoke = {} /\ toDestroy = {} /\ revoked = {} /\ everywhere = "idle"

Step(q, s) == pc' = [pc EXCEPT ![q] = s]

NewToken(g, code) ==
  LET t == lastToken + 1 IN
  /\ lastToken < MaxToken /\ lastToken' = t
  /\ row' = [row EXCEPT ![t] = "live"] /\ grantOf' = [grantOf EXCEPT ![t] = g]
  /\ isCode' = IF code THEN isCode \cup {t} ELSE isCode

-----------------------------------------------------------------------------
(* Authorization.                                                          *)

Revokes == toRevoke # {} \/ toDestroy # {} \/ everywhere \in {"sessions", "grants"}

\* The user signs in, or is signed in; the grant of an earlier consent is read.
Authorize ==
  /\ auth = "idle" /\ lastToken < MaxToken
  /\ auth' = "loaded" /\ session' = TRUE
  /\ authGrant' \in grants \cup {None}
  /\ overtaken' = Revokes /\ resumed' = Revokes
  /\ everywhere' = IF everywhere = "done" THEN "idle" ELSE everywhere
  /\ UNCHANGED <<grants, lastGrant, lastToken, row, grantOf, isCode, returned, requests,
                 toRevoke, toDestroy, revoked>>

\* grant.save(): of a new grant, or again of the one that was read.
SaveGrant ==
  /\ auth = "loaded" /\ auth' = "granted"
  /\ \/ authGrant # None /\ UNCHANGED <<authGrant, lastGrant>>
     \/ authGrant = None /\ lastGrant < MaxGrant
        /\ lastGrant' = lastGrant + 1 /\ authGrant' = lastGrant + 1
  /\ grants' = grants \cup {authGrant'}
  /\ returned' = IF overtaken THEN returned \cup {authGrant'} ELSE returned
  /\ UNCHANGED <<session, lastToken, row, grantOf, isCode, overtaken, resumed, requests,
                 revocation>>

AuthorizationEnds == auth' = "idle" /\ authGrant' = None /\ overtaken' = FALSE

\* The code is saved, and the session with the grant it now knows.
SaveCode ==
  /\ auth = "granted" /\ AuthorizationEnds
  /\ NewToken(authGrant, TRUE) /\ session' = TRUE /\ resumed' = overtaken
  /\ UNCHANGED <<grants, lastGrant, returned, requests, revocation>>

AuthorizeFails ==
  /\ auth # "idle" /\ AuthorizationEnds
  /\ UNCHANGED <<store, comeback, requests, revocation>>

-----------------------------------------------------------------------------
(* Redemption at the token endpoint.                                       *)

RowsOf(g) == {t \in Token : row[t] # "none" /\ grantOf[t] = g}
RevokeByGrantId(g) == [t \in Token |-> IF t \in RowsOf(g) THEN "gone" ELSE row[t]]

Refuse(q) ==
  /\ Step(q, "idle") /\ presented' = [presented EXCEPT ![q] = None]
  /\ late' = [late EXCEPT ![q] = FALSE]

\* The token and its grant are found.
Present(q, t) ==
  /\ pc[q] = "idle" /\ row[t] = "live" /\ grantOf[t] \in grants
  /\ Step(q, "found") /\ presented' = [presented EXCEPT ![q] = t]
  /\ late' = [late EXCEPT ![q] = grantOf[t] \in revoked \ returned]
  /\ UNCHANGED <<store, authorization, comeback, revocation>>

\* A consumed token is refused, and revokes what its grant bought.
PresentAgain(t) ==
  /\ row[t] = "consumed" /\ grantOf[t] \in grants
  /\ row' = RevokeByGrantId(grantOf[t])
  /\ UNCHANGED <<grants, session, lastGrant, lastToken, grantOf, isCode, authorization, comeback,
                 requests, revocation>>

\* rotateRefreshToken cannot resolve the claims; a code's are resolved later.
RotateRefreshTokenFails(q) ==
  /\ pc[q] = "found" /\ presented[q] \notin isCode /\ Refuse(q)
  /\ UNCHANGED <<store, authorization, comeback, revocation>>

\* Mutant: the mark is not checked.
ConsumeAgain(q) ==
  /\ pc[q] = "found"
  /\ row' = [row EXCEPT ![presented[q]] = "consumed"] /\ Step(q, "consumed")
  /\ UNCHANGED <<grants, session, lastGrant, lastToken, grantOf, isCode, authorization, comeback,
                 presented, late, revocation>>

\* The store's atomic mark: a token used or revoked meanwhile is refused.
Consume(q) ==
  /\ pc[q] = "found"
  /\ IF row[presented[q]] = "live"
     THEN /\ row' = [row EXCEPT ![presented[q]] = "consumed"] /\ Step(q, "consumed")
          /\ UNCHANGED <<presented, late>>
     ELSE row' = row /\ Refuse(q)
  /\ UNCHANGED <<grants, session, lastGrant, lastToken, grantOf, isCode, authorization, comeback,
                 revocation>>

\* extraTokenClaims has prefetched claims, or resolves those of a code now, in vain.
ExtraTokenClaims(q) ==
  /\ pc[q] = "consumed" /\ presented[q] \in isCode /\ Step(q, "burnt")
  /\ UNCHANGED <<store, authorization, comeback, presented, late, revocation>>

\* The new refresh token is saved, whatever was revoked meanwhile.
Issue(q) ==
  /\ pc[q] = "consumed" /\ Step(q, "issued")
  /\ NewToken(grantOf[presented[q]], FALSE)
  /\ UNCHANGED <<grants, session, lastGrant, authorization, comeback, presented, late, revocation>>

-----------------------------------------------------------------------------
(* Revocation.                                                             *)

Overtakes == overtaken' = (auth # "idle")

\* revokeGrant: first the rows of the grant.
RevokeGrant(g) ==
  /\ g \in grants \ toDestroy /\ everywhere \in {"idle", "done"}
  /\ row' = RevokeByGrantId(g) /\ toDestroy' = toDestroy \cup {g} /\ Overtakes
  /\ UNCHANGED <<grants, session, lastGrant, lastToken, grantOf, isCode, auth, authGrant,
                 comeback, requests, toRevoke, revoked, everywhere>>

\* Mutant: the Grant row is left.
LeaveGrant(g) ==
  /\ g \in toDestroy /\ toDestroy' = toDestroy \ {g} /\ UNCHANGED <<toRevoke, everywhere>>
  /\ revoked' = IF g \in toRevoke THEN revoked ELSE revoked \cup {g}
  /\ UNCHANGED <<store, authorization, comeback, requests>>

\* The Grant row: of revokeGrant last, of revokeAll before the rows or after them.
DestroyGrant(g) ==
  /\ g \in toDestroy /\ toDestroy' = toDestroy \ {g}
  /\ grants' = grants \ {g} /\ returned' = returned \ {g}
  /\ revoked' = IF g \in toRevoke THEN revoked ELSE revoked \cup {g}
  /\ UNCHANGED <<session, lastGrant, lastToken, row, grantOf, isCode, authorization,
                 resumed, requests, toRevoke, everywhere>>

\* revokeAll lists the grants while it destroys the sessions.
RevokeAll ==
  /\ everywhere = "idle" /\ toDestroy = {} /\ lastGrant > 0
  /\ toRevoke' = grants /\ toDestroy' = grants /\ everywhere' = "sessions" /\ Overtakes
  /\ UNCHANGED <<store, auth, authGrant, comeback, requests, revoked>>

\* Mutant: the sessions are left.
LeaveSessions ==
  /\ everywhere = "sessions" /\ everywhere' = "grants"
  /\ UNCHANGED <<store, authorization, comeback, requests, toRevoke, toDestroy, revoked>>

DestroySessions ==
  /\ everywhere = "sessions" /\ everywhere' = "grants"
  /\ session' = FALSE /\ resumed' = FALSE
  /\ UNCHANGED <<grants, lastGrant, lastToken, row, grantOf, isCode, authorization,
                 returned, requests, toRevoke, toDestroy, revoked>>

\* The rows of each grant that revokeAll listed.
RevokeRows(g) ==
  /\ g \in toRevoke /\ toRevoke' = toRevoke \ {g}
  /\ row' = RevokeByGrantId(g)
  /\ revoked' = IF g \in toDestroy THEN revoked ELSE revoked \cup {g}
  /\ UNCHANGED <<grants, session, lastGrant, lastToken, grantOf, isCode, authorization,
                 comeback, requests, toDestroy, everywhere>>

RevokedAll ==
  /\ everywhere = "grants" /\ toRevoke = {} /\ toDestroy = {} /\ everywhere' = "done"
  /\ UNCHANGED <<store, authorization, comeback, requests, toRevoke, toDestroy, revoked>>

Next ==
  \/ Authorize \/ SaveGrant \/ SaveCode \/ AuthorizeFails
  \/ RevokeAll \/ DestroySessions \/ RevokedAll
  \/ \E g \in Grant : RevokeGrant(g) \/ DestroyGrant(g) \/ RevokeRows(g)
  \/ \E t \in Token : PresentAgain(t)
  \/ \E q \in Request :
       \/ \E t \in Token : Present(q, t)
       \/ RotateRefreshTokenFails(q) \/ Consume(q) \/ ExtraTokenClaims(q) \/ Issue(q)

Spec == Init /\ [][Next]_vars

-----------------------------------------------------------------------------
(* Properties.                                                             *)

\* "Kills the grant's refresh tokens and codes now": nothing presented after a grant
\* was revoked buys a token, not even a token that a redemption in flight at the
\* time saved after the revocation, unless an authorization that was under way
\* meanwhile has saved the grant again.
RevokedBuysNothing == \A q \in Request : late[q] => pc[q] # "issued"

\* Of concurrent redemptions of one code or refresh token at most one succeeds.
RedeemedOnce ==
  \A p, q \in Request : pc[p] = "issued" /\ pc[q] = "issued" /\ presented[p] = presented[q]
                        => p = q

\* Claims that cannot be resolved never burn a refresh token: whoever presented it
\* may present it again, and the retry does not count as reuse.
ClaimsBurnNoRefreshToken == \A q \in Request : pc[q] = "burnt" => presented[q] \in isCode

\* "Log out everywhere": when revokeAll has returned, the account has neither a login
\* session nor a grant, but for what an authorization saved that was under way
\* while something was revoked.
LoggedOutEverywhere ==
  everywhere = "done" => (session => resumed) /\ grants \subseteq returned

\* Without this exception it fails.
LoggedOutEverywhereAnyway == everywhere = "done" => ~session /\ grants = {}
=============================================================================

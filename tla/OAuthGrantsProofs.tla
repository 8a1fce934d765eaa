-------------------------- MODULE OAuthGrantsProofs --------------------------
(***************************************************************************)
(* Theorems about OAuthGrants, for any requests and bounds.                *)
(***************************************************************************)
EXTENDS OAuthGrants, TLAPS

(***************************************************************************)
(* The inductive invariant. A token that somebody consumed is never live   *)
(* again, and has one consumer; a burnt one is a code. Nothing is being    *)
(* revoked while an authorization is under way that was not overtaken, so  *)
(* that only an overtaken one saves a revoked grant or a destroyed session.*)
(***************************************************************************)
Consumed(q) == pc[q] \in {"consumed", "issued", "burnt"}

ConsumedOnce ==
  /\ \A q \in Request : Consumed(q) => row[presented[q]] \in {"consumed", "gone"}
  /\ \A p, q \in Request : Consumed(p) /\ Consumed(q) /\ presented[p] = presented[q] => p = q

RevokedStayAway ==
  /\ auth # "idle" /\ ~overtaken
       => ~Revokes /\ everywhere = "idle" /\ authGrant \in grants \cup {None}
  /\ auth = "granted" => authGrant # None
  /\ grants \cap revoked \subseteq returned
  /\ \A q \in Request : ~late[q]

AllAreListed ==
  /\ toRevoke # {} => everywhere \in {"sessions", "grants"}
  /\ everywhere \in {"sessions", "grants"} => grants \subseteq toDestroy \cup returned
  /\ everywhere \in {"grants", "done"} => (session => resumed)
  /\ everywhere = "done" => grants \subseteq returned

IInv ==
  TypeOK /\ ConsumedOnce /\ ClaimsBurnNoRefreshToken /\ RevokedStayAway /\ AllAreListed

-----------------------------------------------------------------------------
(* The helpers.                                                            *)

\* A new token is live, and all others keep their rows.
LEMMA NewTokenRow ==
  ASSUME TypeOK, NEW g \in 0..lastGrant, NEW code \in BOOLEAN, NewToken(g, code)
  PROVE  /\ lastToken' = lastToken + 1 /\ lastToken' \in 0..MaxToken
         /\ row' \in [Token -> {"none", "live", "consumed", "gone"}]
         /\ \A t \in Token : row'[t] = "none" <=> t > lastToken'
         /\ \A t \in 1..lastToken : t \in Token /\ row'[t] = row[t]
         /\ grantOf' \in [Token -> 0..lastGrant]
         /\ isCode \subseteq isCode' /\ isCode' \subseteq 1..lastToken'
  BY OAuthAssumption DEF NewToken, TypeOK, Token

\* Revocation only turns rows that exist to "gone".
LEMMA RevokedRow ==
  ASSUME TypeOK, NEW g
  PROVE  /\ RevokeByGrantId(g) \in [Token -> {"none", "live", "consumed", "gone"}]
         /\ \A t \in Token : /\ RevokeByGrantId(g)[t] \in {row[t], "gone"}
                             /\ RevokeByGrantId(g)[t] = "none" <=> row[t] = "none"
  BY DEF RevokeByGrantId, RowsOf, TypeOK

\* A request under way has a token that exists.
LEMMA PresentedIsToken ==
  ASSUME TypeOK, NEW q \in Request, pc[q] # "idle"
  PROVE  presented[q] \in 1..lastToken /\ presented[q] \in Token
  BY OAuthAssumption DEF TypeOK, Token, None

\* Rows that stay or go keep the types and who consumed what.
RowsStayOrGo ==
  /\ row' \in [Token -> {"none", "live", "consumed", "gone"}]
  /\ \A t \in Token : row'[t] \in {row[t], "gone"} /\ (row'[t] = "none" <=> row[t] = "none")

LEMMA StayOrGoKeeps ==
  ASSUME TypeOK, ConsumedOnce, RowsStayOrGo, UNCHANGED <<pc, presented>>
  PROVE  ConsumedOnce'
<1>1. \A q \in Request : Consumed(q) => presented[q] \in Token
  BY PresentedIsToken DEF Consumed
<1> QED BY <1>1 DEF ConsumedOnce, Consumed, RowsStayOrGo

-----------------------------------------------------------------------------
(* The actions.                                                            *)

LEMMA InvInit == Init => IInv
<1> SUFFICES ASSUME Init PROVE IInv OBVIOUS
<1>1. TypeOK
  <2>1. \A t \in Token : row[t] = "none" /\ t > lastToken BY OAuthAssumption DEF Init, Token
  <2>2. lastGrant = 0 /\ lastToken = 0 /\ 0 \in 0..MaxGrant /\ 0 \in 0..MaxToken /\ 0 \in 0..0
    BY OAuthAssumption DEF Init
  <2>3. grantOf \in [Token -> 0..lastGrant] /\ presented \in [Request -> 0..lastToken]
    BY <2>2 DEF Init, None
  <2> QED BY <2>1, <2>2, <2>3 DEF Init, TypeOK, None
<1>2. ConsumedOnce /\ ClaimsBurnNoRefreshToken
  BY DEF Init, ConsumedOnce, Consumed, ClaimsBurnNoRefreshToken
<1>3. RevokedStayAway /\ AllAreListed BY DEF Init, RevokedStayAway, AllAreListed, Revokes
<1> QED BY <1>1, <1>2, <1>3 DEF IInv

\* Authorizations keep the invariant.
LEMMA AuthorizationKeeps ==
  ASSUME IInv, Authorize \/ SaveGrant \/ SaveCode \/ AuthorizeFails
  PROVE  IInv'
<1> USE OAuthAssumption DEF IInv, None, store, comeback, requests, revocation, AuthorizationEnds
<1>1. CASE Authorize
  <2>f. /\ UNCHANGED <<grants, lastGrant, lastToken, row, grantOf, isCode, pc, presented, late,
                       returned, toRevoke, toDestroy, revoked>>
        /\ auth' = "loaded" /\ authGrant' \in grants \cup {0} /\ session' \in BOOLEAN
        /\ overtaken' = Revokes /\ resumed' = Revokes /\ everywhere' \in {everywhere, "idle"}
    BY <1>1 DEF Authorize
  <2>b. Revokes \in BOOLEAN BY DEF Revokes
  <2>c. authGrant' \in 0..lastGrant BY <2>f DEF TypeOK
  <2>t. TypeOK OBVIOUS
  <2>1. TypeOK'
    <3> HIDE DEF IInv, store, authorization, comeback, requests, revocation, AuthorizationEnds
    <3> QED BY <2>t, <2>f, <2>b, <2>c DEF TypeOK
  <2>2. ConsumedOnce' BY <1>1 DEF Authorize, TypeOK, ConsumedOnce, Consumed
  <2>3. ClaimsBurnNoRefreshToken' BY <1>1 DEF Authorize, TypeOK, ClaimsBurnNoRefreshToken
  <2>4. RevokedStayAway' BY <1>1 DEF Authorize, TypeOK, RevokedStayAway, Revokes
  <2>5. AllAreListed' BY <1>1 DEF Authorize, TypeOK, AllAreListed, RevokedStayAway, Revokes
  <2> QED BY <2>1, <2>2, <2>3, <2>4, <2>5
<1>2. CASE SaveGrant
  <2>g. \/ authGrant # None /\ authGrant' = authGrant /\ lastGrant' = lastGrant
        \/ authGrant = None /\ authGrant' = lastGrant + 1 /\ lastGrant' = lastGrant + 1
    BY <1>2 DEF SaveGrant
  <2>h. lastGrant' \in 0..MaxGrant /\ lastGrant <= lastGrant' /\ authGrant' \in 1..lastGrant'
    BY <1>2, <2>g DEF SaveGrant, TypeOK
  <2>1. TypeOK' BY <1>2, <2>h DEF SaveGrant, TypeOK
  <2>2. ConsumedOnce' BY <1>2 DEF SaveGrant, TypeOK, ConsumedOnce, Consumed
  <2>3. ClaimsBurnNoRefreshToken' BY <1>2 DEF SaveGrant, ClaimsBurnNoRefreshToken
  <2>n. ~overtaken => authGrant' \notin revoked \ returned BY <1>2, <2>g DEF SaveGrant, TypeOK, RevokedStayAway
  <2>4. RevokedStayAway' BY <1>2, <2>h, <2>n DEF SaveGrant, TypeOK, RevokedStayAway, Revokes
  <2>5. AllAreListed' BY <1>2 DEF SaveGrant, TypeOK, AllAreListed, RevokedStayAway, Revokes
  <2> QED BY <2>1, <2>2, <2>3, <2>4, <2>5
<1>3. CASE SaveCode
  <2>g. TypeOK /\ NewToken(authGrant, TRUE) /\ authGrant \in 0..lastGrant BY <1>3 DEF SaveCode, TypeOK
  <2>r. /\ lastToken' = lastToken + 1 /\ lastToken' \in 0..MaxToken
        /\ row' \in [Token -> {"none", "live", "consumed", "gone"}]
        /\ \A t \in Token : row'[t] = "none" <=> t > lastToken'
        /\ \A t \in 1..lastToken : t \in Token /\ row'[t] = row[t]
        /\ grantOf' \in [Token -> 0..lastGrant]
        /\ isCode \subseteq isCode' /\ isCode' \subseteq 1..lastToken'
    BY <2>g, NewTokenRow
  <2>f. /\ UNCHANGED <<grants, lastGrant, returned, pc, presented, late, toRevoke, toDestroy,
                       revoked, everywhere>>
        /\ auth' = "idle" /\ authGrant' = 0
    BY <1>3 DEF SaveCode
  <2>b. session' = TRUE /\ overtaken' = FALSE /\ resumed' = overtaken BY <1>3 DEF SaveCode
  <2>c. session' \in BOOLEAN /\ overtaken' \in BOOLEAN /\ resumed' \in BOOLEAN
    BY <2>b DEF TypeOK
  <2>d. 0 \in 0..lastGrant BY DEF TypeOK
  <2>t. TypeOK OBVIOUS
  <2>1. TypeOK'
    <3> HIDE DEF IInv, store, authorization, comeback, requests, revocation, AuthorizationEnds
    <3> QED BY <2>t, <2>f, <2>c, <2>d, <2>r DEF TypeOK
  <2>2. ConsumedOnce' BY <1>3, <2>r DEF SaveCode, TypeOK, ConsumedOnce, Consumed
  <2>3. ClaimsBurnNoRefreshToken' BY <1>3, <2>r DEF SaveCode, TypeOK, ClaimsBurnNoRefreshToken
  <2>4. RevokedStayAway' BY <1>3, <2>r DEF SaveCode, TypeOK, RevokedStayAway, Revokes
  <2>5. AllAreListed' BY <1>3, <2>r DEF SaveCode, TypeOK, AllAreListed, RevokedStayAway, Revokes
  <2> QED BY <2>1, <2>2, <2>3, <2>4, <2>5
<1>4. CASE AuthorizeFails
  <2>f. /\ UNCHANGED <<grants, session, lastGrant, lastToken, row, grantOf, isCode, returned,
                       resumed, pc, presented, late, toRevoke, toDestroy, revoked, everywhere>>
        /\ auth' = "idle" /\ authGrant' = 0
    BY <1>4 DEF AuthorizeFails
  <2>c. overtaken' \in BOOLEAN BY <1>4 DEF AuthorizeFails
  <2>d. 0 \in 0..lastGrant BY DEF TypeOK
  <2>t. TypeOK OBVIOUS
  <2>1. TypeOK'
    <3> HIDE DEF IInv, store, authorization, comeback, requests, revocation, AuthorizationEnds
    <3> QED BY <2>t, <2>f, <2>c, <2>d DEF TypeOK
  <2>2. ConsumedOnce' BY <1>4 DEF AuthorizeFails, TypeOK, ConsumedOnce, Consumed
  <2>3. ClaimsBurnNoRefreshToken' BY <1>4 DEF AuthorizeFails, TypeOK, ClaimsBurnNoRefreshToken
  <2>4. RevokedStayAway' BY <1>4 DEF AuthorizeFails, TypeOK, RevokedStayAway, Revokes
  <2>5. AllAreListed' BY <1>4 DEF AuthorizeFails, TypeOK, AllAreListed, RevokedStayAway, Revokes
  <2> QED BY <2>1, <2>2, <2>3, <2>4, <2>5
<1> QED BY <1>1, <1>2, <1>3, <1>4

\* Redemptions keep the invariant.
LEMMA RedemptionKeeps ==
  ASSUME IInv, NEW q \in Request,
         \/ \E t \in Token : Present(q, t)
         \/ RotateRefreshTokenFails(q) \/ Consume(q) \/ ExtraTokenClaims(q) \/ Issue(q)
  PROVE  IInv'
<1> USE OAuthAssumption DEF IInv, None, store, authorization, comeback, revocation, Step
<1>1. ASSUME NEW t \in Token, Present(q, t) PROVE IInv'
  <2>1. TypeOK' BY <1>1 DEF Present, Token, TypeOK
  <2>2. ConsumedOnce' BY <1>1 DEF Present, Token, TypeOK, ConsumedOnce, Consumed
  <2>3. ClaimsBurnNoRefreshToken' BY <1>1 DEF Present, Token, TypeOK, ClaimsBurnNoRefreshToken
  <2>4. RevokedStayAway' BY <1>1 DEF Present, Token, TypeOK, RevokedStayAway, Revokes
  <2>5. AllAreListed' BY <1>1 DEF Present, Token, TypeOK, AllAreListed, RevokedStayAway, Revokes
  <2> QED BY <2>1, <2>2, <2>3, <2>4, <2>5
<1>2. CASE RotateRefreshTokenFails(q)
  <2>1. TypeOK' BY <1>2 DEF RotateRefreshTokenFails, Refuse, TypeOK
  <2>2. ConsumedOnce' BY <1>2 DEF RotateRefreshTokenFails, Refuse, TypeOK, ConsumedOnce, Consumed
  <2>3. ClaimsBurnNoRefreshToken' BY <1>2 DEF RotateRefreshTokenFails, Refuse, TypeOK, ClaimsBurnNoRefreshToken
  <2>4. RevokedStayAway' BY <1>2 DEF RotateRefreshTokenFails, Refuse, TypeOK, RevokedStayAway, Revokes
  <2>5. AllAreListed' BY <1>2 DEF RotateRefreshTokenFails, Refuse, TypeOK, AllAreListed, RevokedStayAway, Revokes
  <2> QED BY <2>1, <2>2, <2>3, <2>4, <2>5
<1>3. CASE Consume(q)
  <2>1. CASE row[presented[q]] = "live"
    <3>1. TypeOK' BY <1>3, <2>1 DEF Consume, TypeOK
    <3>p. \A p \in Request : pc[p] # "idle" => presented[p] \in Token BY PresentedIsToken
    <3>r. /\ row' = [row EXCEPT ![presented[q]] = "consumed"] /\ presented' = presented
          /\ pc' = [pc EXCEPT ![q] = "consumed"] /\ pc[q] = "found"
      BY <1>3, <2>1 DEF Consume
    <3>2. ConsumedOnce' BY <2>1, <3>p, <3>r DEF TypeOK, ConsumedOnce, Consumed
    <3>3. ClaimsBurnNoRefreshToken' BY <1>3, <2>1 DEF Consume, TypeOK, ClaimsBurnNoRefreshToken
    <3>4. RevokedStayAway' BY <1>3, <2>1 DEF Consume, TypeOK, RevokedStayAway, Revokes
    <3>5. AllAreListed' BY <1>3, <2>1 DEF Consume, TypeOK, AllAreListed, RevokedStayAway, Revokes
    <3> QED BY <3>1, <3>2, <3>3, <3>4, <3>5
  <2>2. CASE row[presented[q]] # "live"
    <3>r. /\ pc' = [pc EXCEPT ![q] = "idle"] /\ presented' = [presented EXCEPT ![q] = 0]
          /\ late' = [late EXCEPT ![q] = FALSE] /\ row' = row
          /\ UNCHANGED <<grants, session, lastGrant, lastToken, grantOf, isCode, auth, authGrant,
                         toRevoke, toDestroy, revoked, everywhere, overtaken, returned, resumed>>
      BY <1>3, <2>2 DEF Consume, Refuse
    <3>1. TypeOK' BY <3>r DEF TypeOK
    <3>2. ConsumedOnce' BY <1>3, <2>2 DEF Consume, Refuse, TypeOK, ConsumedOnce, Consumed
    <3>3. ClaimsBurnNoRefreshToken' BY <1>3, <2>2 DEF Consume, Refuse, TypeOK, ClaimsBurnNoRefreshToken
    <3>4. RevokedStayAway' BY <1>3, <2>2 DEF Consume, Refuse, TypeOK, RevokedStayAway, Revokes
    <3>5. AllAreListed' BY <1>3, <2>2 DEF Consume, Refuse, TypeOK, AllAreListed, RevokedStayAway, Revokes
    <3> QED BY <3>1, <3>2, <3>3, <3>4, <3>5
  <2> QED BY <2>1, <2>2
<1>4. CASE ExtraTokenClaims(q)
  <2>1. TypeOK' BY <1>4 DEF ExtraTokenClaims, TypeOK
  <2>2. ConsumedOnce' BY <1>4 DEF ExtraTokenClaims, TypeOK, ConsumedOnce, Consumed
  <2>3. ClaimsBurnNoRefreshToken' BY <1>4 DEF ExtraTokenClaims, TypeOK, ClaimsBurnNoRefreshToken
  <2>4. RevokedStayAway' BY <1>4 DEF ExtraTokenClaims, TypeOK, RevokedStayAway, Revokes
  <2>5. AllAreListed' BY <1>4 DEF ExtraTokenClaims, TypeOK, AllAreListed, RevokedStayAway, Revokes
  <2> QED BY <2>1, <2>2, <2>3, <2>4, <2>5
<1>5. CASE Issue(q)
  <2>g. TypeOK /\ NewToken(grantOf[presented[q]], FALSE) /\ grantOf[presented[q]] \in 0..lastGrant
    BY <1>5, PresentedIsToken DEF Issue, TypeOK
  <2>r. /\ lastToken' = lastToken + 1 /\ lastToken' \in 0..MaxToken
        /\ row' \in [Token -> {"none", "live", "consumed", "gone"}]
        /\ \A t \in Token : row'[t] = "none" <=> t > lastToken'
        /\ \A t \in 1..lastToken : t \in Token /\ row'[t] = row[t]
        /\ grantOf' \in [Token -> 0..lastGrant]
        /\ isCode \subseteq isCode' /\ isCode' \subseteq 1..lastToken'
    BY <2>g, NewTokenRow
  <2>1. TypeOK' BY <1>5, <2>r DEF Issue, TypeOK
  <2>2. ConsumedOnce' BY <1>5, <2>r DEF Issue, TypeOK, ConsumedOnce, Consumed
  <2>3. ClaimsBurnNoRefreshToken' BY <1>5, <2>r DEF Issue, TypeOK, ClaimsBurnNoRefreshToken
  <2>4. RevokedStayAway' BY <1>5, <2>r DEF Issue, TypeOK, RevokedStayAway, Revokes
  <2>5. AllAreListed' BY <1>5, <2>r DEF Issue, TypeOK, AllAreListed, RevokedStayAway, Revokes
  <2> QED BY <2>1, <2>2, <2>3, <2>4, <2>5
<1> QED BY <1>1, <1>2, <1>3, <1>4, <1>5

\* Revocations keep the invariant.
LEMMA RevocationKeeps ==
  ASSUME IInv,
         \/ RevokeAll \/ DestroySessions \/ RevokedAll
         \/ \E g \in Grant : RevokeGrant(g) \/ DestroyGrant(g) \/ RevokeRows(g)
         \/ \E t \in Token : PresentAgain(t)
  PROVE  IInv'
<1> USE OAuthAssumption DEF IInv, None, store, authorization, comeback, requests, revocation, Overtakes
<1>1. CASE RevokeAll
  <2>1. TypeOK' BY <1>1 DEF RevokeAll, TypeOK
  <2>2. ConsumedOnce' BY <1>1 DEF RevokeAll, TypeOK, ConsumedOnce, Consumed
  <2>3. ClaimsBurnNoRefreshToken' BY <1>1 DEF RevokeAll, TypeOK, ClaimsBurnNoRefreshToken
  <2>4. RevokedStayAway' BY <1>1 DEF RevokeAll, TypeOK, RevokedStayAway, Revokes
  <2>5. AllAreListed' BY <1>1 DEF RevokeAll, TypeOK, AllAreListed, RevokedStayAway, Revokes
  <2> QED BY <2>1, <2>2, <2>3, <2>4, <2>5
<1>2. CASE DestroySessions
  <2>1. TypeOK' BY <1>2 DEF DestroySessions, TypeOK
  <2>2. ConsumedOnce' BY <1>2 DEF DestroySessions, TypeOK, ConsumedOnce, Consumed
  <2>3. ClaimsBurnNoRefreshToken' BY <1>2 DEF DestroySessions, TypeOK, ClaimsBurnNoRefreshToken
  <2>4. RevokedStayAway' BY <1>2 DEF DestroySessions, TypeOK, RevokedStayAway, Revokes
  <2>5. AllAreListed' BY <1>2 DEF DestroySessions, TypeOK, AllAreListed, RevokedStayAway, Revokes
  <2> QED BY <2>1, <2>2, <2>3, <2>4, <2>5
<1>3. CASE RevokedAll
  <2>1. TypeOK' BY <1>3 DEF RevokedAll, TypeOK
  <2>2. ConsumedOnce' BY <1>3 DEF RevokedAll, TypeOK, ConsumedOnce, Consumed
  <2>3. ClaimsBurnNoRefreshToken' BY <1>3 DEF RevokedAll, TypeOK, ClaimsBurnNoRefreshToken
  <2>4. RevokedStayAway' BY <1>3 DEF RevokedAll, TypeOK, RevokedStayAway, Revokes
  <2>5. AllAreListed' BY <1>3 DEF RevokedAll, TypeOK, AllAreListed, RevokedStayAway, Revokes
  <2> QED BY <2>1, <2>2, <2>3, <2>4, <2>5
<1>4. ASSUME NEW g \in Grant, RevokeGrant(g) PROVE IInv'
  <2>r. RowsStayOrGo BY <1>4, RevokedRow DEF RevokeGrant, RowsStayOrGo, TypeOK
  <2>1. TypeOK' BY <1>4, <2>r DEF RevokeGrant, TypeOK, RowsStayOrGo
  <2>2. ConsumedOnce' BY <1>4, <2>r, StayOrGoKeeps DEF RevokeGrant
  <2>3. ClaimsBurnNoRefreshToken' BY <1>4 DEF RevokeGrant, ClaimsBurnNoRefreshToken
  <2>4. RevokedStayAway' BY <1>4 DEF RevokeGrant, TypeOK, RevokedStayAway, Revokes
  <2>5. AllAreListed' BY <1>4 DEF RevokeGrant, TypeOK, AllAreListed, RevokedStayAway, Revokes
  <2> QED BY <2>1, <2>2, <2>3, <2>4, <2>5
<1>5. ASSUME NEW g \in Grant, DestroyGrant(g) PROVE IInv'
  <2>1. TypeOK' BY <1>5 DEF DestroyGrant, TypeOK
  <2>2. ConsumedOnce' BY <1>5 DEF DestroyGrant, TypeOK, ConsumedOnce, Consumed
  <2>3. ClaimsBurnNoRefreshToken' BY <1>5 DEF DestroyGrant, TypeOK, ClaimsBurnNoRefreshToken
  <2>4. RevokedStayAway' BY <1>5 DEF DestroyGrant, TypeOK, RevokedStayAway, Revokes
  <2>5. AllAreListed' BY <1>5 DEF DestroyGrant, TypeOK, AllAreListed, RevokedStayAway, Revokes
  <2> QED BY <2>1, <2>2, <2>3, <2>4, <2>5
<1>6. ASSUME NEW g \in Grant, RevokeRows(g) PROVE IInv'
  <2>r. RowsStayOrGo BY <1>6, RevokedRow DEF RevokeRows, RowsStayOrGo, TypeOK
  <2>1. TypeOK' BY <1>6, <2>r DEF RevokeRows, TypeOK, RowsStayOrGo
  <2>2. ConsumedOnce' BY <1>6, <2>r, StayOrGoKeeps DEF RevokeRows
  <2>3. ClaimsBurnNoRefreshToken' BY <1>6 DEF RevokeRows, ClaimsBurnNoRefreshToken
  <2>f. /\ UNCHANGED <<grants, auth, authGrant, overtaken, returned, late, everywhere, toDestroy>>
        /\ toRevoke' \subseteq toRevoke /\ g \in toRevoke
        /\ revoked' = IF g \in toDestroy THEN revoked ELSE revoked \cup {g}
    BY <1>6 DEF RevokeRows
  <2>i. grants \subseteq toDestroy \cup returned /\ Revokes BY <2>f DEF AllAreListed, Revokes
  <2>j. grants' \cap revoked' \subseteq returned' BY <2>f, <2>i DEF RevokedStayAway
  <2>4. RevokedStayAway' BY <2>f, <2>i, <2>j DEF RevokedStayAway, Revokes
  <2>5. AllAreListed' BY <1>6 DEF RevokeRows, TypeOK, AllAreListed, RevokedStayAway, Revokes
  <2> QED BY <2>1, <2>2, <2>3, <2>4, <2>5
<1>7. ASSUME NEW t \in Token, PresentAgain(t) PROVE IInv'
  <2>r. RowsStayOrGo BY <1>7, RevokedRow DEF PresentAgain, RowsStayOrGo, TypeOK
  <2>1. TypeOK' BY <1>7, <2>r DEF PresentAgain, TypeOK, RowsStayOrGo
  <2>2. ConsumedOnce' BY <1>7, <2>r, StayOrGoKeeps DEF PresentAgain
  <2>3. ClaimsBurnNoRefreshToken' BY <1>7 DEF PresentAgain, ClaimsBurnNoRefreshToken
  <2>4. RevokedStayAway' BY <1>7 DEF PresentAgain, TypeOK, RevokedStayAway, Revokes
  <2>5. AllAreListed' BY <1>7 DEF PresentAgain, TypeOK, AllAreListed, RevokedStayAway, Revokes
  <2> QED BY <2>1, <2>2, <2>3, <2>4, <2>5
<1> QED BY <1>1, <1>2, <1>3, <1>4, <1>5, <1>6, <1>7

LEMMA InvNext == IInv /\ [Next]_vars => IInv'
<1> SUFFICES ASSUME IInv, [Next]_vars PROVE IInv' OBVIOUS
<1>1. CASE UNCHANGED vars
  BY <1>1 DEF vars, store, authorization, comeback, requests, revocation, IInv, TypeOK, ConsumedOnce,
              Consumed, RevokedStayAway, AllAreListed, ClaimsBurnNoRefreshToken, Revokes
<1>2. CASE Next BY <1>2, AuthorizationKeeps, RedemptionKeeps, RevocationKeeps DEF Next
<1> QED BY <1>1, <1>2

LEMMA Invariant == Spec => []IInv
  BY InvInit, InvNext, PTL DEF Spec

-----------------------------------------------------------------------------
(* The theorems.                                                           *)

\* Every reachable state of the store, the requests and the revocations is well typed.
THEOREM TypeOKTheorem == Spec => []TypeOK
<1>1. IInv => TypeOK BY DEF IInv
<1> QED BY <1>1, Invariant, PTL

\* Of concurrent redemptions of one code or refresh token at most one succeeds.
THEOREM RedeemedOnceTheorem == Spec => []RedeemedOnce
<1>1. IInv => RedeemedOnce BY DEF IInv, ConsumedOnce, Consumed, RedeemedOnce
<1> QED BY <1>1, Invariant, PTL

\* Claims that cannot be resolved never burn a refresh token.
THEOREM ClaimsBurnNoRefreshTokenTheorem == Spec => []ClaimsBurnNoRefreshToken
<1>1. IInv => ClaimsBurnNoRefreshToken BY DEF IInv
<1> QED BY <1>1, Invariant, PTL

\* Nothing presented after its grant was revoked buys a token, unless an overtaken
\* authorization saved the grant again.
THEOREM RevokedBuysNothingTheorem == Spec => []RevokedBuysNothing
<1>1. IInv => RevokedBuysNothing BY DEF IInv, RevokedStayAway, RevokedBuysNothing
<1> QED BY <1>1, Invariant, PTL

\* When revokeAll has returned, the account has neither a login session nor a grant,
\* but for what an overtaken authorization saved.
THEOREM LoggedOutEverywhereTheorem == Spec => []LoggedOutEverywhere
<1>1. IInv => LoggedOutEverywhere BY DEF IInv, AllAreListed, LoggedOutEverywhere
<1> QED BY <1>1, Invariant, PTL
=============================================================================

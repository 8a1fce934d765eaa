---------------------------- MODULE MCOAuthGrants ----------------------------
(* Instances of OAuthGrants: with two requests one presents what the other  *)
(* bought while the grant was revoked.                                      *)
EXTENDS OAuthGrants, TLC

Exchange == Permutations(Request)

\* Of a token whose row is gone the rest is not read, unless it is being redeemed.
Read == {t \in Token : row[t] \notin {"none", "gone"}} \cup {presented[q] : q \in Request}
Seen == <<grants, session, lastGrant, lastToken, row, isCode \cap Read,
          [t \in Token |-> IF t \in Read THEN grantOf[t] ELSE None],
          authorization, comeback, requests, revocation>>
=============================================================================

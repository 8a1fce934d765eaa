--------------------------- MODULE MCRefreshTokens ---------------------------
(* Instances of RefreshTokens: two calls race for a token, revocations come *)
(* between their steps; three tokens are a login and two rotations.         *)
EXTENDS RefreshTokens, TLC

CONSTANTS u1

OneUser == [f \in Family |-> u1]

Exchange == Permutations(Token) \cup Permutations(Call)

\* A record that is no longer stored is not read again; NotBurned looks at the
\* expiry of the unspent ones of a family nobody revoked.
Seen ==
  <<now, grace, call, fate,
    [t \in Token |->
       CASE store[t].stored \/ store[t] = NoRecord -> store[t]
         [] store[t].spentAt # Unspent -> <<"spent", store[t].family>>
         [] ended[store[t].family] # "no" -> <<"revoked", store[t].family>>
         [] OTHER -> store[t]]>>
=============================================================================

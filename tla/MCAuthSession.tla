---------------------------- MODULE MCAuthSession ---------------------------
(* Instances of AuthSession: with two tabs and three pairs each tab       *)
(* refreshes what the other one fetched, across logins and logouts.        *)
EXTENDS AuthSession, TLC

Exchange == Permutations(Tab)
=============================================================================

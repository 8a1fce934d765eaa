--------------------------- MODULE MCDerivedTokens ---------------------------
(* Instances of DerivedTokens: two organisations, two users.               *)
EXTENDS DerivedTokens, TLC
=============================================================================

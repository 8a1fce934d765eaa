------------------------- MODULE MCRuntimeLifecycle -------------------------
(* Three services, two of them on the upper level.                          *)
EXTENDS RuntimeLifecycle, TLC

MCType == [config |-> 0, store |-> 10, cache |-> 10]
MCService == DOMAIN MCType
=============================================================================

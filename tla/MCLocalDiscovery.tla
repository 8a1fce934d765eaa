-------------------------- MODULE MCLocalDiscovery --------------------------
EXTENDS LocalDiscovery, TLC

CONSTANTS a, b

\* Two replicas.
Replicas == a :> 1 @@ b :> 1

=============================================================================

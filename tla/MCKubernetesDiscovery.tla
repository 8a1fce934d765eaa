----------------------- MODULE MCKubernetesDiscovery -----------------------
(* Two replicas of one service, with two APIs, and two other services.      *)
EXTENDS KubernetesDiscovery, TLC

MCServes == [u1 |-> {"users", "auth"}, u2 |-> {"users", "auth"}, orders |-> {"orders"}, mail |-> {"mail"}]
MCProcess == DOMAIN MCServes
MCApi == UNION {MCServes[p] : p \in MCProcess}
=============================================================================

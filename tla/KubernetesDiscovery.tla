------------------------ MODULE KubernetesDiscovery ------------------------
(***************************************************************************)
(* Registration in the shared ConfigMap by the processes of several        *)
(* services (GGKubernetesServiceDiscovery.ts). A process is a replica of a *)
(* service and registers the APIs of that service; an entry names the      *)
(* service, so replicas write the same entries.                            *)
(*                                                                         *)
(* The API server is external: a PUT or POST acts at once when it arrives, *)
(* a PUT that carries a resourceVersion only if that is the current one.   *)
(***************************************************************************)
EXTENDS FiniteSets

CONSTANTS
  Process,
  Api,
  Serves      \* [Process -> SUBSET Api]: `entries`, after registerRoutes

VARIABLES
  exists,     \* the ConfigMap is there
  data,       \* its keys
  pc,         \* where each process is
  held,       \* what its unregister() has read and edited
  current,    \* whether the resourceVersion it has read is still the ConfigMap's
  alone       \* history: since its register() nobody else has registered, no replica unregistered

vars == <<exists, data, pc, held, current, alone>>

Init ==
  /\ exists \in BOOLEAN /\ data = {}
  /\ pc = [p \in Process |-> "idle"] /\ held = [p \in Process |-> {}]
  /\ current = [p \in Process |-> FALSE] /\ alone = current

\* Every write gives the ConfigMap a new resourceVersion.
Write(p, keys) ==
  /\ exists' = TRUE /\ data' = keys
  /\ current' = [q \in Process |-> FALSE]

Goes(p, to) == pc' = [pc EXCEPT ![p] = to]

Registered(p) == Goes(p, "up") /\ alone' = [q \in Process |-> q = p]

\* The PUT of updateConfigMap: without a resourceVersion, the whole of data.
Put(p) ==
  /\ pc[p] = "idle" /\ exists /\ Write(p, Serves[p]) /\ Registered(p) /\ UNCHANGED held

PutNotFound(p) ==
  /\ pc[p] = "idle" /\ ~exists /\ Goes(p, "creating")
  /\ UNCHANGED <<exists, data, held, current, alone>>

Post(p) ==
  /\ pc[p] = "creating" /\ ~exists /\ Write(p, Serves[p]) /\ Registered(p) /\ UNCHANGED held

\* The POST fails when another has created it meanwhile.
PostConflicts(p) ==
  /\ pc[p] = "creating" /\ exists /\ Goes(p, "unlisted")
  /\ UNCHANGED <<exists, data, held, current, alone>>

\* The write arrives and its answer does not.
PutUnanswered(p) ==
  /\ pc[p] = "idle" /\ exists /\ Write(p, Serves[p]) /\ Goes(p, "unlisted")
  /\ alone' = [q \in Process |-> FALSE] /\ UNCHANGED held

\* The API server does not answer, or refuses: register() logs that and goes on.
RegisterFails(p) ==
  /\ pc[p] \in {"idle", "creating"} /\ Goes(p, "unlisted")
  /\ UNCHANGED <<exists, data, held, current, alone>>

\* unregister() reads the ConfigMap and takes its entries out of what it has read.
Get(p) ==
  /\ pc[p] \in {"up", "unlisted"} /\ exists /\ Goes(p, "withdrawing")
  /\ held' = [held EXCEPT ![p] = data \ Serves[p]] /\ current' = [current EXCEPT ![p] = TRUE]
  /\ UNCHANGED <<exists, data, alone>>

\* Nothing to remove, or the read fails.
GetFails(p) ==
  /\ pc[p] \in {"up", "unlisted"} /\ Goes(p, "gone")
  /\ UNCHANGED <<exists, data, held, current, alone>>

Withdrawn(p) == alone' = [q \in Process |-> alone[q] /\ Serves[p] \cap Serves[q] = {}]

Withdraw(p) ==
  /\ pc[p] = "withdrawing" /\ current[p] /\ Write(p, held[p]) /\ Goes(p, "gone")
  /\ Withdrawn(p) /\ UNCHANGED held

\* A conflict, or any other answer: nobody looks.
WithdrawFails(p) ==
  /\ pc[p] = "withdrawing" /\ Goes(p, "gone")
  /\ UNCHANGED <<exists, data, held, current, alone>>

Crash(p) ==
  /\ pc[p] # "gone" /\ Goes(p, "gone")
  /\ UNCHANGED <<exists, data, held, current, alone>>

Restart(p) ==
  /\ pc[p] = "gone" /\ Goes(p, "idle") /\ held' = [held EXCEPT ![p] = {}]
  /\ alone' = [alone EXCEPT ![p] = FALSE] /\ UNCHANGED <<exists, data, current>>

\* An administrator deletes the ConfigMap.
Delete ==
  /\ exists /\ exists' = FALSE /\ data' = {} /\ current' = [q \in Process |-> FALSE]
  /\ alone' = [q \in Process |-> FALSE] /\ UNCHANGED <<pc, held>>

Next ==
  \/ \E p \in Process :
       \/ Put(p) \/ PutUnanswered(p) \/ PutNotFound(p) \/ Post(p) \/ PostConflicts(p) \/ RegisterFails(p)
       \/ Get(p) \/ GetFails(p) \/ Withdraw(p) \/ WithdrawFails(p) \/ Crash(p) \/ Restart(p)
  \/ Delete

Spec == Init /\ [][Next]_vars

\* discoverApi finds the entry.
Discoverable(a) == exists /\ a \in data

----------------------------------------------------------------------------
\* Properties

\* What an unregister() writes back is what was there without the entries of its own service: it
\* loses no registration, and brings back none that went, between its read and its write.
WithdrawalIsClean ==
  [][\A p \in Process :
       pc[p] = "withdrawing" /\ pc'[p] = "gone" /\ data' # data => data' = data \ Serves[p]]_vars

\* A process that registered is found until another registers or a replica of it leaves: who creates
\* the ConfigMap at the same time, an unregister() that read before, and failures do not unlist it.
ListedWhileAlone == \A p \in Process : pc[p] = "up" /\ alone[p] => \A a \in Serves[p] : Discoverable(a)

\* "This allows other services to discover available APIs" (register). Not after another service
\* registered: its PUT replaces the data of all.
RegisteredIsDiscoverable ==
  [][\A p, q \in Process, a \in Api :
       pc[p] = "up" /\ pc[q] = "idle" /\ pc'[q] = "up" /\ a \in Serves[p] /\ Discoverable(a) => Discoverable(a)']_vars
=============================================================================

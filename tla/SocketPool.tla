----------------------------- MODULE SocketPool -----------------------------
(***************************************************************************)
(* GGSocketPool: one pool key, the sockets opened for it over time, and    *)
(* the clients (connectors of createClient) that acquire and release it.   *)
(*                                                                         *)
(* JavaScript runs one task at a time. The code after an await runs as a   *)
(* microtask, so other microtasks may come between a lookup in the pool    *)
(* and the count that follows it, but no socket event may: `Settled`       *)
(* guards the actions that start a new macrotask.                          *)
(***************************************************************************)
EXTENDS Integers, FiniteSets

CONSTANTS
  Client,         \* connectors that share the pool key
  Socket,         \* identities for sockets; a closed one is used again
  None            \* no socket

ASSUME PoolAssumption ==
  /\ IsFiniteSet(Client) /\ IsFiniteSet(Socket) /\ None \notin Socket

VARIABLES
  setupFails,  \* a circumstance: the setup callback of a connector may throw
  state,     \* of each socket
  pooled,    \* GGSocketPool.sockets at the key
  pending,   \* GGSocketPool.pendingSockets at the key
  refs,      \* GGSocketPool.poolRefCounts at the key; 0 when absent
  pc,        \* of each client
  got,       \* the socket a client was handed
  \* History variables, which no action reads:
  mislaid,   \* the last close event took the count of clients of another socket
  orphans    \* sockets that the close event of another took out of the pool

history == <<mislaid, orphans>>
vars == <<setupFails, state, pooled, pending, refs, pc, got, history>>

TypeOK ==
  /\ setupFails \in BOOLEAN /\ mislaid \in BOOLEAN /\ orphans \subseteq Socket
  /\ state \in [Socket -> {"none", "opening", "open", "draining", "closing"}]
  /\ pooled \in Socket \cup {None} /\ pending \in Socket \cup {None}
  /\ refs \in Nat
  /\ pc \in [Client -> {"idle", "waiting", "looked", "holding"}]
  /\ got \in [Client -> Socket \cup {None}]

\* setupFails is chosen at the start and does not change.
Init ==
  /\ setupFails \in BOOLEAN /\ mislaid = FALSE /\ orphans = {}
  /\ state = [s \in Socket |-> "none"]
  /\ pooled = None /\ pending = None /\ refs = 0
  /\ pc = [c \in Client |-> "idle"]
  /\ got = [c \in Client |-> None]

Settled == \A c \in Client : pc[c] # "looked"
Held == {c \in Client : pc[c] = "holding"}
Holders(s) == {c \in Held : got[c] = s}
Going(s) == state[s] \in {"draining", "closing"}

-----------------------------------------------------------------------------
(* getOrConnectByKey, after the middleware gate.                           *)

FindPooled(c) ==
  /\ pc[c] = "idle" /\ pooled # None
  /\ pc' = [pc EXCEPT ![c] = "looked"]
  /\ got' = [got EXCEPT ![c] = pooled]
  /\ UNCHANGED <<state, pooled, pending, refs, history>>

SharePending(c) ==
  /\ pc[c] = "idle" /\ pooled = None /\ pending # None
  /\ pc' = [pc EXCEPT ![c] = "waiting"]
  /\ got' = [got EXCEPT ![c] = pending]
  /\ UNCHANGED <<state, pooled, pending, refs, history>>

\* Mutant: the open in progress is not looked for.
OpenAnyway(c, s) ==
  /\ pc[c] = "idle" /\ pooled = None
  /\ state[s] = "none"
  /\ state' = [state EXCEPT ![s] = "opening"]
  /\ pending' = s
  /\ pc' = [pc EXCEPT ![c] = "waiting"]
  /\ got' = [got EXCEPT ![c] = s]
  /\ UNCHANGED <<pooled, refs, history>>

Open(c, s) ==
  /\ pc[c] = "idle" /\ pooled = None /\ pending = None
  /\ state[s] = "none"
  /\ state' = [state EXCEPT ![s] = "opening"]
  /\ pending' = s
  /\ pc' = [pc EXCEPT ![c] = "waiting"]
  /\ got' = [got EXCEPT ![c] = s]
  /\ UNCHANGED <<pooled, refs, history>>

\* Mutant: the waiters of a failed open are never told.
FailSilently(s) ==
  /\ Settled /\ state[s] = "opening"
  /\ state' = [state EXCEPT ![s] = "none"]
  /\ pending' = None
  /\ UNCHANGED <<pooled, refs, pc, got, history>>

OpenFails(s) ==
  /\ Settled /\ state[s] = "opening"
  /\ state' = [state EXCEPT ![s] = "none"]
  /\ pending' = None
  /\ pc' = [c \in Client |-> IF got[c] = s THEN "idle" ELSE pc[c]]
  /\ got' = [c \in Client |-> IF got[c] = s THEN None ELSE got[c]]
  /\ UNCHANGED <<pooled, refs, history>>

\* The opener's continuation runs before those of the clients that share it.
OpenSucceeds(s) ==
  /\ Settled /\ state[s] = "opening"
  /\ state' = [state EXCEPT ![s] = "open"]
  /\ pooled' = s /\ pending' = None
  /\ pc' = [c \in Client |-> IF got[c] = s THEN "looked" ELSE pc[c]]
  /\ UNCHANGED <<refs, got, history>>

-----------------------------------------------------------------------------
(* acquirePooled and release.                                              *)

Count(c) ==
  /\ pc[c] = "looked"
  /\ refs' = refs + 1
  /\ pc' = [pc EXCEPT ![c] = "holding"]
  /\ UNCHANGED <<state, pooled, pending, got, history>>

Forget(C) ==
  /\ pc' = [c \in Client |-> IF c \in C THEN "idle" ELSE pc[c]]
  /\ got' = [c \in Client |-> IF c \in C THEN None ELSE got[c]]

Decremented == IF refs = 0 THEN 0 ELSE refs - 1

\* Mutant: the first release tears the socket down.
ReleaseEager(c) ==
  /\ pc[c] = "holding"
  /\ Forget({c})
  /\ refs' = Decremented /\ pooled' = None
  /\ state' = IF pooled # None /\ state[pooled] = "open"
              THEN [state EXCEPT ![pooled] = "draining"] ELSE state
  /\ UNCHANGED <<pending, history>>

\* The last holder takes whatever socket the pool has now and tears it down.
Release(c) ==
  /\ pc[c] = "holding"
  /\ Forget({c})
  /\ refs' = Decremented
  /\ IF Decremented = 0 /\ pooled # None
     THEN /\ pooled' = None
          /\ state' = IF state[pooled] = "open"
                      THEN [state EXCEPT ![pooled] = "draining"] ELSE state
     ELSE UNCHANGED <<state, pooled>>
  /\ UNCHANGED <<pending, history>>

\* openOnce closes the socket of a failed setup, without a release.
SetupFails(c) ==
  /\ setupFails /\ pc[c] = "holding" /\ state[got[c]] = "open"
  /\ state' = [state EXCEPT ![got[c]] = "closing"]
  /\ Forget({c})
  /\ UNCHANGED <<pooled, pending, refs, history>>

-----------------------------------------------------------------------------
(* The socket: teardown ends in close(); a close event may also come from  *)
(* the other side at any time.                                             *)

\* Mutant: teardown stops when its callbacks time out.
DrainedUnclosed(s) ==
  /\ Settled /\ state[s] = "draining"
  /\ UNCHANGED <<state, pooled, pending, refs, pc, got, history>>

Drained(s) ==
  /\ Settled /\ state[s] = "draining"
  /\ state' = [state EXCEPT ![s] = "closing"]
  /\ UNCHANGED <<pooled, pending, refs, pc, got, history>>

\* What a close event leaves behind: sockets of others outside the pool, and
\* holders of others whom nobody counts. With nobody left, nothing is mislaid.
Remember(s) ==
  /\ mislaid' = (Held # Holders(s))
  /\ orphans' = (orphans \cup ({pooled} \ {None})) \ {s}

\* Mutant: the count outlives the socket.
ClosedKeepsCount(s) ==
  /\ Settled /\ state[s] \in {"open", "draining", "closing"}
  /\ state' = [state EXCEPT ![s] = "none"]
  /\ pooled' = None
  /\ Forget(Holders(s)) /\ Remember(s)
  /\ UNCHANGED <<pending, refs>>

\* The pool's onClose handler, and then those of the connectors, which drop
\* their reference and never call release for it. The handler clears the key,
\* whichever socket and whoever's count it has by then.
Closed(s) ==
  /\ Settled /\ state[s] \in {"open", "draining", "closing"}
  /\ state' = [state EXCEPT ![s] = "none"]
  /\ pooled' = None /\ refs' = 0
  /\ Forget(Holders(s)) /\ Remember(s)
  /\ UNCHANGED pending

Next ==
  /\ UNCHANGED setupFails
  /\ \/ \E c \in Client : \/ FindPooled(c) \/ SharePending(c) \/ Count(c)
                          \/ Release(c) \/ SetupFails(c)
                          \/ \E s \in Socket : Open(c, s)
     \/ \E s \in Socket : OpenFails(s) \/ OpenSucceeds(s) \/ Drained(s) \/ Closed(s)

\* Microtasks run, an open settles within its handshake timeout, teardown is
\* bounded by its timeouts, and close() is followed by a close event. Nothing
\* obliges a client to acquire or to release, or the other side to hang up. The
\* microtask queue is drained again and again, and the event loop then gets to
\* every event that is due, hence strong fairness for the events.
Fairness ==
  /\ []<>Settled
  /\ \A c \in Client : WF_vars(UNCHANGED setupFails /\ Count(c))
  /\ \A s \in Socket :
       /\ SF_vars(UNCHANGED setupFails /\ (OpenFails(s) \/ OpenSucceeds(s)))
       /\ SF_vars(UNCHANGED setupFails /\ Drained(s))
       /\ SF_vars(UNCHANGED setupFails /\ state[s] = "closing" /\ Closed(s))

Spec == Init /\ [][Next]_vars /\ Fairness

-----------------------------------------------------------------------------
(* Properties.                                                             *)

\* However many clients ask at once, one socket is being opened for the key.
SingleFlight ==
  /\ Cardinality({s \in Socket : state[s] = "opening"}) <= 1
  /\ \A s \in Socket : state[s] = "opening" <=> pending = s

\* The pool never hands out a socket that is being torn down or has closed, as
\* long as no setup closes the socket it shares.
PooledIsOpen == ~setupFails /\ pooled # None => state[pooled] = "open"

\* The count of the key is the number of clients that hold a socket of it, the
\* draining ones included; a failed setup never gives its count back. Only the
\* close event of a socket, come when clients hold another, loses count.
CountsHolders ==
  ~mislaid => /\ refs >= Cardinality(Held)
              /\ ~setupFails => refs = Cardinality(Held)

\* "Only torn down when the last holder calls release()" (acquirePooled): a
\* release tears an open socket down only when no client that acquired it is
\* left, whatever else drains, fails or closes, unless a close event lost the
\* count. A client that looked the socket up and is not counted yet is no such
\* client: it may be handed a socket that drains (OvertakenHoldsOn).
TornDownOnlyUnheld ==
  [][~mislaid => \A s \in Socket :
       state[s] = "open" /\ state'[s] = "draining" => Holders(s)' = {}]_vars

\* The same without the exception, which fails.
ReleaseSparesOthers ==
  [][\A s \in Socket :
       state[s] = "open" /\ state'[s] = "draining" => Holders(s)' = {}]_vars

\* A release never cuts off a client between its lookup and its count, which
\* fails as well.
OvertakenHoldsOn ==
  [][\A s \in Socket : state[s] = "open" /\ state'[s] = "draining" =>
       \A c \in Client : pc[c] = "looked" => got[c] # s]_vars

\* A socket is left open outside the pool, where no release finds it, only by
\* the close event of another socket of its key.
NoSocketLeaks ==
  \A s \in Socket : state[s] = "open" => pooled = s \/ s \in orphans

\* Every acquire is answered, with a socket or with the error of the open it
\* shared.
AcquireSettles ==
  \A c \in Client : pc[c] = "waiting" ~> pc[c] # "waiting"

\* A socket that was let go of is closed in the end.
TeardownCompletes ==
  \A s \in Socket : Going(s) ~> state[s] = "none"
=============================================================================

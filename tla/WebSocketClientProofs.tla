----------------------- MODULE WebSocketClientProofs -----------------------
(***************************************************************************)
(* Theorems about the two parts of a WebSocket client. About SocketPool,   *)
(* for any number of clients and sockets: one open at a time, only open    *)
(* sockets in the pool, and counts and sockets that only a close event can *)
(* mislay.                                                                 *)
(* About ReconnectConnector, for any sockets and bounds: types, one        *)
(* connection, nothing after a close, and a report of every close due.     *)
(***************************************************************************)
EXTENDS SocketPool, ReconnectConnector, FiniteSetTheorems, TLAPS

\* TypeOK but for the bound of the count.
Shape ==
  /\ state \in [Socket -> {"none", "opening", "open", "draining", "closing"}]
  /\ pooled \in Socket \cup {None} /\ pending \in Socket \cup {None}
  /\ pc \in [Client -> {"idle", "waiting", "looked", "holding"}]
  /\ got \in [Client -> Socket \cup {None}]
  /\ \A c \in Client : pc[c] # "idle" => got[c] \in Socket

OpeningIsPending == \A s \in Socket : state[s] = "opening" <=> pending = s

-----------------------------------------------------------------------------

LEMMA ShapeHolds == Spec => []Shape
<1>1. Init => Shape
  BY PoolAssumption DEF Init, Shape
<1>2. Shape /\ [Next]_vars => Shape'
  <2> SUFFICES ASSUME Shape, [Next]_vars PROVE Shape'
    OBVIOUS
  <2> USE PoolAssumption DEF Shape
  <2>1. ASSUME NEW c \in Client, FindPooled(c) PROVE Shape'
    BY <2>1 DEF FindPooled
  <2>2. ASSUME NEW c \in Client, SharePending(c) PROVE Shape'
    BY <2>2 DEF SharePending
  <2>3. ASSUME NEW c \in Client, Count(c) PROVE Shape'
    BY <2>3 DEF Count
  <2>4. ASSUME NEW c \in Client, Release(c) PROVE Shape'
    BY <2>4 DEF Release, Forget
  <2>5. ASSUME NEW c \in Client, SetupFails(c) PROVE Shape'
    BY <2>5 DEF SetupFails, Forget
  <2>6. ASSUME NEW c \in Client, NEW s \in Socket, Open(c, s) PROVE Shape'
    BY <2>6 DEF Open
  <2>7. ASSUME NEW s \in Socket, OpenFails(s) PROVE Shape'
    BY <2>7 DEF OpenFails
  <2>8. ASSUME NEW s \in Socket, OpenSucceeds(s) PROVE Shape'
    BY <2>8 DEF OpenSucceeds
  <2>9. ASSUME NEW s \in Socket, Drained(s) PROVE Shape'
    BY <2>9 DEF Drained
  <2>10. ASSUME NEW s \in Socket, Closed(s) PROVE Shape'
    BY <2>10 DEF Closed, Forget, Holders
  <2>11. CASE UNCHANGED vars
    BY <2>11 DEF vars
  <2> QED
    BY <2>1, <2>2, <2>3, <2>4, <2>5, <2>6, <2>7, <2>8, <2>9, <2>10, <2>11 DEF Next
<1> QED
  BY <1>1, <1>2, PTL DEF Spec

\* The socket being opened is the pending one: opens begin only when there is
\* none, and end by clearing it.
LEMMA OpeningStep ==
  ASSUME Shape, OpeningIsPending, [Next]_vars
  PROVE  OpeningIsPending'
<1> USE PoolAssumption DEF Shape, OpeningIsPending
<1>1. ASSUME NEW c \in Client, NEW s \in Socket, Open(c, s) PROVE OpeningIsPending'
  BY <1>1 DEF Open
<1>2. ASSUME NEW s \in Socket, OpenFails(s) PROVE OpeningIsPending'
  BY <1>2 DEF OpenFails
<1>3. ASSUME NEW s \in Socket, OpenSucceeds(s) PROVE OpeningIsPending'
  BY <1>3 DEF OpenSucceeds
<1>4. ASSUME NEW s \in Socket, Drained(s) PROVE OpeningIsPending'
  BY <1>4 DEF Drained
<1>5. ASSUME NEW s \in Socket, Closed(s) PROVE OpeningIsPending'
  BY <1>5 DEF Closed
<1>6. ASSUME NEW c \in Client, Release(c) PROVE OpeningIsPending'
  BY <1>6 DEF Release
<1>7. ASSUME NEW c \in Client, SetupFails(c) PROVE OpeningIsPending'
  BY <1>7 DEF SetupFails
<1>8. ASSUME NEW c \in Client, FindPooled(c) \/ SharePending(c) \/ Count(c)
      PROVE  OpeningIsPending'
  BY <1>8 DEF FindPooled, SharePending, Count
<1>9. CASE UNCHANGED vars
  BY <1>9 DEF vars
<1> QED
  BY <1>1, <1>2, <1>3, <1>4, <1>5, <1>6, <1>7, <1>8, <1>9 DEF Next

LEMMA OneOpening ==
  ASSUME Shape, OpeningIsPending
  PROVE  Cardinality({s \in Socket : state[s] = "opening"}) <= 1
<1> DEFINE Op == {s \in Socket : state[s] = "opening"}
<1>1. CASE pending = None
  <2>1. Op = {}
    BY <1>1, PoolAssumption DEF Shape, OpeningIsPending
  <2> QED
    BY <2>1, FS_EmptySet
<1>2. CASE pending # None
  <2>1. Op = {pending}
    BY <1>2, PoolAssumption DEF Shape, OpeningIsPending
  <2> QED
    BY <2>1, FS_Singleton
<1> QED
  BY <1>1, <1>2

\* However many clients acquire at once and however their opens end, one socket
\* is being opened for the key, and it is the one later clients will share.
THEOREM SingleFlightTheorem == Spec => []SingleFlight
<1>1. Init => OpeningIsPending
  BY PoolAssumption DEF Init, OpeningIsPending
<1>2. Shape /\ OpeningIsPending /\ [Next]_vars => OpeningIsPending'
  BY OpeningStep
<1>3. Shape /\ OpeningIsPending => SingleFlight
  BY OneOpening DEF SingleFlight, OpeningIsPending
<1> QED
  BY <1>1, <1>2, <1>3, ShapeHolds, PTL DEF Spec

\* Where no setup closes a shared socket, the pool holds only open sockets: a
\* release takes the socket out in the step that starts its teardown, and a
\* close event never leaves one behind.
THEOREM PooledIsOpenTheorem == Spec => []PooledIsOpen
<1> USE PoolAssumption
<1>1. Init => PooledIsOpen
  BY DEF Init, PooledIsOpen
<1>2. ASSUME Shape, PooledIsOpen, [Next]_vars PROVE PooledIsOpen'
  <2> USE <1>2 DEF Shape, PooledIsOpen
  <2>1. ASSUME NEW c \in Client, NEW s \in Socket, Open(c, s), UNCHANGED setupFails
        PROVE  PooledIsOpen'
    BY <2>1 DEF Open
  <2>2. ASSUME NEW s \in Socket, OpenFails(s), UNCHANGED setupFails
        PROVE  PooledIsOpen'
    BY <2>2 DEF OpenFails
  <2>3. ASSUME NEW s \in Socket, OpenSucceeds(s), UNCHANGED setupFails
        PROVE  PooledIsOpen'
    BY <2>3 DEF OpenSucceeds
  <2>4. ASSUME NEW s \in Socket, Drained(s), UNCHANGED setupFails
        PROVE  PooledIsOpen'
    BY <2>4 DEF Drained
  <2>5. ASSUME NEW s \in Socket, Closed(s), UNCHANGED setupFails
        PROVE  PooledIsOpen'
    BY <2>5 DEF Closed
  <2>6. ASSUME NEW c \in Client, Release(c), UNCHANGED setupFails
        PROVE  PooledIsOpen'
    BY <2>6 DEF Release
  <2>7. ASSUME NEW c \in Client, SetupFails(c), UNCHANGED setupFails
        PROVE  PooledIsOpen'
    BY <2>7 DEF SetupFails
  <2>8. ASSUME NEW c \in Client, FindPooled(c) \/ SharePending(c) \/ Count(c),
              UNCHANGED setupFails
        PROVE  PooledIsOpen'
    BY <2>8 DEF FindPooled, SharePending, Count
  <2>9. CASE UNCHANGED vars
    BY <2>9 DEF vars
  <2> QED
    BY <2>1, <2>2, <2>3, <2>4, <2>5, <2>6, <2>7, <2>8, <2>9 DEF Next
<1> QED
  BY <1>1, <1>2, ShapeHolds, PTL DEF Spec

-----------------------------------------------------------------------------
(***************************************************************************)
(* Counts. refs goes up and down with the clients that hold a socket of    *)
(* the key, whichever socket that is; a failed setup leaves it too high.   *)
(* Only a close event can leave it too low, and then it is mislaid.        *)
(***************************************************************************)
RefsCountHeld ==
  /\ refs \in Nat
  /\ ~mislaid => /\ refs >= Cardinality(Held)
                 /\ ~setupFails => refs = Cardinality(Held)

\* Who was handed a socket was handed an opened one; the pool has no other,
\* and none while one is opened for it.
HandedOpened ==
  /\ pending # None => pooled = None
  /\ pooled # None => state[pooled] \in {"open", "draining", "closing"}
  /\ \A c \in Client : pc[c] \in {"looked", "holding"} => state[got[c]] \in {"open", "draining", "closing"}

HistoryTypes == setupFails \in BOOLEAN /\ mislaid \in BOOLEAN /\ orphans \subseteq Socket

CInv == Shape /\ OpeningIsPending /\ HandedOpened /\ NoSocketLeaks /\ HistoryTypes /\ RefsCountHeld

LEMMA HeldIsFinite == IsFiniteSet(Held) /\ Cardinality(Held) \in Nat
  BY PoolAssumption, FS_Subset, FS_CardinalityType DEF Held

LEMMA HandedStep ==
  ASSUME CInv, [Next]_vars
  PROVE  HandedOpened'
<1> USE PoolAssumption DEF CInv, Shape, HandedOpened, OpeningIsPending
<1>1. ASSUME NEW c \in Client, NEW s \in Socket, Open(c, s) PROVE HandedOpened'
  BY <1>1 DEF Open
<1>2. ASSUME NEW s \in Socket, OpenFails(s) PROVE HandedOpened'
  BY <1>2 DEF OpenFails
<1>3. ASSUME NEW s \in Socket, OpenSucceeds(s) PROVE HandedOpened'
  BY <1>3 DEF OpenSucceeds
<1>4. ASSUME NEW s \in Socket, Drained(s) PROVE HandedOpened'
  BY <1>4 DEF Drained
<1>5. ASSUME NEW s \in Socket, Closed(s) PROVE HandedOpened'
  BY <1>5 DEF Closed, Forget, Holders, Held, Settled
<1>6. ASSUME NEW c \in Client, Release(c) PROVE HandedOpened'
  BY <1>6 DEF Release, Forget
<1>7. ASSUME NEW c \in Client, SetupFails(c) PROVE HandedOpened'
  BY <1>7 DEF SetupFails, Forget
<1>8. ASSUME NEW c \in Client, FindPooled(c) \/ SharePending(c) \/ Count(c) PROVE HandedOpened'
  BY <1>8 DEF FindPooled, SharePending, Count
<1>9. CASE UNCHANGED vars
  BY <1>9 DEF vars
<1> QED
  BY <1>1, <1>2, <1>3, <1>4, <1>5, <1>6, <1>7, <1>8, <1>9 DEF Next

\* An open socket leaves the pool by the release that tears it down, or by the
\* close event of another, which remembers it.
LEMMA LeaksStep ==
  ASSUME CInv, [Next]_vars
  PROVE  NoSocketLeaks'
<1> USE PoolAssumption DEF CInv, Shape, HandedOpened, OpeningIsPending, NoSocketLeaks, history
<1>1. ASSUME NEW c \in Client, NEW s \in Socket, Open(c, s) PROVE NoSocketLeaks'
  BY <1>1 DEF Open
<1>2. ASSUME NEW s \in Socket, OpenFails(s) PROVE NoSocketLeaks'
  BY <1>2 DEF OpenFails
<1>3. ASSUME NEW s \in Socket, OpenSucceeds(s) PROVE NoSocketLeaks'
  BY <1>3 DEF OpenSucceeds
<1>4. ASSUME NEW s \in Socket, Drained(s) PROVE NoSocketLeaks'
  BY <1>4 DEF Drained
<1>5. ASSUME NEW s \in Socket, Closed(s) PROVE NoSocketLeaks'
  BY <1>5 DEF Closed, Remember
<1>6. ASSUME NEW c \in Client, Release(c) PROVE NoSocketLeaks'
  BY <1>6 DEF Release
<1>7. ASSUME NEW c \in Client, SetupFails(c) PROVE NoSocketLeaks'
  BY <1>7 DEF SetupFails
<1>8. ASSUME NEW c \in Client, FindPooled(c) \/ SharePending(c) \/ Count(c) PROVE NoSocketLeaks'
  BY <1>8 DEF FindPooled, SharePending, Count
<1>9. CASE UNCHANGED vars
  BY <1>9 DEF vars
<1> QED
  BY <1>1, <1>2, <1>3, <1>4, <1>5, <1>6, <1>7, <1>8, <1>9 DEF Next

\* One more holder and one more count, one fewer and at most one less; a close
\* event takes all there is.
LEMMA RefsStep ==
  ASSUME CInv, [Next]_vars
  PROVE  RefsCountHeld'
<1> USE PoolAssumption DEF CInv, Shape, RefsCountHeld, HistoryTypes
<1>u. setupFails' = setupFails
  BY DEF Next, vars
<1>1. ASSUME refs' = refs, Held' = Held, mislaid' = mislaid PROVE RefsCountHeld'
  BY <1>1, <1>u
<1>2. ASSUME NEW c \in Client, Count(c) PROVE RefsCountHeld'
  <2>1. Held' = Held \cup {c} /\ c \notin Held /\ refs' = refs + 1 /\ mislaid' = mislaid
    BY <1>2 DEF Held, Count, history
  <2>2. Cardinality(Held') = Cardinality(Held) + 1
    BY <2>1, HeldIsFinite, FS_AddElement
  <2> QED
    BY <1>u, <2>1, <2>2, HeldIsFinite
<1>3. ASSUME NEW c \in Client, Release(c) PROVE RefsCountHeld'
  <2>1. Held' = Held \ {c} /\ c \in Held /\ mislaid' = mislaid
    BY <1>3 DEF Held, Release, Forget, history
  <2>2. Cardinality(Held') = Cardinality(Held) - 1 /\ Cardinality(Held) # 0
    BY <2>1, HeldIsFinite, FS_RemoveElement, FS_EmptySet
  <2>3. refs' = IF refs = 0 THEN 0 ELSE refs - 1
    BY <1>3 DEF Release, Decremented
  <2> QED
    BY <1>u, <2>1, <2>2, <2>3, HeldIsFinite
<1>4. ASSUME NEW c \in Client, SetupFails(c) PROVE RefsCountHeld'
  <2>1. Held' = Held \ {c} /\ c \in Held /\ mislaid' = mislaid /\ refs' = refs /\ setupFails
    BY <1>4 DEF Held, SetupFails, Forget, history
  <2>2. Cardinality(Held') = Cardinality(Held) - 1
    BY <2>1, HeldIsFinite, FS_RemoveElement
  <2> QED
    BY <1>u, <2>1, <2>2, HeldIsFinite
<1>5. ASSUME NEW s \in Socket, Closed(s) PROVE RefsCountHeld'
  <2>1. Held' = Held \ Holders(s) /\ refs' = 0
    BY <1>5 DEF Closed, Forget, Holders, Held
  <2>2. ~mislaid' => Held' = {}
    BY <1>5, <2>1 DEF Closed, Remember
  <2> QED
    BY <2>1, <2>2, FS_EmptySet
<1>6. ASSUME NEW s \in Socket, OpenFails(s) PROVE RefsCountHeld'
  <2>1. \A c \in Client : pc[c] = "holding" => got[c] # s
    BY <1>6 DEF OpenFails, HandedOpened
  <2> QED
    BY <1>1, <1>6, <2>1 DEF OpenFails, Held, history
<1>7. ASSUME NEW s \in Socket, OpenSucceeds(s) PROVE RefsCountHeld'
  <2>1. \A c \in Client : pc[c] = "holding" => got[c] # s
    BY <1>7 DEF OpenSucceeds, HandedOpened
  <2> QED
    BY <1>1, <1>7, <2>1 DEF OpenSucceeds, Held, history
<1>8. ASSUME NEW c \in Client, FindPooled(c) \/ SharePending(c) \/ \E s \in Socket : Open(c, s)
      PROVE  RefsCountHeld'
  BY <1>1, <1>8 DEF FindPooled, SharePending, Open, Held, history
<1>9. ASSUME NEW s \in Socket, Drained(s) PROVE RefsCountHeld'
  BY <1>1, <1>9 DEF Drained, Held, history
<1>10. CASE UNCHANGED vars
  BY <1>1, <1>10 DEF vars, Held, history
<1> QED
  BY <1>2, <1>3, <1>4, <1>5, <1>6, <1>7, <1>8, <1>9, <1>10 DEF Next

LEMMA HistoryStep ==
  ASSUME CInv, [Next]_vars
  PROVE  HistoryTypes'
<1> USE PoolAssumption DEF CInv, Shape, HistoryTypes, history
<1>1. ASSUME NEW s \in Socket, Closed(s) PROVE mislaid' \in BOOLEAN /\ orphans' \subseteq Socket
  BY <1>1 DEF Closed, Remember
<1>2. setupFails' = setupFails /\ (UNCHANGED history \/ \E s \in Socket : Closed(s))
  BY DEF Next, vars, FindPooled, SharePending, Open, OpenFails, OpenSucceeds, Count, Release,
         SetupFails, Drained
<1> QED
  BY <1>1, <1>2

LEMMA CountedHolds == Spec => []CInv
<1>1. Init => CInv
  <2> SUFFICES ASSUME Init PROVE CInv
    OBVIOUS
  <2>1. Held = {} /\ refs = 0
    BY DEF Init, Held
  <2>2. Shape /\ OpeningIsPending /\ HandedOpened /\ NoSocketLeaks /\ HistoryTypes
    BY PoolAssumption DEF Init, Shape, OpeningIsPending, HandedOpened, NoSocketLeaks, HistoryTypes
  <2> QED
    BY <2>1, <2>2, FS_EmptySet DEF CInv, RefsCountHeld
<1>2. CInv /\ Shape' /\ [Next]_vars => CInv'
  <2> SUFFICES ASSUME CInv, Shape', [Next]_vars PROVE CInv'
    OBVIOUS
  <2>1. OpeningIsPending'
    BY OpeningStep DEF CInv
  <2> QED
    BY <2>1, HandedStep, LeaksStep, RefsStep, HistoryStep DEF CInv
<1> QED
  BY <1>1, <1>2, ShapeHolds, PTL DEF Spec

\* Every reachable state of the pool, its sockets and its clients is well typed.
THEOREM TypeOKTheorem == Spec => []TypeOK
<1>1. CInv => TypeOK
  BY DEF CInv, Shape, HistoryTypes, RefsCountHeld, TypeOK
<1> QED
  BY <1>1, CountedHolds, PTL

\* The count is the number of clients that hold a socket of the key, whichever
\* sockets drain or open meanwhile, unless a close event mislaid it.
THEOREM CountsHoldersTheorem == Spec => []CountsHolders
<1>1. CInv => CountsHolders
  BY DEF CInv, RefsCountHeld, CountsHolders
<1> QED
  BY <1>1, CountedHolds, PTL

\* Only a release starts a teardown, and with a true count only that of the last
\* client that holds a socket of the key.
LEMMA TornDownStep ==
  ASSUME CInv, Next, ~mislaid, NEW s \in Socket, state[s] = "open", state'[s] = "draining"
  PROVE  Holders(s)' = {}
<1> USE PoolAssumption DEF CInv, Shape
<1>1. \E c \in Client : Release(c)
  <2>1. \A c \in Client : ~FindPooled(c) /\ ~SharePending(c) /\ ~Count(c) /\ ~SetupFails(c)
    BY DEF FindPooled, SharePending, Count, SetupFails
  <2>2. \A c \in Client, t \in Socket : ~Open(c, t)
    BY DEF Open
  <2>3. \A t \in Socket : ~OpenFails(t) /\ ~OpenSucceeds(t) /\ ~Drained(t) /\ ~Closed(t)
    BY DEF OpenFails, OpenSucceeds, Drained, Closed
  <2> QED
    BY <2>1, <2>2, <2>3 DEF Next
<1>2. PICK c \in Client : Release(c)
  BY <1>1
<1>3. Decremented = 0
  BY <1>2 DEF Release
<1>4. c \in Held /\ Held' = Held \ {c}
  BY <1>2 DEF Held, Release, Forget
<1>5. Cardinality(Held') = Cardinality(Held) - 1 /\ Cardinality(Held) # 0
  BY <1>4, HeldIsFinite, FS_RemoveElement, FS_EmptySet
<1>6. refs >= Cardinality(Held) /\ refs \in {0, 1}
  BY <1>3 DEF Decremented, RefsCountHeld
<1>7. Cardinality(Held') = 0
  BY <1>5, <1>6, HeldIsFinite
<1>8. Held' = {}
  BY <1>4, <1>7, HeldIsFinite, FS_RemoveElement, FS_EmptySet
<1> QED
  BY <1>8 DEF Held, Holders

\* Under late close events, failed setups and sockets that drain while others
\* open, a release tears a socket down under nobody who holds it, unless a close
\* event mislaid the count.
THEOREM TornDownOnlyUnheldTheorem == Spec => TornDownOnlyUnheld
<1>1. CInv /\ [Next]_vars =>
        [~mislaid => \A s \in Socket :
           state[s] = "open" /\ state'[s] = "draining" => Holders(s)' = {}]_vars
  BY TornDownStep
<1> QED
  BY <1>1, CountedHolds, PTL DEF Spec, TornDownOnlyUnheld

\* A socket is left open where no release finds it only by the close event of
\* another socket of its key.
THEOREM NoSocketLeaksTheorem == Spec => []NoSocketLeaks
<1>1. CInv => NoSocketLeaks
  BY DEF CInv
<1> QED
  BY <1>1, CountedHolds, PTL

-----------------------------------------------------------------------------
\* The connector of one client, with sockets of its own.

USE ConnectorAssumption

(***************************************************************************)
(* The inductive invariant: a handshake under way is that of `opening`,    *)
(* and runs only while the connector has no socket; an open socket is the  *)
(* connector's; and a closed connector has none.                           *)
(***************************************************************************)
HandshakeIsOpening ==
  /\ \A s \in ConnSocket : connState[s] = "handshake" <=> phase = "handshake" /\ cur = s
  /\ phase # "none" => cur # NoSocket
  /\ phase = "handshake" => socket = NoSocket
OpenIsTheSocket == \A s \in ConnSocket : connState[s] = "open" => socket = s
ClosedHasNone == finallyClosed => socket = NoSocket

ConnectorInv == ConnectorTypeOK /\ HandshakeIsOpening /\ OpenIsTheSocket /\ ClosedHasNone

-----------------------------------------------------------------------------
(* The helpers.                                                            *)

\* Cancelling or scheduling retries keeps the types of the timers and attempts.
LEMMA CancelTypes ==
  ASSUME ConnectorTypeOK, CancelRetry
  PROVE  timers' \in Nat /\ tracked' = FALSE /\ attempt' \in 0..MaxAttempts
<1>1. tracked' = FALSE /\ attempt' = attempt BY DEF CancelRetry
<1>2. CASE tracked BY <1>1, <1>2 DEF ConnectorTypeOK, CancelRetry
<1>3. CASE ~tracked BY <1>1, <1>3 DEF ConnectorTypeOK, CancelRetry
<1> QED BY <1>2, <1>3

LEMMA RetryTypes ==
  ASSUME ConnectorTypeOK, NEW n \in Nat, NEW retryable \in BOOLEAN, RetryOrGiveUp(n, retryable)
  PROVE  /\ timers' \in Nat /\ tracked' \in BOOLEAN /\ (tracked' => timers' > 0)
         /\ attempt' \in 0..MaxAttempts
         /\ final' \in {"no", "manual", "drop", "retries-exhausted", "unrecoverable"}
<1> DEFINE left == MaxAttempts - attempt
           scheduled == IF ~reconnect \/ ~retryable THEN 0
                        ELSE IF n < left THEN n ELSE left
<1>1. left \in Nat /\ attempt \in Nat /\ attempt + left = MaxAttempts
  BY DEF ConnectorTypeOK
<1>2. scheduled \in Nat /\ scheduled <= left
  BY <1>1
<1>3. /\ timers' = timers + scheduled /\ tracked' = (tracked \/ scheduled > 0)
      /\ attempt' = attempt + scheduled
  BY DEF RetryOrGiveUp
<1>4. final' \in {"no", "manual", "drop", "retries-exhausted", "unrecoverable"}
  BY DEF RetryOrGiveUp, FireFinal, ConnectorTypeOK
<1> HIDE DEF scheduled, left
<1>5. timers' \in Nat /\ tracked' \in BOOLEAN /\ (tracked' => timers' > 0)
  <2>1. timers' \in Nat BY <1>2, <1>3 DEF ConnectorTypeOK
  <2>2. tracked' \in BOOLEAN BY <1>3
  <2>3. CASE scheduled > 0 BY <1>2, <1>3, <2>1, <2>3 DEF ConnectorTypeOK
  <2>4. CASE ~(scheduled > 0)
    <3>1. timers' = timers BY <1>2, <1>3, <2>4 DEF ConnectorTypeOK
    <3>2. tracked' => tracked BY <1>3, <2>4
    <3>3. tracked => timers > 0 BY DEF ConnectorTypeOK
    <3> QED BY <2>1, <2>2, <3>1, <3>2, <3>3
  <2> QED BY <2>1, <2>2, <2>3, <2>4
<1>6. attempt' \in 0..MaxAttempts
  BY <1>1, <1>2, <1>3
<1> QED
  BY <1>4, <1>5, <1>6

\* So does the end of an attempt that failed.
LEMMA AttemptFailsTypes ==
  ASSUME ConnectorTypeOK, NEW retryable \in BOOLEAN, AttemptFails(retryable)
  PROVE  /\ timers' \in Nat /\ tracked' \in BOOLEAN /\ (tracked' => timers' > 0)
         /\ attempt' \in 0..MaxAttempts
         /\ final' \in {"no", "manual", "drop", "retries-exhausted", "unrecoverable"}
         /\ phase' = "none" /\ cur' = NoSocket /\ manualWaits' = FALSE /\ timerWaits' = 0
<1>1. timerWaits + (IF manualWaits /\ retryInitial /\ ~finallyClosed THEN 1 ELSE 0) \in Nat
  BY DEF ConnectorTypeOK
<1> QED
  BY <1>1, RetryTypes DEF AttemptFails, OpenEnds

-----------------------------------------------------------------------------
(* The actions.                                                            *)

LEMMA InvInit ==
  ASSUME ConnectorInit PROVE ConnectorInv
<1>1. ConnectorTypeOK
  <2>1. attempt \in 0..MaxAttempts /\ timers \in Nat /\ timerWaits \in Nat /\ ~tracked
    BY DEF ConnectorInit
  <2> QED BY <2>1 DEF ConnectorInit, ConnectorTypeOK
<1>2. HandshakeIsOpening /\ OpenIsTheSocket /\ ClosedHasNone
  BY DEF ConnectorInit, HandshakeIsOpening, OpenIsTheSocket, ClosedHasNone
<1> QED BY <1>1, <1>2 DEF ConnectorInv

\* Attempts begin only without a socket and without another attempt.
LEMMA AttemptsKeep ==
  ASSUME ConnectorInv, UNCHANGED options, NEW s \in ConnSocket,
         Connect(s) \/ \E own \in BOOLEAN : TimerFires(s, own)
  PROVE  ConnectorInv'
<1> USE DEF ConnectorInv, ConnectorTypeOK, HandshakeIsOpening, OpenIsTheSocket, ClosedHasNone, options, StartOpen
<1>1. CASE Connect(s)
  <2>1. /\ timers' \in Nat /\ tracked' \in BOOLEAN /\ (tracked' => timers' > 0)
        /\ attempt' \in 0..MaxAttempts
    <3>1. CASE CancelRetry BY <3>1, CancelTypes
    <3>2. CASE UNCHANGED retry BY <3>2 DEF retry
    <3> QED BY <1>1, <3>1, <3>2 DEF Connect
  <2> QED
    BY <1>1, <2>1 DEF Connect
<1>2. ASSUME NEW own \in BOOLEAN, TimerFires(s, own) PROVE ConnectorInv'
  <2>1. timers' \in Nat /\ tracked' = FALSE
    <3>1. timers > 0
      <4>1. CASE own BY <1>2, <4>1 DEF TimerFires
      <4>2. CASE ~own BY <1>2, <4>2 DEF TimerFires
      <4> QED BY <4>1, <4>2
    <3> QED BY <1>2, <3>1 DEF TimerFires
  <2>2. CASE finallyClosed \/ socket # NoSocket BY <1>2, <2>1, <2>2 DEF TimerFires
  <2>3. CASE ~(finallyClosed \/ socket # NoSocket) /\ phase = "none"
    <3>1. timerWaits + 1 \in Nat /\ timerWaits' = timerWaits + 1 BY <1>2, <2>3 DEF TimerFires
    <3>2. /\ connState' = [connState EXCEPT ![s] = "handshake"] /\ phase' = "handshake" /\ cur' = s
          /\ connState[s] = "none"
      BY <1>2, <2>3 DEF TimerFires
    <3>3. UNCHANGED <<wired, socket, manualWaits, hasOpened, finallyClosed, final, attempt>>
      BY <1>2 DEF TimerFires
    <3>4. ConnectorTypeOK' BY <2>1, <3>1, <3>2, <3>3
    <3> QED BY <2>3, <3>2, <3>3, <3>4
  <2>4. CASE ~(finallyClosed \/ socket # NoSocket) /\ phase # "none"
    <3>1. timerWaits + 1 \in Nat /\ timerWaits' = timerWaits + 1 BY <1>2, <2>4 DEF TimerFires
    <3>2. UNCHANGED <<connState, phase, cur, wired, socket, manualWaits, hasOpened, finallyClosed,
                      final, attempt>>
      BY <1>2, <2>4 DEF TimerFires
    <3>3. ConnectorTypeOK' BY <2>1, <3>1, <3>2
    <3> QED BY <3>2, <3>3
  <2> QED
    BY <2>2, <2>3, <2>4
<1> QED
  BY <1>1, <1>2

\* The end of a handshake or of a setup.
LEMMA OpeningKeeps ==
  ASSUME ConnectorInv, UNCHANGED options,
         \/ \E retryable \in BOOLEAN : HandshakeFails(retryable) \/ SetupThrows(retryable)
         \/ HandshakeDone \/ SetupDone
  PROVE  ConnectorInv'
<1> USE DEF ConnectorInv, ConnectorTypeOK, HandshakeIsOpening, OpenIsTheSocket, ClosedHasNone, options, OpenEnds
<1>1. ASSUME NEW retryable \in BOOLEAN, HandshakeFails(retryable) PROVE ConnectorInv'
  <2>1. cur \in ConnSocket /\ connState' = [connState EXCEPT ![cur] = "none"] /\ AttemptFails(retryable)
        /\ phase = "handshake"
    BY <1>1 DEF HandshakeFails
  <2>2. UNCHANGED <<wired, socket, hasOpened, finallyClosed>> BY <1>1 DEF HandshakeFails
  <2>f. /\ timers' \in Nat /\ tracked' \in BOOLEAN /\ (tracked' => timers' > 0)
        /\ attempt' \in 0..MaxAttempts
        /\ final' \in {"no", "manual", "drop", "retries-exhausted", "unrecoverable"}
        /\ phase' = "none" /\ cur' = NoSocket /\ manualWaits' = FALSE /\ timerWaits' = 0
    BY <2>1, AttemptFailsTypes
  <2>3. ConnectorTypeOK' BY <2>1, <2>2, <2>f
  <2> QED BY <2>1, <2>2, <2>3, <2>f
<1>2. ASSUME NEW retryable \in BOOLEAN, SetupThrows(retryable) PROVE ConnectorInv'
  <2>1. cur \in ConnSocket /\ AttemptFails(retryable) /\ phase = "setup"
        /\ socket' = IF socket = cur THEN NoSocket ELSE socket
    BY <1>2 DEF SetupThrows
  <2>2. connState' = IF connState[cur] = "open" THEN [connState EXCEPT ![cur] = "closing"] ELSE connState
    BY <1>2 DEF SetupThrows, CloseSocket
  <2>3. UNCHANGED <<wired, hasOpened, finallyClosed>> BY <1>2 DEF SetupThrows
  <2>4. connState' \in [ConnSocket -> {"none", "handshake", "open", "draining", "closing"}]
        /\ socket' \in ConnSocket \cup {NoSocket}
    BY <2>1, <2>2
  <2>f. /\ timers' \in Nat /\ tracked' \in BOOLEAN /\ (tracked' => timers' > 0)
        /\ attempt' \in 0..MaxAttempts
        /\ final' \in {"no", "manual", "drop", "retries-exhausted", "unrecoverable"}
        /\ phase' = "none" /\ cur' = NoSocket /\ manualWaits' = FALSE /\ timerWaits' = 0
    BY <2>1, AttemptFailsTypes
  <2>5. ConnectorTypeOK' BY <2>3, <2>4, <2>f
  <2> QED BY <2>1, <2>2, <2>3, <2>5, <2>f
<1>3. CASE HandshakeDone
  <2>1. CASE finallyClosed
    <3>1. /\ connState' = [connState EXCEPT ![cur] = "closing"] /\ phase = "handshake"
          /\ phase' = "none" /\ cur' = NoSocket /\ manualWaits' = FALSE /\ timerWaits' = 0
          /\ UNCHANGED <<wired, socket, timers, tracked, attempt, hasOpened, finallyClosed, final>>
      BY <1>3, <2>1 DEF HandshakeDone, retry
    <3>2. ConnectorTypeOK' BY <3>1
    <3> QED BY <3>1, <3>2
  <2>2. CASE ~finallyClosed BY <1>3, <2>2 DEF HandshakeDone, retry
  <2> QED
    BY <2>1, <2>2
<1>4. CASE SetupDone
  <2>1. /\ wired' = [wired EXCEPT ![cur] = IF @ = "setup" THEN "done" ELSE @]
        /\ phase = "setup" /\ attempt' = 0 /\ hasOpened' = TRUE
        /\ phase' = "none" /\ cur' = NoSocket /\ manualWaits' = FALSE /\ timerWaits' = 0
        /\ UNCHANGED <<connState, socket, timers, tracked, finallyClosed, final>>
    BY <1>4 DEF SetupDone
  <2>2. wired' \in [ConnSocket -> {"no", "setup", "done"}] /\ attempt' \in 0..MaxAttempts
    BY <2>1
  <2>3. ConnectorTypeOK' BY <2>1, <2>2
  <2> QED BY <2>1, <2>3
<1> QED
  BY <1>1, <1>2, <1>3, <1>4

\* A socket closes, or is drained or closed by its user.
LEMMA SocketKeeps ==
  ASSUME ConnectorInv, UNCHANGED options,
         (\E s \in ConnSocket : SocketCloses(s) \/ SocketDrained(s)) \/ Close \/ Disconnect \/ ForceReconnect
  PROVE  ConnectorInv'
<1> USE DEF ConnectorInv, ConnectorTypeOK, HandshakeIsOpening, OpenIsTheSocket, ClosedHasNone, options, opening
<1>1. ASSUME NEW s \in ConnSocket, SocketCloses(s) PROVE ConnectorInv'
  <2>1. /\ timers' \in Nat /\ tracked' \in BOOLEAN /\ (tracked' => timers' > 0)
        /\ attempt' \in 0..MaxAttempts
        /\ final' \in {"no", "manual", "drop", "retries-exhausted", "unrecoverable"}
    <3>1. CASE RetryOrGiveUp(1, TRUE) BY <3>1, RetryTypes
    <3>2. CASE UNCHANGED retry /\ (final' = final \/ FireFinal("manual") \/ FireFinal("drop"))
      BY <3>2 DEF FireFinal, retry
    <3>3. wired[s] \in {"no", "setup", "done"} BY DEF ConnectorTypeOK
    <3> QED
      BY <1>1, <3>1, <3>2, <3>3 DEF SocketCloses
  <2> QED
    BY <1>1, <2>1 DEF SocketCloses
<1>2. ASSUME NEW s \in ConnSocket, SocketDrained(s) PROVE ConnectorInv'
  BY <1>2 DEF SocketDrained, retry
<1>3. ASSUME NEW how \in {"closing", "draining"}, End(how) PROVE ConnectorInv'
  <2>1. timers' \in Nat /\ tracked' = FALSE /\ attempt' \in 0..MaxAttempts
    BY <1>3, CancelTypes DEF End
  <2>2. CASE socket = NoSocket BY <1>3, <2>1, <2>2 DEF End, FireFinal
  <2>3. CASE socket # NoSocket BY <1>3, <2>1, <2>3 DEF End, CloseSocket
  <2> QED
    BY <2>2, <2>3
<1>4. CASE ForceReconnect BY <1>4 DEF ForceReconnect, retry
<1> QED
  BY <1>1, <1>2, <1>3, <1>4 DEF Close, Disconnect

LEMMA InvNext ==
  ASSUME ConnectorInv, [ConnectorNext]_connVars
  PROVE  ConnectorInv'
<1>1. CASE UNCHANGED connVars
  BY <1>1 DEF connVars, options, ConnectorInv, ConnectorTypeOK, HandshakeIsOpening, OpenIsTheSocket, ClosedHasNone
<1>2. CASE ConnectorNext
  BY <1>2, AttemptsKeep, OpeningKeeps, SocketKeeps DEF ConnectorNext
<1> QED
  BY <1>1, <1>2

LEMMA Invariant ==
  ConnectorSpec => []ConnectorInv
BY InvInit, InvNext, PTL DEF ConnectorSpec

-----------------------------------------------------------------------------
(* The theorems.                                                           *)

\* Every reachable state of the connector and its sockets is well typed.
THEOREM ConnectorTypesTheorem == ConnectorSpec => []ConnectorTypeOK
<1>1. ConnectorInv => ConnectorTypeOK BY DEF ConnectorInv
<1> QED BY <1>1, Invariant, PTL

\* A set without two elements has at most one.
LEMMA AtMostOne ==
  ASSUME NEW U, \A s, t \in U : s = t
  PROVE  Cardinality(U) <= 1
<1>1. CASE U = {} BY <1>1, FS_EmptySet
<1>2. CASE U # {}
  <2>1. PICK s : U = {s} BY <1>2
  <2> QED BY <2>1, FS_Singleton
<1> QED BY <1>1, <1>2

\* connect(), retries and drops never make a second connection, and none is left
\* open that the connector no longer refers to.
THEOREM OneConnectionTheorem == ConnectorSpec => []OneConnection
<1>1. ASSUME ConnectorInv PROVE OneConnection
  <2>1. \A s, t \in ConnSocket : connState[s] \in {"handshake", "open"} /\ connState[t] \in {"handshake", "open"} => s = t
    BY <1>1 DEF ConnectorInv, ConnectorTypeOK, HandshakeIsOpening, OpenIsTheSocket
  <2>2. \A s \in ConnSocket : connState[s] = "open" => socket = s
    BY <1>1 DEF ConnectorInv, OpenIsTheSocket
  <2>3. \A U : (\A s, t \in U : s = t) => Cardinality(U) <= 1
    BY AtMostOne
  <2> QED
    BY <2>1, <2>2, <2>3 DEF OneConnection
<1> QED BY <1>1, Invariant, PTL

\* After disconnect() or close() no socket is adopted and no attempt begins.
THEOREM ClosedStaysClosedTheorem == ConnectorSpec => ClosedStaysClosed
<1>1. ASSUME ConnectorInv, ConnectorNext, finallyClosed
      PROVE  socket' = NoSocket /\ (phase = "none" => phase' = "none")
  <2>1. finallyClosed' BY <1>1 DEF ConnectorNext, Connect, TimerFires, HandshakeFails, SetupThrows,
          HandshakeDone, SetupDone, SocketCloses, SocketDrained, Close, Disconnect, End, ForceReconnect
  <2>2. socket' = NoSocket BY <1>1, <2>1, InvNext DEF ConnectorInv, ClosedHasNone
  <2>3. phase = "none" => phase' = "none"
    BY <1>1 DEF ConnectorNext, Connect, TimerFires, HandshakeFails, SetupThrows, HandshakeDone,
       SetupDone, AttemptFails, OpenEnds, SocketCloses, SocketDrained, Close, Disconnect, End,
       ForceReconnect, opening
  <2> QED BY <2>2, <2>3
<1>2. ConnectorInv /\ [ConnectorNext]_connVars =>
        [finallyClosed => socket' = NoSocket /\ (phase = "none" => phase' = "none")]_connVars
  BY <1>1
<1> QED BY <1>2, Invariant, PTL DEF ConnectorSpec, ClosedStaysClosed

-----------------------------------------------------------------------------
(***************************************************************************)
(* The report of a close. The socket of a connector is open or on its way  *)
(* out, and has its close listener; so a close that is not reported yet is *)
(* one whose close event is still due, and that event reports it.          *)
(***************************************************************************)
SocketIsWired ==
  socket # NoSocket => connState[socket] \in {"open", "draining", "closing"} /\ wired[socket] # "no"
Leaving == {"draining", "closing"}
ReportIsDue ==
  finallyClosed /\ final = "no" => \E s \in ConnSocket : connState[s] \in Leaving /\ wired[s] # "no"

LEMMA WiredStep ==
  ASSUME ConnectorInv, SocketIsWired, [ConnectorNext]_connVars
  PROVE  SocketIsWired'
<1> USE DEF SocketIsWired, ConnectorInv, ConnectorTypeOK,
            HandshakeIsOpening, OpenIsTheSocket
<1>1. ASSUME NEW s \in ConnSocket, Connect(s) PROVE SocketIsWired'
  BY <1>1 DEF Connect, StartOpen
<1>2. ASSUME NEW s \in ConnSocket, NEW own \in BOOLEAN, TimerFires(s, own) PROVE SocketIsWired'
  BY <1>2 DEF TimerFires, StartOpen
<1>3. ASSUME NEW s \in ConnSocket, SocketCloses(s) \/ SocketDrained(s) PROVE SocketIsWired'
  BY <1>3 DEF SocketCloses, SocketDrained
<1>4. ASSUME NEW b \in BOOLEAN, HandshakeFails(b) PROVE SocketIsWired'
  BY <1>4 DEF HandshakeFails
<1>5. ASSUME NEW b \in BOOLEAN, SetupThrows(b) PROVE SocketIsWired'
  BY <1>5 DEF SetupThrows, CloseSocket
<1>6. CASE HandshakeDone
  BY <1>6 DEF HandshakeDone
<1>7. CASE SetupDone
  <2>1. /\ wired' = [wired EXCEPT ![cur] = IF @ = "setup" THEN "done" ELSE @]
        /\ connState' = connState /\ socket' = socket /\ cur \in ConnSocket
    BY <1>7 DEF SetupDone
  <2> QED
    BY <2>1
<1>8. CASE Close \/ Disconnect
  BY <1>8 DEF Close, Disconnect, End
<1>9. CASE ForceReconnect
  BY <1>9 DEF ForceReconnect
<1>10. CASE UNCHANGED connVars
  BY <1>10 DEF connVars
<1> QED
  BY <1>1, <1>2, <1>3, <1>4, <1>5, <1>6, <1>7, <1>8, <1>9, <1>10 DEF ConnectorNext

\* A socket on its way out keeps its listener until its close event.
LEMMA LeavingStays ==
  ASSUME ConnectorInv, SocketIsWired, [ConnectorNext]_connVars,
         finallyClosed, final = "no",
         NEW s \in ConnSocket, connState[s] \in Leaving, wired[s] # "no"
  PROVE  final' # "no" \/ (connState'[s] \in Leaving /\ wired'[s] # "no")
<1> USE DEF Leaving, ConnectorInv, ConnectorTypeOK,
            HandshakeIsOpening, OpenIsTheSocket, ClosedHasNone
<1>1. ASSUME NEW x \in ConnSocket, Connect(x) PROVE FALSE
  BY <1>1 DEF Connect
<1>2. ASSUME NEW x \in ConnSocket, NEW own \in BOOLEAN, TimerFires(x, own)
      PROVE  connState' = connState /\ wired' = wired
  BY <1>2 DEF TimerFires
<1>3. ASSUME NEW x \in ConnSocket, SocketCloses(x)
      PROVE  final' # "no" \/ (connState'[s] \in Leaving /\ wired'[s] # "no")
  <2>1. CASE x = s
    <3>1. FireFinal("manual")
      BY <1>3, <2>1 DEF SocketCloses
    <3> QED
      BY <3>1 DEF FireFinal
  <2>2. CASE x # s
    BY <1>3, <2>2 DEF SocketCloses
  <2> QED
    BY <2>1, <2>2
<1>4. ASSUME NEW x \in ConnSocket, SocketDrained(x) PROVE connState'[s] \in Leaving /\ wired'[s] # "no"
  BY <1>4 DEF SocketDrained
<1>5. ASSUME NEW b \in BOOLEAN, HandshakeFails(b) PROVE connState'[s] \in Leaving /\ wired'[s] # "no"
  BY <1>5 DEF HandshakeFails
<1>6. ASSUME NEW b \in BOOLEAN, SetupThrows(b) PROVE connState'[s] \in Leaving /\ wired'[s] # "no"
  BY <1>6 DEF SetupThrows, CloseSocket
<1>7. CASE HandshakeDone
  BY <1>7 DEF HandshakeDone
<1>8. CASE SetupDone
  <2>1. /\ wired' = [wired EXCEPT ![cur] = IF @ = "setup" THEN "done" ELSE @]
        /\ connState' = connState /\ cur \in ConnSocket
    BY <1>8 DEF SetupDone
  <2> QED
    BY <2>1
<1>9. CASE Close \/ Disconnect
  <2>1. FireFinal("manual")
    BY <1>9 DEF Close, Disconnect, End
  <2> QED
    BY <2>1 DEF FireFinal
<1>10. ASSUME ForceReconnect PROVE FALSE
  BY <1>10 DEF ForceReconnect
<1>11. CASE UNCHANGED connVars
  BY <1>11 DEF connVars
<1> QED
  BY <1>1, <1>2, <1>3, <1>4, <1>5, <1>6, <1>7, <1>8, <1>9, <1>10, <1>11 DEF ConnectorNext

\* disconnect() and close() are never forgotten: once a connector is closed,
\* onClose has been reported or a close event that reports it is still due
\* (what ManualCloseIsReported needs of every step).
THEOREM ReportIsDueTheorem == ConnectorSpec => []ReportIsDue
<1>1. ConnectorInit => SocketIsWired /\ ReportIsDue
  BY DEF ConnectorInit, SocketIsWired, ReportIsDue
<1>2. ASSUME ConnectorInv, SocketIsWired, ReportIsDue, [ConnectorNext]_connVars
      PROVE  ReportIsDue'
  <2>1. CASE finallyClosed /\ final = "no"
    BY <1>2, <2>1, LeavingStays DEF ReportIsDue, Leaving
  <2>2. CASE finallyClosed /\ final # "no"
    <3>1. final' # "no"
      BY <1>2, <2>2 DEF ConnectorNext, connVars, Connect, TimerFires,
           SocketCloses, SocketDrained, HandshakeFails, SetupThrows,
           AttemptFails, RetryOrGiveUp, FireFinal, HandshakeDone,
           SetupDone, Close, Disconnect, End,
           ForceReconnect
    <3> QED
      BY <3>1 DEF ReportIsDue
  <2>3. CASE ~finallyClosed
    <3>1. SUFFICES ASSUME finallyClosed', final' = "no" PROVE ReportIsDue'
      BY DEF ReportIsDue
    <3>2. Close \/ Disconnect
      BY <1>2, <2>3, <3>1 DEF ConnectorNext, connVars, Connect, TimerFires,
           SocketCloses, SocketDrained, HandshakeFails, SetupThrows,
           HandshakeDone, SetupDone, ForceReconnect
    <3>3. PICK how \in Leaving : End(how)
      BY <3>2 DEF Close, Disconnect, Leaving
    <3>4. socket # NoSocket
      BY <3>1, <3>3 DEF End, FireFinal
    <3>5. socket \in ConnSocket /\ connState'[socket] \in Leaving /\ wired'[socket] # "no"
      BY <1>2, <3>3, <3>4 DEF End, CloseSocket, SocketIsWired, ConnectorInv,
                              ConnectorTypeOK, Leaving
    <3> QED
      BY <3>5 DEF ReportIsDue, Leaving
  <2> QED
    BY <2>1, <2>2, <2>3
<1>3. ConnectorInv /\ SocketIsWired /\ ReportIsDue /\ [ConnectorNext]_connVars
        => (SocketIsWired /\ ReportIsDue)'
  BY <1>2, WiredStep
<1> QED
  BY <1>1, <1>3, Invariant, PTL DEF ConnectorSpec
=============================================================================

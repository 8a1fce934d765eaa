------------------------- MODULE SocketServerProofs -------------------------
(***************************************************************************)
(* Theorems about SocketServer: types, and the safety of its teardown, for *)
(* any connections and requests.                                           *)
(***************************************************************************)
EXTENDS SocketServer, TLAPS

(***************************************************************************)
(* The inductive invariant. A connection that did not close early is open  *)
(* throughout its handshake, and listens when it is listed; a listed       *)
(* connection has not heard its close, and an active one is listed. Once   *)
(* teardown began each handshake that is left is late, and each active     *)
(* socket is late too or on its way down.                                  *)
(***************************************************************************)
ShakingIsOpen == \A c \in Conn : Shaking(c) /\ c \notin early => ws[c] = "open"
CleanedWasOpen ==
  \A c \in Conn : /\ listening[c] \/ cleaned[c] => hand[c] = "open"
                  /\ cleaned[c] => c \notin activeSockets
ListedListens ==
  \A c \in activeSockets : c \notin early => listening[c] /\ ws[c] # "closed"
ActiveIsListed == \A c \in Conn : isActive[c] => c \in activeSockets
TeardownReached ==
  /\ server = "up" => \A c \in Conn : teardown[c] = "none"
  /\ \A c \in Conn : teardown[c] = "done" => ~isActive[c]
  /\ \A c \in Conn : teardown[c] # "none" => hand[c] = "open"
  /\ server # "up" =>
       \A c \in Conn : /\ Shaking(c) => c \in late
                       /\ isActive[c] => teardown[c] # "none" \/ c \in late
  /\ server = "stopped" => \A c \in Conn : teardown[c] \in {"none", "done"}

IInv ==
  /\ TypeOK /\ ShakingIsOpen /\ CleanedWasOpen /\ ListedListens /\ ActiveIsListed
  /\ TeardownReached /\ NoneWaitsOnClosed

\* What the parts of the invariant are made of.
LEMMA InvInit == Init => IInv
  BY DEF Init, IInv, TypeOK, ShakingIsOpen, CleanedWasOpen, ListedListens, ActiveIsListed,
         TeardownReached, NoneWaitsOnClosed, Shaking, Pending

\* The handshake: a connection is accepted, authorized, rejected or opened.
LEMMA HandshakeKeeps ==
  ASSUME IInv, NEW c \in Conn,
         Accept(c) \/ Authorize(c) \/ Reject(c) \/ Open(c)
  PROVE  IInv'
<1> USE DEF IInv, Set, sockets, history
<1>1. CASE Accept(c)
  <2>1. TypeOK' BY <1>1 DEF Accept, TypeOK, Shaking, CleanedWasOpen
  <2>2. ShakingIsOpen' BY <1>1 DEF Accept, TypeOK, ShakingIsOpen, Shaking
  <2>3. CleanedWasOpen' BY <1>1 DEF Accept, TypeOK, CleanedWasOpen
  <2>4. ListedListens' BY <1>1 DEF Accept, TypeOK, ListedListens, ShakingIsOpen, Shaking, CleanedWasOpen
  <2>5. ActiveIsListed' BY <1>1 DEF Accept, TypeOK, ActiveIsListed
  <2>6. TeardownReached' BY <1>1 DEF Accept, TypeOK, TeardownReached, Shaking, ActiveIsListed
  <2>7. NoneWaitsOnClosed' BY <1>1 DEF Accept, TypeOK, NoneWaitsOnClosed, Pending
  <2> QED BY <2>1, <2>2, <2>3, <2>4, <2>5, <2>6, <2>7 DEF IInv
<1>2. CASE Authorize(c)
  <2>1. TypeOK' BY <1>2 DEF Authorize, TypeOK, Shaking, CleanedWasOpen
  <2>2. ShakingIsOpen' BY <1>2 DEF Authorize, TypeOK, ShakingIsOpen, Shaking
  <2>3. CleanedWasOpen' BY <1>2 DEF Authorize, TypeOK, CleanedWasOpen
  <2>4. ListedListens' BY <1>2 DEF Authorize, TypeOK, ListedListens, ShakingIsOpen, Shaking, CleanedWasOpen
  <2>5. ActiveIsListed' BY <1>2 DEF Authorize, TypeOK, ActiveIsListed
  <2>6. TeardownReached' BY <1>2 DEF Authorize, TypeOK, TeardownReached, Shaking, ActiveIsListed
  <2>7. NoneWaitsOnClosed' BY <1>2 DEF Authorize, TypeOK, NoneWaitsOnClosed, Pending
  <2> QED BY <2>1, <2>2, <2>3, <2>4, <2>5, <2>6, <2>7 DEF IInv
<1>3. CASE Reject(c)
  <2>1. TypeOK' BY <1>3 DEF Reject, WsClose, TypeOK, Shaking, CleanedWasOpen
  <2>2. ShakingIsOpen' BY <1>3 DEF Reject, WsClose, TypeOK, ShakingIsOpen, Shaking
  <2>3. CleanedWasOpen' BY <1>3 DEF Reject, TypeOK, CleanedWasOpen, Shaking
  <2>4. ListedListens' BY <1>3 DEF Reject, WsClose, TypeOK, ListedListens, ShakingIsOpen, Shaking, CleanedWasOpen
  <2>5. ActiveIsListed' BY <1>3 DEF Reject, WsClose, TypeOK, ActiveIsListed
  <2>6. TeardownReached' BY <1>3 DEF Reject, WsClose, TypeOK, TeardownReached, Shaking, ActiveIsListed
  <2>7. NoneWaitsOnClosed' BY <1>3 DEF Reject, WsClose, TypeOK, NoneWaitsOnClosed, Pending
  <2> QED BY <2>1, <2>2, <2>3, <2>4, <2>5, <2>6, <2>7 DEF IInv
<1>4. CASE Open(c)
  <2>1. TypeOK' BY <1>4 DEF Open, TypeOK, Shaking, CleanedWasOpen
  <2>2. ShakingIsOpen' BY <1>4 DEF Open, TypeOK, ShakingIsOpen, Shaking
  <2>3. CleanedWasOpen' BY <1>4 DEF Open, TypeOK, CleanedWasOpen
  <2>l. /\ activeSockets' = activeSockets \cup {c} /\ ws' = ws
        /\ listening' = [listening EXCEPT ![c] = (ws[c] # "closed")]
        /\ early' = early /\ (c \notin early => ws[c] = "open")
    BY <1>4 DEF Open, ShakingIsOpen, Shaking
  <2>a. activeSockets \subseteq Conn BY DEF TypeOK
  <2>b. \A d \in Conn : listening'[d] = IF d = c THEN ws[c] # "closed" ELSE listening[d]
    BY <2>l DEF TypeOK
  <2>4. ListedListens' BY <2>a, <2>b, <2>l DEF ListedListens
  <2>5. ActiveIsListed' BY <1>4 DEF Open, TypeOK, ActiveIsListed
  <2>6. TeardownReached' BY <1>4 DEF Open, TypeOK, TeardownReached, Shaking, ActiveIsListed
  <2>7. NoneWaitsOnClosed' BY <1>4 DEF Open, TypeOK, NoneWaitsOnClosed, Pending
  <2> QED BY <2>1, <2>2, <2>3, <2>4, <2>5, <2>6, <2>7 DEF IInv
<1> QED BY <1>1, <1>2, <1>3, <1>4

\* The ws and its peer: it closes, vanishes, or is reaped.
LEMMA PeerKeeps ==
  ASSUME IInv, NEW c \in Conn, Closes(c) \/ Vanishes(c) \/ Reap(c)
  PROVE  IInv'
<1> USE DEF IInv, Set, sockets, history
<1>1. CASE Closes(c)
  <2>1. CASE listening[c] /\ ~cleaned[c]
    <3>r. RejectAll(c) \in [Req -> {"new", "pending", "answered", "timed out", "closed"}]
      BY DEF RejectAll, TypeOK
    <3>p. \A r \in Req : RejectAll(c)[r] # "pending" BY DEF RejectAll, Pending, TypeOK
    <3>s. TypeOK /\ activeSockets' = activeSockets \ {c} BY <1>1, <2>1 DEF Closes, Forget
    <3>a. req' = [req EXCEPT ![c] = RejectAll(c)] BY <1>1, <2>1 DEF Closes
    <3>1. TypeOK' BY <1>1, <2>1, <3>r, <3>s DEF Closes, TypeOK
    <3>2. ShakingIsOpen' BY <1>1, <2>1, <3>s DEF Closes, TypeOK, ShakingIsOpen, Shaking
    <3>3. CleanedWasOpen' BY <1>1, <2>1, <3>s DEF Closes, TypeOK, CleanedWasOpen
    <3>4. ListedListens' BY <1>1, <2>1, <3>s DEF Closes, TypeOK, ListedListens, ShakingIsOpen, Shaking, CleanedWasOpen
    <3>5. ActiveIsListed' BY <1>1, <2>1, <3>s DEF Closes, TypeOK, ActiveIsListed
    <3>t. /\ hand' = hand /\ teardown' = teardown /\ server' = server /\ late' = late
          /\ isActive' = [isActive EXCEPT ![c] = FALSE]
      BY <1>1, <2>1 DEF Closes
    <3>6. TeardownReached' BY <3>s, <3>t DEF TypeOK, TeardownReached, Shaking
    <3>7. NoneWaitsOnClosed' BY <1>1, <2>1, <3>a, <3>p DEF Closes, TypeOK, NoneWaitsOnClosed, Pending
    <3> QED BY <3>1, <3>2, <3>3, <3>4, <3>5, <3>6, <3>7 DEF IInv
  <2>2. CASE ~(listening[c] /\ ~cleaned[c])
    <3>s. /\ ws' = [ws EXCEPT ![c] = "closed"] /\ answering' = [answering EXCEPT ![c] = FALSE]
          /\ isActive' = isActive /\ cleaned' = cleaned /\ activeSockets' = activeSockets
          /\ req' = req /\ hand' = hand /\ listening' = listening
          /\ teardown' = teardown /\ server' = server
      BY <1>1, <2>2 DEF Closes
    <3>p. early \subseteq early' /\ early' \subseteq Conn /\ (Shaking(c) => c \in early')
          /\ late' = late
      BY <1>1 DEF Closes, TypeOK
    <3>l. c \notin activeSockets \/ c \in early BY <2>2 DEF ListedListens, CleanedWasOpen
    <3>1. TypeOK' BY <3>s, <3>p DEF TypeOK
    <3>2. ShakingIsOpen' BY <3>s, <3>p DEF TypeOK, ShakingIsOpen, Shaking
    <3>3. CleanedWasOpen' BY <3>s DEF TypeOK, CleanedWasOpen
    <3>4. ListedListens' BY <3>s, <3>l, <3>p DEF TypeOK, ListedListens
    <3>5. ActiveIsListed' BY <3>s DEF ActiveIsListed
    <3>6. TeardownReached' BY <3>s, <3>p DEF TeardownReached, Shaking
    <3>7. NoneWaitsOnClosed' BY <3>s DEF NoneWaitsOnClosed, Pending
    <3> QED BY <3>1, <3>2, <3>3, <3>4, <3>5, <3>6, <3>7 DEF IInv
  <2> QED BY <2>1, <2>2
<1>2. CASE Vanishes(c)
  <2>1. TypeOK' BY <1>2 DEF Vanishes, TypeOK, Shaking, CleanedWasOpen
  <2>2. ShakingIsOpen' BY <1>2 DEF Vanishes, TypeOK, ShakingIsOpen, Shaking
  <2>3. CleanedWasOpen' BY <1>2 DEF Vanishes, TypeOK, CleanedWasOpen
  <2>4. ListedListens' BY <1>2 DEF Vanishes, TypeOK, ListedListens, ShakingIsOpen, Shaking, CleanedWasOpen
  <2>5. ActiveIsListed' BY <1>2 DEF Vanishes, TypeOK, ActiveIsListed
  <2>6. TeardownReached' BY <1>2 DEF Vanishes, TypeOK, TeardownReached, Shaking, ActiveIsListed
  <2>7. NoneWaitsOnClosed' BY <1>2 DEF Vanishes, TypeOK, NoneWaitsOnClosed, Pending
  <2> QED BY <2>1, <2>2, <2>3, <2>4, <2>5, <2>6, <2>7 DEF IInv
<1>3. CASE Reap(c)
  <2>1. TypeOK' BY <1>3 DEF Reap, Close, WsClose, TypeOK, Shaking, CleanedWasOpen
  <2>2. ShakingIsOpen' BY <1>3 DEF Reap, Close, WsClose, TypeOK, ShakingIsOpen, Shaking, ActiveIsListed
  <2>3. CleanedWasOpen' BY <1>3 DEF Reap, Close, TypeOK, CleanedWasOpen
  <2>4. ListedListens' BY <1>3 DEF Reap, Close, WsClose, TypeOK, ListedListens, ShakingIsOpen, Shaking, CleanedWasOpen
  <2>5. ActiveIsListed' BY <1>3 DEF Reap, Close, TypeOK, ActiveIsListed
  <2>6. TeardownReached' BY <1>3 DEF Reap, Close, WsClose, TypeOK, TeardownReached, Shaking, ActiveIsListed
  <2>7. NoneWaitsOnClosed' BY <1>3 DEF Reap, Close, TypeOK, NoneWaitsOnClosed, Pending
  <2> QED BY <2>1, <2>2, <2>3, <2>4, <2>5, <2>6, <2>7 DEF IInv
<1> QED BY <1>1, <1>2, <1>3

\* Requests are sent, answered and timed out.
LEMMA RequestKeeps ==
  ASSUME IInv, NEW c \in Conn, NEW r \in Req,
         Send(c, r) \/ Answer(c, r) \/ TimeOut(c, r)
  PROVE  IInv'
<1> USE DEF IInv, Set, sockets, history
<1>1. CASE Send(c, r)
  <2>1. TypeOK' BY <1>1 DEF Send, TypeOK, Shaking, CleanedWasOpen
  <2>2. ShakingIsOpen' BY <1>1 DEF Send, TypeOK, ShakingIsOpen, Shaking
  <2>3. CleanedWasOpen' BY <1>1 DEF Send, TypeOK, CleanedWasOpen
  <2>4. ListedListens' BY <1>1 DEF Send, TypeOK, ListedListens, ShakingIsOpen, Shaking, CleanedWasOpen
  <2>5. ActiveIsListed' BY <1>1 DEF Send, TypeOK, ActiveIsListed
  <2>6. TeardownReached' BY <1>1 DEF Send, TypeOK, TeardownReached, Shaking, ActiveIsListed
  <2>7. NoneWaitsOnClosed' BY <1>1 DEF Send, TypeOK, NoneWaitsOnClosed, Pending
  <2> QED BY <2>1, <2>2, <2>3, <2>4, <2>5, <2>6, <2>7 DEF IInv
<1>2. CASE Answer(c, r)
  <2>1. TypeOK' BY <1>2 DEF Answer, TypeOK, Shaking, CleanedWasOpen
  <2>2. ShakingIsOpen' BY <1>2 DEF Answer, TypeOK, ShakingIsOpen, Shaking
  <2>3. CleanedWasOpen' BY <1>2 DEF Answer, TypeOK, CleanedWasOpen
  <2>4. ListedListens' BY <1>2 DEF Answer, TypeOK, ListedListens, ShakingIsOpen, Shaking, CleanedWasOpen
  <2>5. ActiveIsListed' BY <1>2 DEF Answer, TypeOK, ActiveIsListed
  <2>6. TeardownReached' BY <1>2 DEF Answer, TypeOK, TeardownReached, Shaking, ActiveIsListed
  <2>7. NoneWaitsOnClosed' BY <1>2 DEF Answer, TypeOK, NoneWaitsOnClosed, Pending
  <2> QED BY <2>1, <2>2, <2>3, <2>4, <2>5, <2>6, <2>7 DEF IInv
<1>3. CASE TimeOut(c, r)
  <2>1. TypeOK' BY <1>3 DEF TimeOut, TypeOK, Shaking, CleanedWasOpen
  <2>2. ShakingIsOpen' BY <1>3 DEF TimeOut, TypeOK, ShakingIsOpen, Shaking
  <2>3. CleanedWasOpen' BY <1>3 DEF TimeOut, TypeOK, CleanedWasOpen
  <2>4. ListedListens' BY <1>3 DEF TimeOut, TypeOK, ListedListens, ShakingIsOpen, Shaking, CleanedWasOpen
  <2>5. ActiveIsListed' BY <1>3 DEF TimeOut, TypeOK, ActiveIsListed
  <2>6. TeardownReached' BY <1>3 DEF TimeOut, TypeOK, TeardownReached, Shaking, ActiveIsListed
  <2>7. NoneWaitsOnClosed' BY <1>3 DEF TimeOut, TypeOK, NoneWaitsOnClosed, Pending
  <2> QED BY <2>1, <2>2, <2>3, <2>4, <2>5, <2>6, <2>7 DEF IInv
<1> QED BY <1>1, <1>2, <1>3

\* The teardown of the server and of its sockets.
LEMMA TeardownKeeps ==
  ASSUME IInv,
         BeginTeardown \/ Stop \/ \E c \in Conn : Drained(c) \/ TornDown(c)
  PROVE  IInv'
<1> USE DEF IInv, Set, sockets, history
<1>1. CASE BeginTeardown
  <2>1. TypeOK' BY <1>1 DEF BeginTeardown, TypeOK, Shaking, CleanedWasOpen
  <2>2. ShakingIsOpen' BY <1>1 DEF BeginTeardown, TypeOK, ShakingIsOpen, Shaking
  <2>3. CleanedWasOpen' BY <1>1 DEF BeginTeardown, TypeOK, CleanedWasOpen
  <2>4. ListedListens' BY <1>1 DEF BeginTeardown, TypeOK, ListedListens, ShakingIsOpen, Shaking, CleanedWasOpen
  <2>5. ActiveIsListed' BY <1>1 DEF BeginTeardown, TypeOK, ActiveIsListed
  <2>6. TeardownReached' BY <1>1 DEF BeginTeardown, TypeOK, TeardownReached, Shaking, ActiveIsListed
  <2>7. NoneWaitsOnClosed' BY <1>1 DEF BeginTeardown, TypeOK, NoneWaitsOnClosed, Pending
  <2> QED BY <2>1, <2>2, <2>3, <2>4, <2>5, <2>6, <2>7 DEF IInv
<1>2. CASE Stop
  <2>1. TypeOK' BY <1>2 DEF Stop, TypeOK, Shaking, CleanedWasOpen
  <2>2. ShakingIsOpen' BY <1>2 DEF Stop, TypeOK, ShakingIsOpen, Shaking
  <2>3. CleanedWasOpen' BY <1>2 DEF Stop, TypeOK, CleanedWasOpen
  <2>4. ListedListens' BY <1>2 DEF Stop, TypeOK, ListedListens, ShakingIsOpen, Shaking, CleanedWasOpen
  <2>5. ActiveIsListed' BY <1>2 DEF Stop, TypeOK, ActiveIsListed
  <2>6. TeardownReached' BY <1>2 DEF Stop, TypeOK, TeardownReached, Shaking, ActiveIsListed
  <2>7. NoneWaitsOnClosed' BY <1>2 DEF Stop, TypeOK, NoneWaitsOnClosed, Pending
  <2> QED BY <2>1, <2>2, <2>3, <2>4, <2>5, <2>6, <2>7 DEF IInv
<1>3. ASSUME NEW c \in Conn, Drained(c) PROVE IInv'
  <2>1. TypeOK' BY <1>3 DEF Drained, TypeOK, Shaking, CleanedWasOpen
  <2>2. ShakingIsOpen' BY <1>3 DEF Drained, TypeOK, ShakingIsOpen, Shaking
  <2>3. CleanedWasOpen' BY <1>3 DEF Drained, TypeOK, CleanedWasOpen
  <2>4. ListedListens' BY <1>3 DEF Drained, TypeOK, ListedListens, ShakingIsOpen, Shaking, CleanedWasOpen
  <2>5. ActiveIsListed' BY <1>3 DEF Drained, TypeOK, ActiveIsListed
  <2>6. TeardownReached' BY <1>3 DEF Drained, TypeOK, TeardownReached, Shaking, ActiveIsListed
  <2>7. NoneWaitsOnClosed' BY <1>3 DEF Drained, TypeOK, NoneWaitsOnClosed, Pending
  <2> QED BY <2>1, <2>2, <2>3, <2>4, <2>5, <2>6, <2>7 DEF IInv
<1>4. ASSUME NEW c \in Conn, TornDown(c) PROVE IInv'
  <2>1. TypeOK' BY <1>4 DEF TornDown, Close, WsClose, TypeOK, Shaking, CleanedWasOpen
  <2>2. ShakingIsOpen' BY <1>4 DEF TornDown, Close, WsClose, TypeOK, ShakingIsOpen, Shaking, ActiveIsListed
  <2>3. CleanedWasOpen' BY <1>4 DEF TornDown, Close, TypeOK, CleanedWasOpen
  <2>4. ListedListens' BY <1>4 DEF TornDown, Close, WsClose, TypeOK, ListedListens, ShakingIsOpen, Shaking, CleanedWasOpen
  <2>5. ActiveIsListed' BY <1>4 DEF TornDown, Close, TypeOK, ActiveIsListed
  <2>t. /\ server' = server /\ hand' = hand /\ late' = late /\ teardown[c] = "callbacks"
        /\ teardown' = [teardown EXCEPT ![c] = "done"]
        /\ isActive' = [isActive EXCEPT ![c] = FALSE]
    BY <1>4 DEF TornDown, Close
  <2>6. TeardownReached' BY <2>t DEF TypeOK, TeardownReached, Shaking
  <2>r. cleaned' = cleaned /\ req' = req BY <1>4 DEF TornDown
  <2>7. NoneWaitsOnClosed' BY <2>r DEF NoneWaitsOnClosed, Pending
  <2> QED BY <2>1, <2>2, <2>3, <2>4, <2>5, <2>6, <2>7 DEF IInv
<1> QED BY <1>1, <1>2, <1>3, <1>4

LEMMA InvNext == IInv /\ [Next]_vars => IInv'
<1> SUFFICES ASSUME IInv, [Next]_vars PROVE IInv' OBVIOUS
<1>1. CASE UNCHANGED vars
  <2>1. TypeOK' BY <1>1 DEF vars, IInv, TypeOK
  <2>2. ShakingIsOpen' BY <1>1 DEF vars, IInv, ShakingIsOpen, Shaking
  <2>3. CleanedWasOpen' /\ ListedListens' /\ ActiveIsListed'
    BY <1>1 DEF vars, IInv, CleanedWasOpen, ListedListens, ActiveIsListed
  <2>4. TeardownReached' BY <1>1 DEF vars, IInv, TeardownReached, Shaking
  <2>5. NoneWaitsOnClosed' BY <1>1 DEF vars, IInv, NoneWaitsOnClosed, Pending
  <2> QED BY <2>1, <2>2, <2>3, <2>4, <2>5 DEF IInv
<1>2. CASE Next BY <1>2, HandshakeKeeps, PeerKeeps, RequestKeeps, TeardownKeeps DEF Next
<1> QED BY <1>1, <1>2

LEMMA Invariant == Spec => []IInv
  BY InvInit, InvNext, PTL DEF Spec

\* Every reachable state of the server, its sockets and their requests is well typed.
THEOREM TypeOKTheorem == Spec => []TypeOK
<1>1. IInv => TypeOK BY DEF IInv
<1> QED BY <1>1, Invariant, PTL

\* A socket that heard its connection close keeps nobody waiting.
THEOREM NoneWaitsOnClosedTheorem == Spec => []NoneWaitsOnClosed
<1>1. IInv => NoneWaitsOnClosed BY DEF IInv
<1> QED BY <1>1, Invariant, PTL

\* activeSockets lists no connection that has closed, but for one that closed
\* during its own handshake.
THEOREM ListedAreThereTheorem == Spec => []ListedAreThere
<1>1. IInv => ListedAreThere BY DEF IInv, ListedListens, ListedAreThere
<1> QED BY <1>1, Invariant, PTL

\* A server that has stopped serves no connection, but for one whose handshake was
\* under way when the teardown began.
THEOREM StoppedServesNoneTheorem == Spec => []StoppedServesNone
<1>1. IInv => StoppedServesNone BY DEF IInv, TypeOK, TeardownReached, StoppedServesNone
<1> QED BY <1>1, Invariant, PTL
=============================================================================

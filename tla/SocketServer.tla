---------------------------- MODULE SocketServer ----------------------------
(***************************************************************************)
(* GGSocketServer with the GGSocket of each connection and its requests:   *)
(* handshake, heartbeat, requests to the peer and their timeouts, graceful *)
(* teardown. A connection is never used again once its `ws` closed.        *)
(***************************************************************************)
EXTENDS Naturals

CONSTANTS
  Conn,
  Req       \* requests to the peer of one connection

VARIABLES
  server,     \* "up", "tearing" (down), "stopped"
  hand,       \* of each connection: where its handshake is
  ws,         \* of each connection: the readyState of its ws
  isActive, cleaned, listening,  \* of its GGSocket: isActive, isCleanedUp, and
                                 \* whether it was there to hear the ws close
  activeSockets,
  answering,  \* of each connection: the peer still answers pings and requests
  teardown,   \* of each connection: the step its teardown() has reached
  req,        \* of each connection and request: what became of it
  early,      \* history: connections that closed during their handshake
  late        \* history: those whose handshake was under way when the teardown began

vars == <<server, hand, ws, isActive, cleaned, listening, activeSockets,
          answering, teardown, req, early, late>>
history == <<early, late>>
sockets == <<isActive, cleaned, listening, activeSockets>>

Set(f, c, x) == [f EXCEPT ![c] = x]

TypeOK ==
  /\ early \subseteq Conn /\ late \subseteq Conn /\ server \in {"up", "tearing", "stopped"}
  /\ hand \in [Conn -> {"none", "awaited", "auth", "open", "rejected"}]
  /\ ws \in [Conn -> {"none", "open", "closing", "closed"}]
  /\ isActive \in [Conn -> BOOLEAN] /\ cleaned \in [Conn -> BOOLEAN]
  /\ listening \in [Conn -> BOOLEAN] /\ answering \in [Conn -> BOOLEAN]
  /\ activeSockets \subseteq {c \in Conn : hand[c] = "open"}
  /\ teardown \in [Conn -> {"none", "requests", "callbacks", "done"}]
  /\ req \in [Conn -> [Req -> {"new", "pending", "answered", "timed out", "closed"}]]
  /\ \A c \in Conn : cleaned[c] => ~isActive[c]

Init ==
  /\ early = {} /\ late = {} /\ server = "up"
  /\ hand = [c \in Conn |-> "none"] /\ ws = [c \in Conn |-> "none"]
  /\ isActive = [c \in Conn |-> FALSE] /\ cleaned = [c \in Conn |-> FALSE]
  /\ listening = [c \in Conn |-> FALSE] /\ answering = [c \in Conn |-> FALSE]
  /\ activeSockets = {} /\ teardown = [c \in Conn |-> "none"]
  /\ req = [c \in Conn |-> [r \in Req |-> "new"]]

Shaking(c) == hand[c] \in {"awaited", "auth"}
Pending(c) == {r \in Req : req[c][r] = "pending"}

WsClose(c) == IF ws[c] = "open" THEN Set(ws, c, "closing") ELSE ws

-----------------------------------------------------------------------------
(* The handshake.                                                          *)

\* The upgrade of a new connection; after onTeardown no upgrade arrives here.
Accept(c) ==
  /\ server = "up" /\ hand[c] = "none"
  /\ hand' = Set(hand, c, "awaited") /\ ws' = Set(ws, c, "open")
  /\ answering' = Set(answering, c, TRUE)
  /\ UNCHANGED <<history, server, sockets, teardown, req>>

\* The HANDSHAKE message came, the middlewares are awaited.
Authorize(c) ==
  /\ hand[c] = "awaited" /\ ws[c] # "closed" /\ answering[c]
  /\ hand' = Set(hand, c, "auth")
  /\ UNCHANGED <<history, server, ws, sockets, answering, teardown, req>>

\* A middleware rejects it, or five seconds passed.
Reject(c) ==
  /\ Shaking(c)
  /\ hand' = Set(hand, c, "rejected") /\ ws' = WsClose(c)
  /\ UNCHANGED <<history, server, sockets, answering, teardown, req>>

\* Whatever happened to the ws and to the server during the handshake.
Open(c) ==
  /\ hand[c] = "auth"
  /\ hand' = Set(hand, c, "open")
  /\ isActive' = Set(isActive, c, TRUE) /\ activeSockets' = activeSockets \cup {c}
  /\ listening' = Set(listening, c, ws[c] # "closed")
  /\ UNCHANGED <<history, server, ws, cleaned, answering, teardown, req>>

-----------------------------------------------------------------------------
(* The ws and its peer.                                                    *)

\* rejectAll: the requests are told that the connection closed.
RejectAll(c) == [r \in Req |-> IF r \in Pending(c) THEN "closed" ELSE req[c][r]]

\* Mutant: the socket stays in the list.
ForgetNone(c) == activeSockets

Forget(c) == activeSockets \ {c}

\* The close event of a ws: the peer closes, or answers our close, or the ws gives up.
Closes(c) ==
  /\ ws[c] \in {"open", "closing"}
  /\ early' = IF Shaking(c) THEN early \cup {c} ELSE early
  /\ ws' = Set(ws, c, "closed") /\ answering' = Set(answering, c, FALSE)
  /\ IF listening[c] /\ ~cleaned[c]
     THEN /\ isActive' = Set(isActive, c, FALSE) /\ cleaned' = Set(cleaned, c, TRUE)
          /\ req' = Set(req, c, RejectAll(c)) /\ activeSockets' = Forget(c)
     ELSE UNCHANGED <<isActive, cleaned, activeSockets, req>>
  /\ UNCHANGED <<late, server, hand, listening, teardown>>

\* The peer is gone without a close frame: nothing tells the server.
Vanishes(c) ==
  /\ ws[c] = "open" /\ answering[c]
  /\ answering' = Set(answering, c, FALSE)
  /\ UNCHANGED <<history, server, hand, ws, sockets, teardown, req>>

Close(c) ==
  /\ isActive' = Set(isActive, c, FALSE)
  /\ ws' = IF isActive[c] THEN WsClose(c) ELSE ws

\* Mutant: the watchdog trusts a ws that reads open.
ReapClosed(c) ==
  /\ isActive[c] /\ ~answering[c] /\ ws[c] # "open"
  /\ Close(c)
  /\ UNCHANGED <<history, server, hand, cleaned, listening, activeSockets, answering, teardown, req>>

\* The watchdog of the heartbeat: no pong for intervalMs + timeoutMs.
Reap(c) ==
  /\ isActive[c] /\ ~answering[c]
  /\ Close(c)
  /\ UNCHANGED <<history, server, hand, cleaned, listening, activeSockets, answering, teardown, req>>

-----------------------------------------------------------------------------
(* Requests to the peer: PendingRequestsMap.                               *)

Send(c, r) ==
  /\ isActive[c] /\ req[c][r] = "new"
  /\ req' = [req EXCEPT ![c][r] = "pending"]
  /\ UNCHANGED <<history, server, hand, ws, sockets, answering, teardown>>

\* An answer is not looked at once the socket is closing; one that comes after the
\* timeout throws in the message handler and changes nothing.
Answer(c, r) ==
  /\ isActive[c] /\ answering[c] /\ req[c][r] = "pending"
  /\ req' = [req EXCEPT ![c][r] = "answered"]
  /\ UNCHANGED <<history, server, hand, ws, sockets, answering, teardown>>

\* Mutant: the timer only looks at sockets that are still active.
TimeOutActive(c, r) ==
  /\ req[c][r] = "pending" /\ isActive[c]
  /\ req' = [req EXCEPT ![c][r] = "timed out"]
  /\ UNCHANGED <<history, server, hand, ws, sockets, answering, teardown>>

TimeOut(c, r) ==
  /\ req[c][r] = "pending"
  /\ req' = [req EXCEPT ![c][r] = "timed out"]
  /\ UNCHANGED <<history, server, hand, ws, sockets, answering, teardown>>

-----------------------------------------------------------------------------
(* Teardown.                                                               *)

\* onTeardown: upgrades stop, and every socket of that moment is torn down.
BeginTeardown ==
  /\ server = "up" /\ server' = "tearing"
  /\ late' = {c \in Conn : Shaking(c)}
  /\ teardown' = [c \in Conn |-> IF c \in activeSockets THEN "requests" ELSE teardown[c]]
  /\ UNCHANGED <<early, hand, ws, sockets, answering, req>>

\* The requests are settled, or were given pendingRequestsTimeoutMs.
Drained(c) ==
  /\ teardown[c] = "requests"
  /\ teardown' = Set(teardown, c, "callbacks")
  /\ UNCHANGED <<history, server, hand, ws, sockets, answering, req>>

\* Mutant: the socket is left to its peer.
LeaveIt(c) ==
  /\ teardown[c] = "callbacks" /\ teardown' = Set(teardown, c, "done")
  /\ UNCHANGED <<history, server, hand, ws, sockets, answering, req>>

\* The callbacks are done, or were given callbacksTimeoutMs.
TornDown(c) ==
  /\ teardown[c] = "callbacks" /\ teardown' = Set(teardown, c, "done")
  /\ Close(c)
  /\ UNCHANGED <<history, server, hand, cleaned, listening, activeSockets, answering, req>>

Stop ==
  /\ server = "tearing" /\ \A c \in Conn : teardown[c] \in {"none", "done"}
  /\ server' = "stopped"
  /\ UNCHANGED <<history, hand, ws, sockets, answering, teardown, req>>

Next ==
  \/ BeginTeardown \/ Stop
  \/ \E c \in Conn :
       \/ Accept(c) \/ Authorize(c) \/ Reject(c) \/ Open(c)
       \/ Closes(c) \/ Vanishes(c) \/ Reap(c) \/ Drained(c) \/ TornDown(c)
       \/ \E r \in Req : Send(c, r) \/ Answer(c, r) \/ TimeOut(c, r)

\* Timers fire: handshake, watchdog, request and teardown timeouts; and a ws that
\* was asked to close emits its close event, if need be by a timeout of its own.
Fairness ==
  /\ \A c \in Conn :
       /\ WF_vars(Reject(c) \/ Open(c))
       /\ WF_vars(Reap(c))
       /\ WF_vars(ws[c] = "closing" /\ Closes(c))
       /\ WF_vars(Drained(c) \/ TornDown(c))
       /\ \A r \in Req : WF_vars(TimeOut(c, r))
  /\ WF_vars(Stop)

Spec == Init /\ [][Next]_vars /\ Fairness

-----------------------------------------------------------------------------
(* Properties.                                                             *)

\* A socket that heard its connection close keeps nobody waiting: every request was
\* settled then, and none is accepted afterwards.
NoneWaitsOnClosed == \A c \in Conn : cleaned[c] => Pending(c) = {}

\* activeSockets lists no connection that has closed, so that neither the list nor
\* the gauge of connections grows for ever, but for one that closed during its own
\* handshake: its socket is made too late to hear it.
ListedAreThere == \A c \in activeSockets : ws[c] = "closed" => c \in early

\* A server that has stopped serves no connection, but for one whose handshake was
\* under way when the teardown began: onTeardown takes the sockets of that moment.
StoppedServesNone == server = "stopped" => \A c \in Conn : isActive[c] => c \in late

\* Without these exceptions they fail.
ListedAreThereAnyway == \A c \in activeSockets : ws[c] # "closed"
StoppedServesNoneAnyway == server = "stopped" => \A c \in Conn : ~isActive[c]

\* Every request settles, also when the peer vanishes, the close event was missed
\* or the socket is torn down.
RequestsSettle ==
  \A c \in Conn, r \in Req : req[c][r] = "pending" ~> req[c][r] # "pending"

\* A peer that vanishes is noticed.
VanishedAreReaped ==
  \A c \in Conn : hand[c] = "open" /\ ~answering[c] ~> ~isActive[c]
=============================================================================

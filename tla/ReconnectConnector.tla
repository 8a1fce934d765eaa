------------------------- MODULE ReconnectConnector -------------------------
(***************************************************************************)
(* createConnector(): one reconnecting WebSocket client that owns its      *)
(* sockets (no disposeSocket hook). The user calls connect, disconnect,    *)
(* close and forceReconnect at any moment; handshakes and the setup        *)
(* callback succeed or fail; sockets drop; retry timers fire.              *)
(***************************************************************************)
EXTENDS Integers, FiniteSets

CONSTANTS
  ConnSocket,         \* identities for sockets; a closed one is used again
  NoSocket,
  MaxAttempts,        \* reconnect.maxAttempts
  MaxTimers           \* bound on armed retry timers

ASSUME ConnectorAssumption ==
  /\ IsFiniteSet(ConnSocket) /\ NoSocket \notin ConnSocket
  /\ MaxAttempts \in Nat /\ MaxTimers \in Nat \ {0}

VARIABLES
  reconnect,      \* reconnect # null
  retryInitial,   \* reconnect.retryInitialConnect
  noticesDrop,    \* setup throws when its socket closed under it
  connState,      \* of each socket
  wired,          \* its onClose listener: none, in setupPhase, or past it
  socket,         \* the connector's socket
  phase,          \* of openOnce: what `opening` waits for
  cur,            \* the socket openOnce is opening
  manualWaits,    \* a connect() awaits openShared()
  timerWaits,     \* retry timers that await openShared()
  timers,         \* armed retry timers
  tracked,        \* reconnectTimer refers to one of them
  attempt,        \* reconnectAttempt
  hasOpened,
  finallyClosed,
  final           \* the reason fireFinalClose reported, "no" before

options == <<reconnect, retryInitial, noticesDrop>>
connVars == <<options, connState, wired, socket, phase, cur, manualWaits, timerWaits, timers,
              tracked, attempt, hasOpened, finallyClosed, final>>
opening == <<phase, cur, manualWaits, timerWaits>>
retry == <<timers, tracked, attempt>>

ConnectorTypeOK ==
  /\ reconnect \in BOOLEAN /\ retryInitial \in BOOLEAN /\ noticesDrop \in BOOLEAN
  /\ connState \in [ConnSocket -> {"none", "handshake", "open", "draining", "closing"}]
  /\ wired \in [ConnSocket -> {"no", "setup", "done"}]
  /\ socket \in ConnSocket \cup {NoSocket} /\ cur \in ConnSocket \cup {NoSocket}
  /\ phase \in {"none", "handshake", "setup"}
  /\ manualWaits \in BOOLEAN /\ timerWaits \in Nat
  /\ timers \in Nat /\ tracked \in BOOLEAN
  /\ tracked => timers > 0
  /\ attempt \in 0..MaxAttempts
  /\ hasOpened \in BOOLEAN /\ finallyClosed \in BOOLEAN
  /\ final \in {"no", "manual", "drop", "retries-exhausted", "unrecoverable"}

\* How the connector was created does not change.
ConnectorInit ==
  /\ reconnect \in BOOLEAN /\ retryInitial \in BOOLEAN /\ noticesDrop \in BOOLEAN
  /\ connState = [s \in ConnSocket |-> "none"] /\ wired = [s \in ConnSocket |-> "no"]
  /\ socket = NoSocket /\ phase = "none" /\ cur = NoSocket
  /\ manualWaits = FALSE /\ timerWaits = 0
  /\ timers = 0 /\ tracked = FALSE /\ attempt = 0
  /\ hasOpened = FALSE /\ finallyClosed = FALSE /\ final = "no"

-----------------------------------------------------------------------------

FireFinal(reason) == final' = IF final = "no" THEN reason ELSE final

\* n calls of retryOrGiveUp with the same error, one by each awaiting party.
RetryOrGiveUp(n, retryable) ==
  LET left == MaxAttempts - attempt
      scheduled == IF ~reconnect \/ ~retryable THEN 0
                   ELSE IF n < left THEN n ELSE left
  IN  /\ timers' = timers + scheduled
      /\ tracked' = (tracked \/ scheduled > 0)
      /\ attempt' = attempt + scheduled
      /\ IF ~reconnect \/ n = scheduled THEN final' = final
         ELSE FireFinal(IF retryable THEN "retries-exhausted" ELSE "unrecoverable")

CancelRetry ==
  /\ timers' = IF tracked THEN timers - 1 ELSE timers
  /\ tracked' = FALSE
  /\ attempt' = attempt

\* openShared() with no open in progress: openOnce starts a handshake.
StartOpen(s) ==
  /\ connState[s] = "none"
  /\ connState' = [connState EXCEPT ![s] = "handshake"]
  /\ phase' = "handshake" /\ cur' = s

Connect(s) ==
  /\ ~finallyClosed /\ socket = NoSocket /\ phase = "none" /\ timers < MaxTimers
  /\ IF retryInitial THEN CancelRetry ELSE UNCHANGED retry
  /\ StartOpen(s)
  /\ manualWaits' = TRUE
  /\ UNCHANGED <<wired, socket, timerWaits, hasOpened, finallyClosed, final>>

\* `own`: the timer that reconnectTimer refers to; any timer resets the variable.
TimerFires(s, own) ==
  /\ own => tracked
  /\ ~own => timers > IF tracked THEN 1 ELSE 0
  /\ timers' = timers - 1 /\ tracked' = FALSE /\ attempt' = attempt
  /\ IF finallyClosed \/ socket # NoSocket
     THEN UNCHANGED <<connState, phase, cur, timerWaits>>
     ELSE /\ timerWaits' = timerWaits + 1
          /\ IF phase = "none" THEN StartOpen(s) ELSE UNCHANGED <<connState, phase, cur>>
  /\ UNCHANGED <<wired, socket, manualWaits, hasOpened, finallyClosed, final>>

OpenEnds == phase' = "none" /\ cur' = NoSocket /\ manualWaits' = FALSE /\ timerWaits' = 0

\* Mutant: only a connect() with retryInitialConnect reacts to the failure.
OpenFailsForManual(retryable) ==
  /\ OpenEnds
  /\ RetryOrGiveUp(IF manualWaits /\ retryInitial /\ ~finallyClosed THEN 1 ELSE 0,
                   retryable)

\* Every timer that shared the attempt runs its catch, and the connect() that
\* started it does when it retries.
AttemptFails(retryable) ==
  /\ OpenEnds
  /\ RetryOrGiveUp(timerWaits + IF manualWaits /\ retryInitial /\ ~finallyClosed
                                THEN 1 ELSE 0, retryable)

HandshakeFails(retryable) ==
  /\ phase = "handshake"
  /\ connState' = [connState EXCEPT ![cur] = "none"]
  /\ AttemptFails(retryable)
  /\ UNCHANGED <<wired, socket, hasOpened, finallyClosed>>

\* Mutant: a disconnect during the handshake is forgotten.
HandshakeDoneUnchecked ==
  /\ phase = "handshake"
  /\ connState' = [connState EXCEPT ![cur] = "open"]
  /\ wired' = [wired EXCEPT ![cur] = "setup"]
  /\ socket' = cur /\ phase' = "setup"
  /\ UNCHANGED <<cur, manualWaits, timerWaits, retry, hasOpened, finallyClosed, final>>

HandshakeDone ==
  /\ phase = "handshake"
  /\ IF finallyClosed
     THEN /\ connState' = [connState EXCEPT ![cur] = "closing"]
          /\ OpenEnds
          /\ UNCHANGED <<wired, socket>>
     ELSE /\ connState' = [connState EXCEPT ![cur] = "open"]
          /\ wired' = [wired EXCEPT ![cur] = "setup"]
          /\ socket' = cur /\ phase' = "setup"
          /\ UNCHANGED <<cur, manualWaits, timerWaits>>
  /\ UNCHANGED <<retry, hasOpened, finallyClosed, final>>

SetupDone ==
  /\ phase = "setup"
  /\ noticesDrop => connState[cur] # "none"
  /\ wired' = [wired EXCEPT ![cur] = IF @ = "setup" THEN "done" ELSE @]
  /\ attempt' = 0 /\ hasOpened' = TRUE
  /\ OpenEnds
  /\ UNCHANGED <<connState, socket, timers, tracked, finallyClosed, final>>

CloseSocket(s, how) ==
  connState' = IF connState[s] = "open" THEN [connState EXCEPT ![s] = how] ELSE connState

\* Mutant: a failed setup leaves its socket open.
SetupThrowsOpen(retryable) ==
  /\ phase = "setup"
  /\ socket' = IF socket = cur THEN NoSocket ELSE socket
  /\ AttemptFails(retryable)
  /\ UNCHANGED <<connState, wired, hasOpened, finallyClosed>>

SetupThrows(retryable) ==
  /\ phase = "setup"
  /\ socket' = IF socket = cur THEN NoSocket ELSE socket
  /\ CloseSocket(cur, "closing")
  /\ AttemptFails(retryable)
  /\ UNCHANGED <<wired, hasOpened, finallyClosed>>

\* A close event: of a socket we closed, or a drop. setupPhase stays set on the
\* listener of a socket whose setup threw.
SocketCloses(s) ==
  /\ connState[s] \in {"open", "draining", "closing"}
  /\ connState' = [connState EXCEPT ![s] = "none"]
  /\ wired' = [wired EXCEPT ![s] = "no"]
  /\ socket' = IF socket = s THEN NoSocket ELSE socket
  /\ CASE wired[s] = "no" -> UNCHANGED <<retry, final>>
       [] wired[s] # "no" /\ finallyClosed -> FireFinal("manual") /\ UNCHANGED retry
       [] wired[s] = "setup" /\ ~finallyClosed -> UNCHANGED <<retry, final>>
       [] wired[s] = "done" /\ ~finallyClosed ->
            IF reconnect THEN RetryOrGiveUp(1, TRUE)
                         ELSE FireFinal("drop") /\ UNCHANGED retry
  /\ UNCHANGED <<opening, hasOpened, finallyClosed>>

-----------------------------------------------------------------------------
(* The user.                                                               *)

\* Mutant: a close without a socket is not reported.
EndSilently(how) ==
  /\ finallyClosed' = TRUE
  /\ CancelRetry
  /\ socket' = NoSocket
  /\ IF socket # NoSocket THEN CloseSocket(socket, how) ELSE UNCHANGED connState
  /\ UNCHANGED <<wired, opening, hasOpened, final>>

\* close() closes at once, disconnect() tears down first. Without a socket
\* the final close is reported here, with one its close event reports it.
End(how) ==
  /\ finallyClosed' = TRUE
  /\ CancelRetry
  /\ socket' = NoSocket
  /\ IF socket # NoSocket
     THEN CloseSocket(socket, how) /\ UNCHANGED final
     ELSE FireFinal("manual") /\ UNCHANGED connState
  /\ UNCHANGED <<wired, opening, hasOpened>>

Close == End("closing")
Disconnect == End("draining")

SocketDrained(s) ==
  /\ connState[s] = "draining"
  /\ connState' = [connState EXCEPT ![s] = "closing"]
  /\ UNCHANGED <<wired, socket, opening, retry, hasOpened, finallyClosed, final>>

\* forceReconnect, or the watchdog of the heartbeat: the socket is closed under
\* the connector, which hears of it from the close event.
ForceReconnect ==
  /\ ~finallyClosed /\ reconnect /\ socket # NoSocket /\ connState[socket] = "open"
  /\ connState' = [connState EXCEPT ![socket] = "closing"]
  /\ UNCHANGED <<wired, socket, opening, retry, hasOpened, finallyClosed, final>>

ConnectorNext ==
  /\ UNCHANGED options
  /\ \/ \E s \in ConnSocket : \/ Connect(s) \/ SocketCloses(s) \/ SocketDrained(s)
                              \/ \E own \in BOOLEAN : TimerFires(s, own)
     \/ \E retryable \in BOOLEAN : HandshakeFails(retryable) \/ SetupThrows(retryable)
     \/ HandshakeDone \/ SetupDone
     \/ Close \/ Disconnect \/ ForceReconnect

\* Timers fire, handshakes and setup settle, and close() leads to a close event.
\* The user owes nothing, and the other side never has to drop a socket.
ConnectorFairness ==
  /\ WF_connVars(UNCHANGED options /\ \E s \in ConnSocket, own \in BOOLEAN : TimerFires(s, own))
  /\ WF_connVars(/\ UNCHANGED options
                 /\ HandshakeDone \/ \E retryable \in BOOLEAN : HandshakeFails(retryable))
  /\ WF_connVars(/\ UNCHANGED options
                 /\ SetupDone \/ \E retryable \in BOOLEAN : SetupThrows(retryable))
  /\ \A s \in ConnSocket : /\ WF_connVars(UNCHANGED options /\ SocketDrained(s))
                           /\ WF_connVars(UNCHANGED options /\ connState[s] = "closing" /\ SocketCloses(s))

ConnectorSpec == ConnectorInit /\ [][ConnectorNext]_connVars /\ ConnectorFairness

-----------------------------------------------------------------------------
(* Properties.                                                             *)

\* connect(), retries and drops never make a second connection, and none is
\* left open that the connector no longer refers to.
OneConnection ==
  /\ Cardinality({s \in ConnSocket : connState[s] \in {"handshake", "open"}}) <= 1
  /\ \A s \in ConnSocket : connState[s] = "open" => socket = s

\* After disconnect() or close() no socket is adopted and no attempt begins,
\* although a retry timer may still be armed by an open that failed later.
ClosedStaysClosed ==
  [][finallyClosed => socket' = NoSocket /\ (phase = "none" => phase' = "none")]_connVars

\* disconnect() and close() are reported through onClose in the end.
ManualCloseIsReported == finallyClosed ~> final # "no"

\* A client that was connected and lost its socket connects again or reports
\* the final close: no drop leaves it waiting for nothing. A drop while setup
\* runs is the setup's to notice, and without retryInitialConnect a failed
\* connect() is its caller's to repeat, also when it swallowed a retry.
LostIsRecovered ==
  retryInitial /\ noticesDrop /\ hasOpened /\ socket = NoSocket
    ~> socket # NoSocket \/ final # "no"

\* The same whatever the setup notices: every drop is retried or reported.
EveryDropIsRecovered ==
  retryInitial /\ hasOpened /\ socket = NoSocket ~> socket # NoSocket \/ final # "no"
=============================================================================

-------------------------- MODULE RuntimeLifecycle --------------------------
(***************************************************************************)
(* The life of one GGRuntime that cli() started: compose, the start of the *)
(* services level by level, the cleanup of a start that fails, and the     *)
(* teardown that signals ask for at any moment (GGRuntime.ts).             *)
(*                                                                         *)
(* A service is "starting" while its start() is awaited, then "up" or      *)
(* "failed", and "down" once a teardown() of an up service settled. What   *)
(* its own code makes of a teardown() during its start() is not known here:*)
(* it comes up all the same. A rejected teardown() is logged and counts as *)
(* settled; that of a service in `stuck` never settles.                    *)
(***************************************************************************)
EXTENDS Integers, Sequences, SequencesExt, FiniteSetsExt

CONSTANTS
  Service,
  Type,      \* [Service -> Nat], the GGLocatorServiceType
  Signal     \* the signals that arrive

VARIABLES
  state,       \* GGRuntimeState
  registered,  \* services
  svc,         \* what has become of each service
  main,        \* where start() is
  level,       \* whose services callStartHandlers starts, -1 before the first
  started,     \* startedServices
  cleaning,    \* the service whose teardown the cleanup of callStartHandlers awaits
  pc,          \* each callTeardownCallbacks: "no", "tearing", "over"
  below,       \* the last type its loop has reached
  busy,        \* the services whose teardown it awaits
  exited,      \* "no", "failed" (start() threw), "clean" (exit(0)), "timeout"
  stuck,       \* fixed: services whose teardown never settles
  disturbed    \* history: a signal was heeded before start() had ended

vars == <<state, registered, svc, main, level, started, cleaning, pc, below, busy, exited, stuck, disturbed>>

GGRuntimeState == <<"COMPOSING", "STARTING", "RUNNING", "STOPPING", "STOPPED">>
Callers == {"failure"} \cup Signal
Alive == exited = "no"

Init ==
  /\ state = "COMPOSING" /\ main = "composing" /\ registered = {} /\ level = -1 /\ started = <<>>
  /\ svc = [s \in Service |-> "new"] /\ cleaning = {}
  /\ pc = [c \in Callers |-> "no"] /\ below = [c \in Callers |-> 0] /\ busy = [c \in Callers |-> {}]
  /\ exited = "no" /\ stuck \in SUBSET Service /\ disturbed = FALSE

----------------------------------------------------------------------------
\* callTeardownCallbacks

\* Level by level from the highest; a level is read when the loop reaches it.
Levels(bound) == {Type[s] : s \in {r \in registered : Type[r] < bound}}

TearLevel(c, bound) ==
  LET l == Max(Levels(bound))
  IN below' = [below EXCEPT ![c] = l] /\ busy' = [busy EXCEPT ![c] = {s \in registered : Type[s] = l}]

\* The first level is torn down in the step that calls it.
CallTeardownCallbacks(c) ==
  LET top == Max({0} \cup {Type[s] + 1 : s \in registered})
  IN /\ pc' = [pc EXCEPT ![c] = "tearing"]
     /\ IF Levels(top) = {} THEN below' = [below EXCEPT ![c] = 0] /\ UNCHANGED busy ELSE TearLevel(c, top)

NextLevel(c) ==
  /\ Alive /\ pc[c] = "tearing" /\ busy[c] = {} /\ Levels(below[c]) # {} /\ TearLevel(c, below[c])
  /\ UNCHANGED <<state, registered, svc, main, level, started, cleaning, pc, exited, stuck, disturbed>>

Settled(c) == pc[c] = "tearing" /\ busy[c] = {} /\ Levels(below[c]) = {}

Down(s) == svc' = [svc EXCEPT ![s] = IF @ = "up" THEN "down" ELSE @]

TornDown(c, s) ==
  /\ Alive /\ s \in busy[c] \ stuck
  /\ busy' = [busy EXCEPT ![c] = @ \ {s}] /\ Down(s)
  /\ UNCHANGED <<state, registered, main, level, started, cleaning, pc, below, exited, stuck, disturbed>>

----------------------------------------------------------------------------
\* start()

Register(s) ==
  /\ Alive /\ main = "composing" /\ s \notin registered /\ registered' = registered \cup {s}
  /\ UNCHANGED <<state, svc, main, level, started, cleaning, pc, below, busy, exited, stuck, disturbed>>

Above == {Type[s] : s \in {r \in Service : Type[r] > level}}

StartLevel ==
  LET l == Min(Above)
  IN level' = l /\ svc' = [s \in Service |-> IF Type[s] = l THEN "starting" ELSE svc[s]]

\* Sets STARTING whatever the state has become.
Composed ==
  /\ Alive /\ main = "composing" /\ registered = Service /\ Above # {}
  /\ main' = "starting" /\ state' = "STARTING" /\ StartLevel
  /\ UNCHANGED <<registered, started, cleaning, pc, below, busy, exited, stuck, disturbed>>

ComposeThrows ==
  /\ Alive /\ main = "composing" /\ main' = "tearing" /\ CallTeardownCallbacks("failure")
  /\ UNCHANGED <<state, registered, svc, level, started, cleaning, exited, stuck, disturbed>>

ServiceStarted(s) ==
  /\ Alive /\ svc[s] = "starting" /\ svc' = [svc EXCEPT ![s] = "up"] /\ started' = Append(started, s)
  /\ UNCHANGED <<state, registered, main, level, cleaning, pc, below, busy, exited, stuck, disturbed>>

ServiceFails(s) ==
  /\ Alive /\ svc[s] = "starting" /\ svc' = [svc EXCEPT ![s] = "failed"]
  /\ UNCHANGED <<state, registered, main, level, started, cleaning, pc, below, busy, exited, stuck, disturbed>>

LevelSettled == \A s \in Service : Type[s] = level => svc[s] # "starting"
LevelFailed == \E s \in Service : Type[s] = level /\ svc[s] = "failed"

StartNext ==
  /\ Alive /\ main = "starting" /\ LevelSettled /\ ~LevelFailed /\ Above # {} /\ StartLevel
  /\ UNCHANGED <<state, registered, main, started, cleaning, pc, below, busy, exited, stuck, disturbed>>

Running ==
  /\ Alive /\ main = "starting" /\ LevelSettled /\ ~LevelFailed /\ Above = {}
  /\ state' = "RUNNING" /\ main' = "done"
  /\ UNCHANGED <<registered, svc, level, started, cleaning, pc, below, busy, exited, stuck, disturbed>>

StartFails ==
  /\ Alive /\ main = "starting" /\ LevelSettled /\ LevelFailed /\ main' = "cleaning"
  /\ UNCHANGED <<state, registered, svc, level, started, cleaning, pc, below, busy, exited, stuck, disturbed>>

\* One at a time, the last started first.
CleanNext ==
  /\ Alive /\ main = "cleaning" /\ cleaning = {} /\ started # <<>>
  /\ cleaning' = {Last(started)} /\ started' = Front(started)
  /\ UNCHANGED <<state, registered, svc, main, level, pc, below, busy, exited, stuck, disturbed>>

Cleaned(s) ==
  /\ Alive /\ s \in cleaning \ stuck /\ cleaning' = {} /\ Down(s)
  /\ UNCHANGED <<state, registered, main, level, started, pc, below, busy, exited, stuck, disturbed>>

\* The error reaches the catch of start(), which tears down everything registered.
CatchError ==
  /\ Alive /\ main = "cleaning" /\ cleaning = {} /\ started = <<>>
  /\ main' = "tearing" /\ CallTeardownCallbacks("failure")
  /\ UNCHANGED <<state, registered, svc, level, started, cleaning, exited, stuck, disturbed>>

\* start() throws; nobody catches what cli() awaits.
StartThrows ==
  /\ Alive /\ main = "tearing" /\ Settled("failure")
  /\ state' = "STOPPED" /\ main' = "done" /\ pc' = [pc EXCEPT !["failure"] = "over"] /\ exited' = "failed"
  /\ UNCHANGED <<registered, svc, level, started, cleaning, below, busy, stuck, disturbed>>

----------------------------------------------------------------------------
\* teardown(true)

SignalArrives(c) ==
  /\ Alive /\ pc[c] = "no" /\ state \notin {"STOPPING", "STOPPED"}
  /\ state' = "STOPPING" /\ disturbed' = (disturbed \/ main # "done") /\ CallTeardownCallbacks(c)
  /\ UNCHANGED <<registered, svc, main, level, started, cleaning, exited, stuck>>

SignalIgnored(c) ==
  /\ Alive /\ pc[c] = "no" /\ state \in {"STOPPING", "STOPPED"} /\ pc' = [pc EXCEPT ![c] = "over"]
  /\ UNCHANGED <<state, registered, svc, main, level, started, cleaning, below, busy, exited, stuck, disturbed>>

Exit(c) ==
  /\ Alive /\ Settled(c) /\ state' = "STOPPED" /\ pc' = [pc EXCEPT ![c] = "over"] /\ exited' = "clean"
  /\ UNCHANGED <<registered, svc, main, level, started, cleaning, below, busy, stuck, disturbed>>

\* withTimeout rejects inside the handler: an unhandled rejection, which ends the process.
TimesOut(c) ==
  /\ Alive /\ pc[c] = "tearing" /\ exited' = "timeout"
  /\ UNCHANGED <<state, registered, svc, main, level, started, cleaning, pc, below, busy, stuck, disturbed>>

MainNext ==
  \/ Composed \/ ComposeThrows \/ StartNext \/ Running \/ StartFails
  \/ CleanNext \/ CatchError \/ StartThrows
  \/ \E s \in Service : Register(s) \/ ServiceStarted(s) \/ ServiceFails(s) \/ Cleaned(s)

Next ==
  \/ MainNext
  \/ \E c \in Callers, s \in Service : TornDown(c, s)
  \/ \E c \in Callers : NextLevel(c)
  \/ \E c \in Signal : SignalArrives(c) \/ SignalIgnored(c) \/ Exit(c) \/ TimesOut(c)

Fairness ==
  /\ WF_vars(StartFails \/ CleanNext \/ CatchError \/ StartThrows)
  /\ WF_vars(StartNext \/ Running) /\ \A s \in Service : WF_vars(ServiceStarted(s) \/ ServiceFails(s)) /\ WF_vars(Cleaned(s))
  /\ \A c \in Callers : WF_vars(NextLevel(c)) /\ \A s \in Service : WF_vars(TornDown(c, s))
  /\ \A c \in Signal : WF_vars(Exit(c)) /\ WF_vars(TimesOut(c))

Spec == Init /\ [][Next]_vars /\ Fairness

----------------------------------------------------------------------------
\* Properties

\* "Services with lower values start first and stop last" (GGLocatorServiceType): while a service
\* starts, works or is torn down, all below it are up and left alone. This holds of starts,
\* cleanups and teardowns unless a signal arrives during the start.
LayersHold ==
  ~disturbed =>
    \A s, t \in Service :
      Type[s] < Type[t] /\ svc[t] \in {"starting", "up"} =>
        svc[s] = "up" /\ s \notin cleaning /\ \A c \in Callers : s \notin busy[c]

\* What start() leaves when it throws, and teardown(true) when it exits by itself: no service that
\* came up, or that is still about to (callStartHandlers waits for all, not for the first failure).
NothingIsLeft ==
  exited \in {"failed", "clean"} /\ ~disturbed => \A s \in Service : svc[s] \notin {"starting", "up"}

\* A signal that is heeded ends the process, also during the start, and whatever service hangs in
\* its start or its teardown (the timeout covers the whole of callTeardownCallbacks).
ShutdownEnds == \A c \in Signal : pc[c] = "tearing" ~> ~Alive

Rank(st) == CHOOSE i \in DOMAIN GGRuntimeState : GGRuntimeState[i] = st

\* "The runtime goes through these states in order" (README.md of the runtime). It does not:
\* start() sets STARTING and RUNNING without a look at a teardown that has begun meanwhile.
StatesInOrder == [][Rank(state') >= Rank(state)]_state

\* "Teardown runs in reverse order" (README.md of the runtime). Not after a start that failed: the
\* cleanup takes down what had started, and then the catch calls every teardown() once more.
TornDownInReverse ==
  ~disturbed =>
    \A c \in Callers : \A t \in busy[c], s \in Service : Type[s] < Type[t] => svc[s] # "down"
=============================================================================

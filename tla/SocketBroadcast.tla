-------------------------- MODULE SocketBroadcast --------------------------
(***************************************************************************)
(* GGSocketBroadcast: the audience of one socket schema. Broadcasts carry  *)
(* the numbers 1, 2, ... and are the changes of the application's state; a *)
(* seed sends the snapshot it read, which contains the changes up to then. *)
(***************************************************************************)
EXTENDS Integers, Sequences, FiniteSets

CONSTANTS
  Conn,            \* the outgoing sides of connections
  Seed,            \* identities for calls of join() with a seed
  None,
  LateSeedsThrow,  \* TRUE: also a seed that superseded another may throw
  LateJoins,       \* TRUE: a handler may call join() after its connection closed
  MaxVersion       \* bound on broadcasts

ASSUME BroadcastAssumption ==
  /\ None \notin Seed /\ None \notin Conn
  /\ {LateSeedsThrow, LateJoins} \subseteq BOOLEAN
  /\ MaxVersion \in Nat

VARIABLES
  version,   \* broadcasts so far
  open,      \* connections that have not closed
  watched,   \* connections whose onClose callback will clean up
  live,
  seeding,   \* of each connection: the call whose queue `seeding` holds
  queue,     \* of each connection: that queue
  call,      \* of each join() with a seed: connection, stage, snapshot and
             \* whether it superseded another
  received,  \* of each connection: what was sent to it
  since      \* of each connection: the broadcasts before its membership

vars == <<version, open, watched, live, seeding, queue, call, received, since>>

NoCall == [conn |-> None, stage |-> "unused", read |-> 0, late |-> FALSE]
Snapshot(v) == [kind |-> "snapshot", at |-> v]
Frame(v) == [kind |-> "frame", at |-> v]

TypeOK ==
  /\ version \in 0..MaxVersion
  /\ open \subseteq Conn /\ live \subseteq Conn
  /\ watched \subseteq open
  /\ seeding \in [Conn -> Seed \cup {None}]
  /\ \A c \in Conn : \A i \in DOMAIN queue[c] : queue[c][i] \in 1..version
  /\ \A c \in Conn : seeding[c] # None =>
       call[seeding[c]].conn = c /\ call[seeding[c]].stage # "over"
  /\ \A s \in Seed : /\ call[s].conn \in Conn \cup {None} /\ call[s].read \in 0..version
                     /\ call[s].stage \in {"unused", "running", "read", "sent", "over"}
  /\ \A c \in Conn : \A i \in DOMAIN received[c] : received[c][i].at \in 0..version
  /\ since \in [Conn -> 0..version]

Init ==
  /\ version = 0 /\ open = Conn /\ watched = {} /\ live = {}
  /\ seeding = [c \in Conn |-> None]
  /\ queue = [c \in Conn |-> <<>>]
  /\ call = [s \in Seed |-> NoCall]
  /\ received = [c \in Conn |-> <<>>]
  /\ since = [c \in Conn |-> 0]

-----------------------------------------------------------------------------

\* A send on a connection that closed rejects and is only logged.
Deliver(c, items) ==
  received' = [received EXCEPT ![c] = IF c \in open THEN @ \o items ELSE @]

Watch(c) ==
  /\ LateJoins \/ c \in open
  /\ watched' = IF c \in open THEN watched \cup {c} ELSE watched

Join(c) ==
  /\ Watch(c)
  /\ live' = live \cup {c}
  /\ since' = IF c \in live THEN since ELSE [since EXCEPT ![c] = version]
  /\ UNCHANGED <<version, open, seeding, queue, call, received>>

JoinSeeded(c, s) ==
  /\ call[s] = NoCall
  /\ Watch(c)
  /\ call' = [call EXCEPT ![s] = [conn |-> c, stage |-> "running", read |-> 0,
                                  late |-> seeding[c] # None]]
  /\ seeding' = [seeding EXCEPT ![c] = s]
  /\ queue' = [queue EXCEPT ![c] = <<>>]
  /\ UNCHANGED <<version, open, live, received, since>>

IsCurrent(s) == seeding[call[s].conn] = s

SeedReads(s) ==
  /\ call[s].stage = "running"
  /\ call' = [call EXCEPT ![s].stage = "read", ![s].read = version]
  /\ UNCHANGED <<version, open, watched, live, seeding, queue, received, since>>

\* Mutant: a superseded seed still sends.
SendsUngated(s) ==
  /\ call[s].stage = "read"
  /\ call' = [call EXCEPT ![s].stage = "sent"]
  /\ Deliver(call[s].conn, <<Snapshot(call[s].read)>>)
  /\ UNCHANGED <<version, open, watched, live, seeding, queue, since>>

\* The gated outgoing drops what a superseded seed sends.
SeedSends(s) ==
  /\ call[s].stage = "read"
  /\ call' = [call EXCEPT ![s].stage = "sent"]
  /\ IF IsCurrent(s) THEN Deliver(call[s].conn, <<Snapshot(call[s].read)>>)
                     ELSE UNCHANGED received
  /\ UNCHANGED <<version, open, watched, live, seeding, queue, since>>

Settle(c) ==
  /\ seeding' = [seeding EXCEPT ![c] = None]
  /\ queue' = [queue EXCEPT ![c] = <<>>]
  /\ IF c \in live' THEN Deliver(c, [i \in DOMAIN queue[c] |-> Frame(queue[c][i])])
                    ELSE UNCHANGED received

SeedReturns(s) ==
  LET c == call[s].conn IN
  /\ call[s].stage = "sent"
  /\ call' = [call EXCEPT ![s].stage = "over"]
  /\ IF IsCurrent(s)
     THEN /\ live' = live \cup {c}
          /\ Settle(c)
          /\ since' = IF c \in live THEN since ELSE [since EXCEPT ![c] = 0]
     ELSE UNCHANGED <<live, seeding, queue, received, since>>
  /\ UNCHANGED <<version, open, watched>>

MayThrow(s) == LateSeedsThrow \/ ~call[s].late

\* Mutant: a failed seed is left in place.
SeedThrowsUnsettled(s) ==
  /\ MayThrow(s) /\ call[s].stage \in {"running", "read", "sent"}
  /\ call' = [call EXCEPT ![s].stage = "over"]
  /\ UNCHANGED <<version, open, watched, live, seeding, queue, received, since>>

SeedThrows(s) ==
  /\ MayThrow(s) /\ call[s].stage \in {"running", "read", "sent"}
  /\ call' = [call EXCEPT ![s].stage = "over"]
  /\ live' = live
  /\ IF IsCurrent(s) THEN Settle(call[s].conn)
                     ELSE UNCHANGED <<seeding, queue, received>>
  /\ UNCHANGED <<version, open, watched, since>>

\* Mutant: only members are queued for.
SendToMembers ==
  /\ version < MaxVersion
  /\ version' = version + 1
  /\ queue' = [c \in Conn |-> IF c \in live /\ seeding[c] # None
                             THEN Append(queue[c], version') ELSE queue[c]]
  /\ received' = [c \in Conn |->
       IF c \in live \cap open /\ seeding[c] = None
       THEN Append(received[c], Frame(version')) ELSE received[c]]
  /\ UNCHANGED <<open, watched, live, seeding, call, since>>

Send ==
  /\ version < MaxVersion
  /\ version' = version + 1
  /\ queue' = [c \in Conn |-> IF seeding[c] # None THEN Append(queue[c], version') ELSE <<>>]
  /\ received' = [c \in Conn |->
       IF c \in live \cap open /\ seeding[c] = None
       THEN Append(received[c], Frame(version')) ELSE received[c]]
  /\ UNCHANGED <<open, watched, live, seeding, call, since>>

\* Mutant: closing forgets the membership but not the seed.
CloseKeepsSeed(c) ==
  /\ c \in open
  /\ open' = open \ {c} /\ watched' = watched \ {c}
  /\ live' = IF c \in watched THEN live \ {c} ELSE live
  /\ UNCHANGED <<version, seeding, queue, call, received, since>>

Close(c) ==
  /\ c \in open
  /\ open' = open \ {c} /\ watched' = watched \ {c}
  /\ IF c \in watched
     THEN /\ live' = live \ {c}
          /\ seeding' = [seeding EXCEPT ![c] = None]
          /\ queue' = [queue EXCEPT ![c] = <<>>]
     ELSE UNCHANGED <<live, seeding, queue>>
  /\ UNCHANGED <<version, call, received, since>>

Next ==
  \/ \E c \in Conn : Join(c) \/ Close(c) \/ \E s \in Seed : JoinSeeded(c, s)
  \/ \E s \in Seed : SeedReads(s) \/ SeedSends(s) \/ SeedReturns(s) \/ SeedThrows(s)
  \/ Send

\* A seed comes to an end. Nobody has to join, to broadcast or to hang up.
Fairness ==
  \A s \in Seed :
    WF_vars(SeedReads(s) \/ SeedSends(s) \/ SeedReturns(s) \/ SeedThrows(s))

Spec == Init /\ [][Next]_vars /\ Fairness

-----------------------------------------------------------------------------
(* Properties.                                                             *)

\* What c was sent shows it change v: as a frame or within a snapshot.
Seen(c, v) ==
  \E i \in DOMAIN received[c] :
    \/ received[c][i] = Frame(v)
    \/ received[c][i].kind = "snapshot" /\ received[c][i].at >= v

\* A member that is not being seeded has been shown every change since it
\* joined; a seeded one every change there ever was ("never lost").
MembersMissNothing ==
  \A c \in live \cap open : seeding[c] = None =>
    \A v \in since[c] + 1 .. version : Seen(c, v)

\* No snapshot follows a change that it does not contain, nor a newer snapshot,
\* and changes come once and in order: a client that replaces its state with a
\* snapshot never goes back.
NeverOvertaken ==
  \A c \in Conn : \A j \in DOMAIN received[c] : \A i \in 1..j - 1 :
    CASE received[c][j].kind = "snapshot" -> received[c][i].at <= received[c][j].at
      [] received[c][j].kind = "frame" ->
           received[c][i].kind = "frame" => received[c][i].at < received[c][j].at

\* The audience holds no connection that closed, although the seed of one may
\* end after it ("Adds the connection until it closes").
LiveAreOpen == live \subseteq open

\* A change broadcast to a member reaches it, be it queued behind a seed and be
\* that seed to fail.
BroadcastArrives ==
  \A c \in Conn : \A v \in 1..MaxVersion :
    c \in live /\ since[c] < v /\ v <= version ~> Seen(c, v) \/ c \notin open
=============================================================================

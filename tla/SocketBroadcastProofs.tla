----------------------- MODULE SocketBroadcastProofs -----------------------
(***************************************************************************)
(* Proofs about SocketBroadcast, for any connections, seeds and broadcasts:*)
(* no closed connection stays in the audience, no snapshot overtakes a     *)
(* change, and members miss nothing.                                       *)
(***************************************************************************)
EXTENDS SocketBroadcast, SequenceTheorems, TLAPS

Stages == {"unused", "running", "read", "sent", "over"}

Shape ==
  /\ open \subseteq Conn /\ live \subseteq Conn /\ watched \subseteq Conn
  /\ seeding \in [Conn -> Seed \cup {None}]
  /\ call \in [Seed -> [conn : Conn \cup {None}, stage : Stages, read : Nat, late : BOOLEAN]]
  /\ version \in Nat
  /\ \A s \in Seed : call[s].stage # "unused" => call[s].conn \in Conn

LEMMA CallStep ==
  ASSUME Shape, NEW s \in Seed, NEW st \in Stages
  PROVE  /\ [call EXCEPT ![s].stage = st] \in
              [Seed -> [conn : Conn \cup {None}, stage : Stages, read : Nat, late : BOOLEAN]]
         /\ \A q \in Seed : /\ [call EXCEPT ![s].stage = st][q].conn = call[q].conn
                            /\ q # s => [call EXCEPT ![s].stage = st][q] = call[q]
  BY DEF Shape

LEMMA ShapeInit == Init => Shape
  BY BroadcastAssumption DEF Init, Shape, NoCall, Stages

LEMMA ShapeStep ==
  ASSUME Shape, [Next]_vars
  PROVE  Shape'
<1> USE BroadcastAssumption
<1>1. ASSUME NEW c \in Conn, Join(c) PROVE Shape'
  BY <1>1 DEF Join, Watch, Shape
<1>2. ASSUME NEW c \in Conn, NEW s \in Seed, JoinSeeded(c, s) PROVE Shape'
  BY <1>2 DEF JoinSeeded, Watch, Shape, Stages
<1>3. ASSUME NEW c \in Conn, Close(c) PROVE Shape'
  BY <1>3 DEF Close, Shape
<1>4. ASSUME NEW s \in Seed, SeedReads(s) PROVE Shape'
  <2>1. call' = [call EXCEPT ![s] = [@ EXCEPT !.stage = "read", !.read = version]]
    BY <1>4 DEF SeedReads, Shape
  <2> QED
    BY <1>4, <2>1 DEF SeedReads, Shape, Stages
<1>5. ASSUME NEW s \in Seed, SeedSends(s) PROVE Shape'
  BY <1>5, CallStep DEF SeedSends, Shape, Stages
<1>6. ASSUME NEW s \in Seed, SeedReturns(s) PROVE Shape'
  <2>1. call[s].conn \in Conn
    BY <1>6 DEF SeedReturns, Shape
  <2>2. CASE IsCurrent(s)
    <3>1. call' = [call EXCEPT ![s].stage = "over"] /\ "over" \in Stages
      BY <1>6 DEF SeedReturns, Stages
    <3>2. seeding' \in [Conn -> Seed \cup {None}]
      BY <1>6, <2>2 DEF SeedReturns, Settle, Shape
    <3>3. live' = live \cup {call[s].conn}
      BY <1>6, <2>2 DEF SeedReturns
    <3>4. UNCHANGED <<open, watched, version>>
      BY <1>6 DEF SeedReturns
    <3>5. call[s].stage # "unused"
      BY <1>6 DEF SeedReturns
    <3> QED
      BY <2>1, <3>1, <3>2, <3>3, <3>4, <3>5, CallStep DEF Shape
  <2>3. CASE ~IsCurrent(s)
    BY <1>6, <2>3, CallStep DEF SeedReturns, Shape, Stages
  <2> QED
    BY <2>2, <2>3
<1>7. ASSUME NEW s \in Seed, SeedThrows(s) PROVE Shape'
  <2>1. call[s].conn \in Conn
    BY <1>7 DEF SeedThrows, Shape
  <2>2. call' = [call EXCEPT ![s].stage = "over"] /\ "over" \in Stages
    BY <1>7 DEF SeedThrows, Stages
  <2>3. seeding' \in [Conn -> Seed \cup {None}]
    BY <1>7 DEF SeedThrows, Settle, Shape
  <2>4. UNCHANGED <<live, open, watched, version>>
    BY <1>7 DEF SeedThrows
  <2>5. call[s].stage # "unused"
    BY <1>7 DEF SeedThrows
  <2> QED
    BY <2>1, <2>2, <2>3, <2>4, <2>5, CallStep DEF Shape
<1>8. CASE Send
  BY <1>8 DEF Send, Shape
<1>9. CASE UNCHANGED vars
  BY <1>9 DEF vars, Shape
<1> QED
  BY <1>1, <1>2, <1>3, <1>4, <1>5, <1>6, <1>7, <1>8, <1>9 DEF Next

-----------------------------------------------------------------------------
(* The audience.                                                           *)

\* Whoever is a member, or may become one when a seed returns, is open and has
\* a close callback that will run.
Audience ==
  /\ live \subseteq watched /\ watched \subseteq open
  /\ \A c \in Conn : seeding[c] # None => c \in watched

\* With no joins after the close, an open connection becomes watched before it
\* is live or seeded, and its close takes it out of everything at once.
LEMMA AudienceStep ==
  ASSUME LateJoins = FALSE, Shape, Audience, [Next]_vars
  PROVE  Audience'
<1> USE BroadcastAssumption
<1>1. ASSUME NEW c \in Conn, Join(c) PROVE Audience'
  BY <1>1 DEF Join, Watch, Shape, Audience
<1>2. ASSUME NEW c \in Conn, NEW s \in Seed, JoinSeeded(c, s) PROVE Audience'
  BY <1>2 DEF JoinSeeded, Watch, Shape, Audience
<1>3. ASSUME NEW c \in Conn, Close(c) PROVE Audience'
  BY <1>3 DEF Close, Shape, Audience
<1>4. ASSUME NEW s \in Seed, SeedReads(s) PROVE Audience'
  BY <1>4 DEF SeedReads, Audience
<1>5. ASSUME NEW s \in Seed, SeedSends(s) PROVE Audience'
  BY <1>5 DEF SeedSends, Audience
<1>6. ASSUME NEW s \in Seed, SeedReturns(s) PROVE Audience'
  <2>1. call[s].conn \in Conn
    BY <1>6 DEF SeedReturns, Shape
  <2>2. CASE IsCurrent(s)
    <3>1. call[s].conn \in watched
      BY <2>1, <2>2 DEF IsCurrent, Audience
    <3> QED
      BY <1>6, <2>2, <3>1 DEF SeedReturns, Settle, Shape, Audience
  <2>3. CASE ~IsCurrent(s)
    BY <1>6, <2>3 DEF SeedReturns, Audience
  <2> QED
    BY <2>2, <2>3
<1>7. ASSUME NEW s \in Seed, SeedThrows(s) PROVE Audience'
  <2>1. call[s].conn \in Conn
    BY <1>7 DEF SeedThrows, Shape
  <2> QED
    BY <1>7, <2>1 DEF SeedThrows, Settle, Shape, Audience
<1>8. CASE Send
  BY <1>8 DEF Send, Audience
<1>9. CASE UNCHANGED vars
  BY <1>9 DEF vars, Audience
<1> QED
  BY <1>1, <1>2, <1>3, <1>4, <1>5, <1>6, <1>7, <1>8, <1>9 DEF Next

\* As long as handlers join before their connection closes, the audience holds
\* open connections only, also when a seed ends after the close.
THEOREM LiveAreOpenTheorem ==
  ASSUME LateJoins = FALSE
  PROVE  Spec => []LiveAreOpen
<1>1. Init => Shape /\ Audience
  BY ShapeInit, BroadcastAssumption DEF Init, Audience
<1>2. Shape /\ Audience /\ [Next]_vars => Shape' /\ Audience'
  BY ShapeStep, AudienceStep
<1>3. Audience => LiveAreOpen
  BY DEF Audience, LiveAreOpen
<1> QED
  BY <1>1, <1>2, <1>3, PTL DEF Spec

-----------------------------------------------------------------------------
(* What a connection was sent, and what is queued for it.                  *)

Item == [kind : {"snapshot", "frame"}, at : Nat]

Logs ==
  /\ queue \in [Conn -> Seq(Nat)] /\ received \in [Conn -> Seq(Item)]
  /\ since \in [Conn -> Nat]

\* The call whose queue `seeding` holds is under way, and about that connection.
SeedsRun ==
  \A c \in Conn : seeding[c] # None =>
    call[seeding[c]].conn = c /\ call[seeding[c]].stage \in {"running", "read", "sent"}

NoneReadsAhead == \A s \in Seed : call[s].read <= version

Frames(q) == [i \in DOMAIN q |-> Frame(q[i])]

LEMMA FramesAreItems ==
  ASSUME NEW q \in Seq(Nat)
  PROVE  /\ Frames(q) \in Seq(Item) /\ Len(Frames(q)) = Len(q)
         /\ \A i \in 1..Len(q) : Frames(q)[i] = Frame(q[i])
<1>1. q \in [1..Len(q) -> Nat] /\ Len(q) \in Nat /\ DOMAIN q = 1..Len(q)
  BY LenProperties
<1>2. \A i \in 1..Len(q) : Frame(q[i]) \in Item
  BY <1>1 DEF Frame, Item
<1>3. Frames(q) = [i \in 1..Len(q) |-> Frame(q[i])]
  BY <1>1 DEF Frames
<1>4. Frames(q) \in Seq(Item)
  BY <1>1, <1>2, <1>3
<1>5. Len(Frames(q)) = Len(q)
  BY <1>1, <1>3
<1> QED
  BY <1>3, <1>4, <1>5

LEMMA SeedIsCurrent ==
  ASSUME Shape, SeedsRun, NEW s \in Seed, NEW c \in Conn, seeding[c] = s
  PROVE  call[s].conn = c /\ IsCurrent(s) /\ call[s].stage \in {"running", "read", "sent"}
  BY BroadcastAssumption DEF Shape, SeedsRun, IsCurrent

LEMMA NoneReadsAheadStep ==
  ASSUME Shape, NoneReadsAhead, [Next]_vars
  PROVE  NoneReadsAhead'
<1> USE DEF Shape, NoneReadsAhead
<1>1. ASSUME NEW c \in Conn, NEW s \in Seed, JoinSeeded(c, s) PROVE NoneReadsAhead'
  BY <1>1 DEF JoinSeeded
<1>2. ASSUME NEW c \in Conn, Join(c) \/ Close(c) PROVE NoneReadsAhead'
  BY <1>2 DEF Join, Close
<1>3. ASSUME NEW s \in Seed, SeedReads(s) PROVE NoneReadsAhead'
  BY <1>3 DEF SeedReads
<1>4. ASSUME NEW s \in Seed, SeedSends(s) PROVE NoneReadsAhead'
  BY <1>4 DEF SeedSends
<1>5. ASSUME NEW s \in Seed, SeedReturns(s) PROVE NoneReadsAhead'
  BY <1>5 DEF SeedReturns
<1>6. ASSUME NEW s \in Seed, SeedThrows(s) PROVE NoneReadsAhead'
  BY <1>6 DEF SeedThrows
<1>7. CASE Send
  BY <1>7 DEF Send
<1>8. CASE UNCHANGED vars
  BY <1>8 DEF vars
<1> QED
  BY <1>1, <1>2, <1>3, <1>4, <1>5, <1>6, <1>7, <1>8 DEF Next

\* What every step does to one connection: the log grows at its end, or not at
\* all.
Appends(c, items) == received'[c] = received[c] \o items

LEMMA SettleEffect ==
  ASSUME Shape, Logs, NEW c \in Conn, Settle(c)
  PROVE  /\ seeding' = [seeding EXCEPT ![c] = None] /\ queue' = [queue EXCEPT ![c] = <<>>]
         /\ \A d \in Conn : d # c => received'[d] = received[d]
         /\ IF c \in live' /\ c \in open THEN Appends(c, Frames(queue[c])) ELSE received'[c] = received[c]
         /\ received' \in [Conn -> Seq(Item)]
<1>1. Frames(queue[c]) \in Seq(Item)
  BY FramesAreItems DEF Logs
<1>2. received[c] \in Seq(Item) /\ received[c] \o Frames(queue[c]) \in Seq(Item)
  BY <1>1, ConcatProperties DEF Logs
<1> QED
  BY <1>2 DEF Settle, Deliver, Frames, Appends, Logs

LEMMA LogsStep ==
  ASSUME Shape, Logs, [Next]_vars
  PROVE  Logs'
<1> USE BroadcastAssumption
<1>e. <<>> \in Seq(Nat)
  BY EmptySeq
<1>1. ASSUME NEW c \in Conn, Join(c) PROVE Logs'
  BY <1>1 DEF Join, Shape, Logs
<1>2. ASSUME NEW c \in Conn, NEW s \in Seed, JoinSeeded(c, s) PROVE Logs'
  BY <1>2, <1>e DEF JoinSeeded, Logs
<1>3. ASSUME NEW c \in Conn, Close(c) PROVE Logs'
  BY <1>3, <1>e DEF Close, Logs
<1>4. ASSUME NEW s \in Seed, SeedReads(s) PROVE Logs'
  BY <1>4 DEF SeedReads, Logs
<1>5. ASSUME NEW s \in Seed, SeedSends(s) PROVE Logs'
  <2>1. call[s].conn \in Conn /\ Snapshot(call[s].read) \in Item
    BY <1>5 DEF SeedSends, Shape, Snapshot, Item
  <2>2. received[call[s].conn] \o <<Snapshot(call[s].read)>> \in Seq(Item)
    BY <2>1, ConcatProperties DEF Logs
  <2> QED
    BY <1>5, <2>1, <2>2 DEF SeedSends, Deliver, Logs
<1>6. ASSUME NEW s \in Seed, SeedReturns(s) PROVE Logs'
  <2>1. call[s].conn \in Conn
    BY <1>6 DEF SeedReturns, Shape
  <2>2. CASE IsCurrent(s)
    <3>1. Settle(call[s].conn)
      BY <1>6, <2>2 DEF SeedReturns
    <3>2. since' = since \/ since' = [since EXCEPT ![call[s].conn] = 0]
      BY <1>6, <2>2 DEF SeedReturns
    <3>3. since' \in [Conn -> Nat]
      <4>1. since \in [Conn -> Nat]
        BY DEF Logs
      <4> QED
        BY <3>2, <4>1, SMT
    <3>4. received' \in [Conn -> Seq(Item)] /\ queue' = [queue EXCEPT ![call[s].conn] = <<>>]
      BY <2>1, <3>1, SettleEffect
    <3> QED
      BY <3>3, <3>4, <1>e DEF Logs
  <2>3. CASE ~IsCurrent(s)
    BY <1>6, <2>3 DEF SeedReturns, Logs
  <2> QED
    BY <2>2, <2>3
<1>7. ASSUME NEW s \in Seed, SeedThrows(s) PROVE Logs'
  <2>1. call[s].conn \in Conn
    BY <1>7 DEF SeedThrows, Shape
  <2>2. CASE IsCurrent(s)
    <3>1. Settle(call[s].conn) /\ since' = since
      BY <1>7, <2>2 DEF SeedThrows
    <3> QED
      BY <2>1, <3>1, <1>e, SettleEffect DEF Logs
  <2>3. CASE ~IsCurrent(s)
    BY <1>7, <2>3 DEF SeedThrows, Logs
  <2> QED
    BY <2>2, <2>3
<1>8. CASE Send
  <2>1. version' \in Nat /\ Frame(version') \in Item
    BY <1>8 DEF Send, Shape, Frame, Item
  <2>2. \A c \in Conn : Append(queue[c], version') \in Seq(Nat) /\ Append(received[c], Frame(version')) \in Seq(Item)
    BY <2>1, AppendProperties DEF Logs
  <2> QED
    BY <1>8, <2>2, <1>e DEF Send, Logs
<1>9. CASE UNCHANGED vars
  BY <1>9 DEF vars, Logs
<1> QED
  BY <1>1, <1>2, <1>3, <1>4, <1>5, <1>6, <1>7, <1>8, <1>9 DEF Next

LEMMA SeedsRunStep ==
  ASSUME Shape, SeedsRun, [Next]_vars
  PROVE  SeedsRun'
<1> USE BroadcastAssumption
<1>1. ASSUME NEW c \in Conn, Join(c) PROVE SeedsRun'
  BY <1>1 DEF Join, SeedsRun
<1>2. ASSUME NEW c \in Conn, NEW s \in Seed, JoinSeeded(c, s) PROVE SeedsRun'
  <2>1. \A d \in Conn : seeding[d] # s
    BY <1>2 DEF JoinSeeded, SeedsRun, NoCall
  <2> QED
    BY <1>2, <2>1 DEF JoinSeeded, SeedsRun, Shape
<1>3. ASSUME NEW c \in Conn, Close(c) PROVE SeedsRun'
  BY <1>3 DEF Close, SeedsRun, Shape
<1>4. ASSUME NEW s \in Seed, SeedReads(s) PROVE SeedsRun'
  BY <1>4 DEF SeedReads, SeedsRun, Shape
<1>5. ASSUME NEW s \in Seed, SeedSends(s) PROVE SeedsRun'
  BY <1>5 DEF SeedSends, SeedsRun, Shape
<1>6. ASSUME NEW s \in Seed, SeedReturns(s) PROVE SeedsRun'
  <2>1. call[s].conn \in Conn
    BY <1>6 DEF SeedReturns, Shape
  <2>2. \A d \in Conn : seeding[d] = s => d = call[s].conn
    BY DEF SeedsRun
  <2> QED
    BY <1>6, <2>1, <2>2 DEF SeedReturns, Settle, IsCurrent, SeedsRun, Shape
<1>7. ASSUME NEW s \in Seed, SeedThrows(s) PROVE SeedsRun'
  <2>1. call[s].conn \in Conn
    BY <1>7 DEF SeedThrows, Shape
  <2>2. \A d \in Conn : seeding[d] = s => d = call[s].conn
    BY DEF SeedsRun
  <2> QED
    BY <1>7, <2>1, <2>2 DEF SeedThrows, Settle, IsCurrent, SeedsRun, Shape
<1>8. CASE Send
  BY <1>8 DEF Send, SeedsRun
<1>9. CASE UNCHANGED vars
  BY <1>9 DEF vars, SeedsRun
<1> QED
  BY <1>1, <1>2, <1>3, <1>4, <1>5, <1>6, <1>7, <1>8, <1>9 DEF Next

-----------------------------------------------------------------------------
(* Order.                                                                  *)

\* What NeverOvertaken asks of an item b that was sent after a.
Follows(a, b) ==
  /\ b.kind = "snapshot" => a.at <= b.at
  /\ b.kind = "frame" /\ a.kind = "frame" => a.at < b.at

InOrder(log) == \A j \in 1..Len(log) : \A i \in 1..j - 1 : Follows(log[i], log[j])

\* Queued frames are newer than those sent, and in order; none is from the future.
QueueInOrder(c) ==
  \A j \in 1..Len(queue[c]) :
    /\ queue[c][j] <= version
    /\ \A i \in 1..j - 1 : queue[c][i] < queue[c][j]
    /\ \A i \in 1..Len(received[c]) : received[c][i].kind = "frame" => received[c][i].at < queue[c][j]

\* What was read is at least as new as all that was sent: nothing is sent to a
\* connection while its seed runs, but by the seed.
SnapshotIsNewer(c) ==
  seeding[c] # None /\ call[seeding[c]].stage = "read" =>
    \A i \in 1..Len(received[c]) : received[c][i].at <= call[seeding[c]].read

OrderAt(c) ==
  /\ InOrder(received[c]) /\ QueueInOrder(c) /\ SnapshotIsNewer(c)
  /\ \A i \in 1..Len(received[c]) : received[c][i].at <= version

Order == \A c \in Conn : OrderAt(c)

LEMMA ConcatInOrder ==
  ASSUME NEW r \in Seq(Item), NEW x \in Seq(Item), InOrder(r), InOrder(x),
         \A i \in 1..Len(r), j \in 1..Len(x) : Follows(r[i], x[j])
  PROVE  InOrder(r \o x)
<1>1. /\ Len(r) \in Nat /\ Len(x) \in Nat
      /\ Len(r \o x) = Len(r) + Len(x)
      /\ \A i \in 1..Len(r) + Len(x) : (r \o x)[i] = IF i <= Len(r) THEN r[i] ELSE x[i - Len(r)]
  BY ConcatProperties, LenProperties
<1>2. SUFFICES ASSUME NEW j \in 1..Len(r) + Len(x), NEW i \in 1..j - 1
               PROVE  Follows((r \o x)[i], (r \o x)[j])
  BY <1>1 DEF InOrder
<1>3. CASE j <= Len(r)
  BY <1>1, <1>3 DEF InOrder
<1>4. CASE j > Len(r) /\ i <= Len(r)
  <2>1. j - Len(r) \in 1..Len(x) /\ i \in 1..Len(r)
    BY <1>1, <1>4
  <2> QED
    BY <1>1, <1>4, <2>1
<1>5. CASE i > Len(r)
  <2>1. j - Len(r) \in 1..Len(x) /\ i - Len(r) \in 1..(j - Len(r)) - 1
    BY <1>1, <1>5
  <2> QED
    BY <1>1, <1>5, <2>1 DEF InOrder
<1> QED
  BY <1>1, <1>3, <1>4, <1>5

\* One item more that follows all before it.
LEMMA AppendInOrder ==
  ASSUME NEW r \in Seq(Item), NEW x \in Item, InOrder(r), \A i \in 1..Len(r) : Follows(r[i], x)
  PROVE  /\ r \o <<x>> \in Seq(Item) /\ InOrder(r \o <<x>>)
         /\ Len(r \o <<x>>) = Len(r) + 1 /\ Len(r) \in Nat
         /\ \A i \in 1..Len(r) : (r \o <<x>>)[i] = r[i]
         /\ (r \o <<x>>)[Len(r) + 1] = x
<1>1. <<x>> \in Seq(Item) /\ Len(<<x>>) = 1 /\ <<x>>[1] = x
  OBVIOUS
<1> DEFINE y == <<x>>
<1> HIDE DEF y
<1>2. y \in Seq(Item) /\ Len(y) = 1 /\ y[1] = x
  BY <1>1 DEF y
<1>3. InOrder(y) /\ \A i \in 1..Len(r), j \in 1..Len(y) : Follows(r[i], y[j])
  BY <1>2 DEF InOrder
<1>4. InOrder(r \o y)
  BY <1>2, <1>3, ConcatInOrder
<1>5. /\ r \o y \in Seq(Item) /\ Len(r \o y) = Len(r) + 1 /\ Len(r) \in Nat
      /\ \A i \in 1..Len(r) + 1 : (r \o y)[i] = IF i <= Len(r) THEN r[i] ELSE y[i - Len(r)]
  <2>1. Len(r) \in Nat
    BY LenProperties
  <2>2. /\ r \o y \in Seq(Item) /\ Len(r \o y) = Len(r) + Len(y)
        /\ \A i \in 1..Len(r) + Len(y) : (r \o y)[i] = IF i <= Len(r) THEN r[i] ELSE y[i - Len(r)]
    BY <1>2, ConcatProperties
  <2> QED
    BY <1>2, <2>1, <2>2
<1>6. (r \o y)[Len(r) + 1] = x /\ \A i \in 1..Len(r) : (r \o y)[i] = r[i]
  BY <1>2, <1>5
<1> QED
  BY <1>4, <1>5, <1>6 DEF y

LEMMA SettleOrder ==
  ASSUME Shape, Logs, Order, NEW c \in Conn, Settle(c), version' = version
  PROVE  OrderAt(c)'
<1> DEFINE r == received[c]  q == queue[c]  x == Frames(queue[c])
<1>0. version \in Nat /\ r \in Seq(Item) /\ q \in Seq(Nat) /\ Len(r) \in Nat /\ Len(q) \in Nat
  BY LenProperties DEF Shape, Logs
<1>1. /\ x \in Seq(Item) /\ Len(x) = Len(q)
      /\ \A i \in 1..Len(q) : x[i] = Frame(q[i])
  BY <1>0, FramesAreItems
<1>2. seeding'[c] = None /\ queue'[c] = <<>>
  BY SettleEffect DEF Shape, Logs
<1>3. QueueInOrder(c)' /\ SnapshotIsNewer(c)'
  BY <1>2, EmptySeq DEF QueueInOrder, SnapshotIsNewer
<1>4. CASE received'[c] = r
  BY <1>3, <1>4 DEF Order, OrderAt
<1>5. CASE received'[c] = r \o x
  <2>0. /\ \A j \in 1..Len(q) : /\ q[j] <= version
                               /\ \A i \in 1..j - 1 : q[i] < q[j]
        /\ InOrder(r) /\ \A i \in 1..Len(r) : r[i].at <= version
    BY DEF Order, OrderAt, QueueInOrder
  <2>f. \A j \in 1..Len(q) : \A i \in 1..Len(r) : r[i].kind = "frame" => r[i].at < q[j]
    BY DEF Order, OrderAt, QueueInOrder
  <2>x. ASSUME NEW i \in 1..Len(q) PROVE x[i].kind = "frame" /\ x[i].at = q[i]
    <3>1. x[i] = Frame(q[i])
      BY <1>1
    <3> HIDE DEF x, q
    <3> QED
      BY <3>1 DEF Frame
  <2>y. \A i \in 1..Len(x) : x[i].kind = "frame" /\ x[i].at = q[i] /\ i \in 1..Len(q)
    BY <1>1, <2>x
  <2> HIDE DEF r, q, x
  <2>1. InOrder(x)
    BY <1>0, <1>1, <2>0, <2>x DEF InOrder, Follows
  <2>2. \A i \in 1..Len(r), j \in 1..Len(x) : Follows(r[i], x[j])
    <3> SUFFICES ASSUME NEW i \in 1..Len(r), NEW j \in 1..Len(x)
                 PROVE  Follows(r[i], x[j])
      OBVIOUS
    <3>0. j \in 1..Len(q)
      BY <2>y
    <3>1. r[i].kind = "frame" => r[i].at < q[j]
      BY <2>f, <3>0
    <3> QED
      BY <2>y, <3>1 DEF Follows
  <2>3. InOrder(r \o x)
    BY <1>0, <1>1, <2>0, <2>1, <2>2, ConcatInOrder
  <2>4. \A i \in 1..Len(x) : x[i].at <= version
    BY <1>0, <1>1, <2>0, <2>x
  <2>5. \A i \in 1..Len(r \o x) : (r \o x)[i].at <= version
    <3>1. /\ Len(r \o x) = Len(r) + Len(x)
          /\ \A i \in 1..Len(r) + Len(x) : (r \o x)[i] = IF i <= Len(r) THEN r[i] ELSE x[i - Len(r)]
      BY <1>0, <1>1, ConcatProperties
    <3> QED
      BY <1>0, <1>1, <2>0, <2>4, <3>1
  <2> QED
    BY <1>3, <1>5, <2>3, <2>5 DEF OrderAt, r, x, q
<1> QED
  BY <1>4, <1>5, SettleEffect DEF Appends

\* The connections that a step does not send to, seed or queue for.
LEMMA OrderKept ==
  ASSUME Order, NEW c \in Conn, received'[c] = received[c], queue'[c] = queue[c], version' = version,
         \/ seeding'[c] = None
         \/ call'[seeding'[c]].stage # "read"
         \/ seeding'[c] = seeding[c] /\ call'[seeding[c]] = call[seeding[c]]
  PROVE  OrderAt(c)'
<1>1. SnapshotIsNewer(c)'
  BY DEF Order, OrderAt, SnapshotIsNewer
<1>2. QueueInOrder(c)'
  BY DEF Order, OrderAt, QueueInOrder
<1> QED
  BY <1>1, <1>2 DEF Order, OrderAt

LEMMA OrderStep ==
  ASSUME Shape, Logs, SeedsRun, NoneReadsAhead, Order, [Next]_vars
  PROVE  Order'
<1> USE BroadcastAssumption
<1>1. ASSUME NEW c \in Conn, Join(c) PROVE Order'
  BY <1>1, OrderKept DEF Join, Order
<1>2. ASSUME NEW c \in Conn, NEW s \in Seed, JoinSeeded(c, s) PROVE Order'
  <2>1. \A d \in Conn : seeding[d] # s
    BY <1>2 DEF JoinSeeded, SeedsRun, NoCall
  <2>2. ASSUME NEW d \in Conn, d # c PROVE OrderAt(d)'
    <3>1. seeding'[d] = seeding[d] /\ queue'[d] = queue[d] /\ call'[seeding[d]] = call[seeding[d]]
      BY <1>2, <2>1, <2>2 DEF JoinSeeded, Shape, Logs
    <3> QED
      BY <1>2, <3>1, OrderKept DEF JoinSeeded
  <2>3. OrderAt(c)'
    <3>1. seeding'[c] = s /\ queue'[c] = <<>> /\ call'[s].stage = "running"
      BY <1>2 DEF JoinSeeded, Shape, Logs
    <3>2. QueueInOrder(c)' /\ SnapshotIsNewer(c)'
      BY <3>1, EmptySeq DEF QueueInOrder, SnapshotIsNewer
    <3> QED
      BY <1>2, <3>2 DEF JoinSeeded, Order, OrderAt
  <2> QED
    BY <2>2, <2>3 DEF Order
<1>3. ASSUME NEW c \in Conn, Close(c) PROVE Order'
  <2>1. ASSUME NEW d \in Conn PROVE OrderAt(d)'
    <3>1. CASE queue'[d] = queue[d] /\ seeding'[d] = seeding[d]
      BY <1>3, <3>1, OrderKept DEF Close
    <3>2. CASE queue'[d] = <<>> /\ seeding'[d] = None
      <4>1. QueueInOrder(d)' /\ SnapshotIsNewer(d)'
        BY <3>2, EmptySeq DEF QueueInOrder, SnapshotIsNewer
      <4> QED
        BY <1>3, <4>1 DEF Close, Order, OrderAt
    <3> QED
      BY <1>3, <3>1, <3>2 DEF Close, Shape, Logs
  <2> QED
    BY <2>1 DEF Order
<1>4. ASSUME NEW s \in Seed, SeedReads(s) PROVE Order'
  <2>1. call'[s].read = version /\ \A q \in Seed : q # s => call'[q] = call[q]
    BY <1>4 DEF SeedReads, Shape
  <2>2. ASSUME NEW d \in Conn, seeding[d] # s PROVE OrderAt(d)'
    BY <1>4, <2>1, <2>2, OrderKept DEF SeedReads, Shape
  <2>3. ASSUME NEW d \in Conn, seeding[d] = s PROVE OrderAt(d)'
    <3>1. SnapshotIsNewer(d)'
      BY <1>4, <2>1, <2>3 DEF SeedReads, SnapshotIsNewer, Order, OrderAt
    <3>2. QueueInOrder(d)'
      BY <1>4 DEF SeedReads, QueueInOrder, Order, OrderAt
    <3> QED
      BY <1>4, <3>1, <3>2 DEF SeedReads, Order, OrderAt
  <2> QED
    BY <2>2, <2>3 DEF Order
<1>5. ASSUME NEW s \in Seed, SeedSends(s) PROVE Order'
  <2>c. PICK c \in Conn : c = call[s].conn
    BY <1>5 DEF SeedSends, Shape
  <2>1. call[s].read \in Nat
    BY DEF Shape
  <2>x. PICK x \in Item : x = Snapshot(call[s].read) /\ x.kind = "snapshot" /\ x.at = call[s].read
    <3>1. Snapshot(call[s].read) \in Item
      BY <2>1 DEF Snapshot, Item
    <3> QED
      BY <3>1 DEF Snapshot
  <2>2. call'[s].stage = "sent" /\ \A q \in Seed : q # s => call'[q] = call[q]
    BY <1>5 DEF SeedSends, Shape
  <2>3. ASSUME NEW d \in Conn, received'[d] = received[d] PROVE OrderAt(d)'
    BY <1>5, <2>2, <2>3, OrderKept DEF SeedSends, Shape
  <2>4. ASSUME received'[c] = received[c] \o <<x>>, IsCurrent(s) PROVE OrderAt(c)'
    <3>1. received[c] \in Seq(Item) /\ InOrder(received[c])
      BY <2>1 DEF Logs, Order, OrderAt
    <3>2. \A i \in 1..Len(received[c]) : received[c][i].at <= call[s].read
      BY <1>5, <2>c, <2>1, <2>4 DEF SeedSends, IsCurrent, Order, OrderAt, SnapshotIsNewer
    <3>3. \A i \in 1..Len(received[c]) : Follows(received[c][i], x)
      BY <2>x, <3>2 DEF Follows
    <3>4. /\ InOrder(received[c] \o <<x>>)
          /\ Len(received[c] \o <<x>>) = Len(received[c]) + 1 /\ Len(received[c]) \in Nat
          /\ \A i \in 1..Len(received[c]) : (received[c] \o <<x>>)[i] = received[c][i]
          /\ (received[c] \o <<x>>)[Len(received[c]) + 1] = x
      BY <2>1, <3>1, <3>3, AppendInOrder
    <3>5. SnapshotIsNewer(c)'
      BY <1>5, <2>c, <2>2, <2>4 DEF SeedSends, IsCurrent, SnapshotIsNewer
    <3>5b. queue' = queue /\ version' = version /\ QueueInOrder(c) /\ OrderAt(c)
      BY <1>5, <2>1 DEF SeedSends, Order, OrderAt
    <3>6. QueueInOrder(c)'
      BY <2>4, <3>4, <2>x, <3>5b DEF QueueInOrder
    <3>7. call[s].read <= version
      BY DEF NoneReadsAhead
    <3> QED
      BY <2>1, <2>4, <3>4, <2>x, <3>5b, <3>5, <3>6, <3>7 DEF OrderAt
  <2>5. CASE IsCurrent(s) /\ c \in open
    <3>1. received'[c] = received[c] \o <<x>> /\ \A d \in Conn : d # c => received'[d] = received[d]
      BY <1>5, <2>c, <2>x, <2>5 DEF SeedSends, Deliver, Logs
    <3>2. OrderAt(c)'
      BY <2>4, <2>5, <3>1
    <3>3. \A d \in Conn : d # c => OrderAt(d)'
      BY <2>3, <3>1
    <3> QED
      BY <3>2, <3>3 DEF Order
  <2>6. CASE ~(IsCurrent(s) /\ c \in open)
    <3>1. \A d \in Conn : received'[d] = received[d]
      BY <1>5, <2>c, <2>x, <2>6 DEF SeedSends, Deliver, Logs
    <3> QED
      BY <2>3, <3>1 DEF Order
  <2> QED
    BY <2>5, <2>6
<1>6. ASSUME NEW s \in Seed, SeedReturns(s) \/ SeedThrows(s) PROVE Order'
  <2>c. PICK c \in Conn : c = call[s].conn
    BY <1>6 DEF SeedReturns, SeedThrows, Shape
  <2>1. version' = version
    BY <1>6 DEF SeedReturns, SeedThrows
  <2>2. call'[s].stage = "over" /\ \A q \in Seed : q # s => call'[q] = call[q]
    BY <1>6 DEF SeedReturns, SeedThrows, Shape
  <2>3. CASE IsCurrent(s)
    <3>1. Settle(c)
      BY <1>6, <2>c, <2>3 DEF SeedReturns, SeedThrows
    <3>2. OrderAt(c)'
      BY <2>1, <3>1, SettleOrder
    <3>3. ASSUME NEW d \in Conn, d # c PROVE OrderAt(d)'
      <4>1. received'[d] = received[d] /\ queue'[d] = queue[d] /\ seeding'[d] = seeding[d]
        BY <2>1, <3>1, <3>3, SettleEffect DEF Shape, Logs
      <4>2. seeding[d] # s
        BY <2>c, <3>3 DEF SeedsRun
      <4>3. call'[seeding[d]] = call[seeding[d]] \/ seeding[d] = None
        BY <2>2, <4>2 DEF Shape
      <4> QED
        BY <2>1, <4>1, <4>3, OrderKept
    <3> QED
      BY <3>2, <3>3 DEF Order
  <2>4. CASE ~IsCurrent(s)
    <3>1. UNCHANGED <<seeding, queue, received>>
      BY <1>6, <2>4 DEF SeedReturns, SeedThrows
    <3>2. ASSUME NEW d \in Conn PROVE OrderAt(d)'
      <4>1. call'[seeding[d]] = call[seeding[d]] \/ seeding[d] = None \/ seeding[d] = s
        BY <2>2 DEF Shape
      <4> QED
        BY <2>1, <2>2, <3>1, <4>1, OrderKept
    <3> QED
      BY <3>2 DEF Order
  <2> QED
    BY <2>3, <2>4
<1>7. CASE Send
  <2>1. version' = version + 1 /\ version \in Nat /\ call' = call /\ seeding' = seeding
    BY <1>7 DEF Send, Shape
  <2>2. Frame(version') \in Item
    BY <2>1 DEF Frame, Item
  <2>3. ASSUME NEW c \in Conn PROVE OrderAt(c)'
    <3> DEFINE r == received[c]  q == queue[c]
    <3>0. /\ r \in Seq(Item) /\ q \in Seq(Nat) /\ Len(r) \in Nat /\ Len(q) \in Nat
          /\ InOrder(r) /\ \A i \in 1..Len(r) : r[i].at <= version /\ r[i].at \in Nat
          /\ \A i \in 1..Len(q) : q[i] <= version /\ q[i] \in Nat
      <4>1. r \in Seq(Item) /\ q \in Seq(Nat) /\ r \in [1..Len(r) -> Item] /\ q \in [1..Len(q) -> Nat]
        BY LenProperties DEF Logs
      <4> QED
        BY <4>1, LenProperties DEF Order, OrderAt, QueueInOrder, Item
    <3>1. CASE seeding[c] # None
      <4>1. received'[c] = r /\ queue'[c] = Append(q, version')
        BY <1>7, <3>1 DEF Send
      <4>2. /\ Len(queue'[c]) = Len(q) + 1 /\ queue'[c][Len(q) + 1] = version'
            /\ \A i \in 1..Len(q) : queue'[c][i] = q[i]
        BY <2>1, <3>0, <4>1, AppendProperties
      <4>3. QueueInOrder(c)'
        BY <2>1, <3>0, <4>1, <4>2 DEF QueueInOrder, Order, OrderAt
      <4>4. SnapshotIsNewer(c)'
        BY <2>1, <4>1 DEF SnapshotIsNewer, Order, OrderAt
      <4> QED
        BY <2>1, <3>0, <4>1, <4>3, <4>4 DEF OrderAt
    <3>2. CASE seeding[c] = None
      <4>1. queue'[c] = <<>> /\ received'[c] \in {r, Append(r, Frame(version'))}
        BY <1>7, <3>2 DEF Send
      <4>2. QueueInOrder(c)' /\ SnapshotIsNewer(c)'
        BY <2>1, <3>2, <4>1, EmptySeq DEF QueueInOrder, SnapshotIsNewer
      <4>3. CASE received'[c] = r
        BY <2>1, <3>0, <4>2, <4>3 DEF OrderAt
      <4>4. CASE received'[c] = Append(r, Frame(version'))
        <5>1. received'[c] = r \o <<Frame(version')>>
          BY <2>2, <3>0, <4>4, AppendIsConcat
        <5>2. \A i \in 1..Len(r) : Follows(r[i], Frame(version'))
          BY <2>1, <3>0 DEF Follows, Frame
        <5> HIDE DEF r
        <5>3. /\ InOrder(r \o <<Frame(version')>>)
              /\ Len(r \o <<Frame(version')>>) = Len(r) + 1
              /\ \A i \in 1..Len(r) : (r \o <<Frame(version')>>)[i] = r[i]
              /\ (r \o <<Frame(version')>>)[Len(r) + 1] = Frame(version')
          BY <2>2, <3>0, <5>2, AppendInOrder
        <5>4. \A i \in 1..Len(received'[c]) : received'[c][i].at <= version'
          BY <2>1, <3>0, <5>1, <5>3 DEF Frame
        <5> QED
          BY <4>2, <5>1, <5>3, <5>4 DEF OrderAt
      <4> QED
        BY <4>1, <4>3, <4>4
    <3> QED
      BY <3>1, <3>2
  <2> QED
    BY <2>3 DEF Order
<1>8. CASE UNCHANGED vars
  BY <1>8, OrderKept DEF vars, Order
<1> QED
  BY <1>1, <1>2, <1>3, <1>4, <1>5, <1>6, <1>7, <1>8 DEF Next

LEMMA OrderInit == Init => Logs /\ SeedsRun /\ NoneReadsAhead /\ Order
<1> SUFFICES ASSUME Init PROVE Logs /\ SeedsRun /\ NoneReadsAhead /\ Order
  OBVIOUS
<1>1. Logs
  BY EmptySeq DEF Init, Logs
<1>2. SeedsRun /\ NoneReadsAhead
  BY BroadcastAssumption DEF Init, SeedsRun, NoneReadsAhead, NoCall
<1>3. Order
  BY EmptySeq DEF Init, Order, OrderAt, InOrder, QueueInOrder, SnapshotIsNewer
<1> QED
  BY <1>1, <1>2, <1>3

LEMMA OrderMeans ==
  ASSUME Logs, Order
  PROVE  NeverOvertaken
<1>1. SUFFICES ASSUME NEW c \in Conn, NEW j \in DOMAIN received[c], NEW i \in 1..j - 1
               PROVE  CASE received[c][j].kind = "snapshot" -> received[c][i].at <= received[c][j].at
                        [] received[c][j].kind = "frame" ->
                             received[c][i].kind = "frame" => received[c][i].at < received[c][j].at
  BY DEF NeverOvertaken
<1>2. received[c] \in [1..Len(received[c]) -> Item] /\ DOMAIN received[c] = 1..Len(received[c])
  BY LenProperties DEF Logs
<1>3. Follows(received[c][i], received[c][j])
  BY <1>2 DEF Order, OrderAt, InOrder
<1>4. received[c][j].kind \in {"snapshot", "frame"}
  BY <1>2 DEF Item
<1> QED
  BY <1>3, <1>4 DEF Follows

\* No snapshot follows a change that it does not contain, nor a newer snapshot,
\* and changes come once and in order, whatever seeds supersede each other, throw
\* or end after the close.
THEOREM NeverOvertakenTheorem == Spec => []NeverOvertaken
<1> DEFINE OInv == Shape /\ Logs /\ SeedsRun /\ NoneReadsAhead /\ Order
<1>1. Init => OInv
  BY ShapeInit, OrderInit
<1>2. OInv /\ [Next]_vars => OInv'
  BY ShapeStep, LogsStep, SeedsRunStep, NoneReadsAheadStep, OrderStep
<1>3. OInv => NeverOvertaken
  BY OrderMeans
<1> QED
  BY <1>1, <1>2, <1>3, PTL DEF Spec

-----------------------------------------------------------------------------
(* Nothing is missed.                                                      *)

Queued(c, v) == \E i \in 1..Len(queue[c]) : queue[c][i] = v

\* The snapshot that the seed of c has still to send will contain v.
Promised(c, v) ==
  /\ seeding[c] # None
  /\ \/ call[seeding[c]].stage = "running"
     \/ call[seeding[c]].stage = "read" /\ v <= call[seeding[c]].read

\* What a member is owed was sent, is queued, or is promised by a seed that will
\* not throw; and before a seed ends, all that was ever broadcast is one of these.
CoveredAt(c) ==
  c \in open =>
    /\ c \in live => \A v \in since[c] + 1 .. version :
         Seen(c, v) \/ Queued(c, v) \/ (Promised(c, v) /\ call[seeding[c]].late)
    /\ seeding[c] # None => \A v \in 1..version : Seen(c, v) \/ Queued(c, v) \/ Promised(c, v)
    /\ seeding[c] = None => queue[c] = <<>>

Covered == \A c \in Conn : CoveredAt(c)

LEMMA SeenOnce ==
  ASSUME Logs, NEW c \in Conn, NEW x \in Seq(Item), Appends(c, x), NEW v
  PROVE  /\ Seen(c, v) => Seen(c, v)'
         /\ \A i \in 1..Len(x) :
              x[i] = Frame(v) \/ (x[i].kind = "snapshot" /\ x[i].at >= v) => Seen(c, v)'
<1> DEFINE r == received[c]
<1>1. /\ r \in Seq(Item) /\ Len(r) \in Nat /\ Len(x) \in Nat /\ DOMAIN r = 1..Len(r)
  BY LenProperties DEF Logs
<1>2. /\ r \o x \in Seq(Item) /\ Len(r \o x) = Len(r) + Len(x)
      /\ \A i \in 1..Len(r) + Len(x) : (r \o x)[i] = IF i <= Len(r) THEN r[i] ELSE x[i - Len(r)]
  BY <1>1, ConcatProperties
<1>3. received'[c] = r \o x /\ DOMAIN received'[c] = 1..Len(r) + Len(x)
  BY <1>2, LenProperties DEF Appends
<1>4. ASSUME Seen(c, v) PROVE Seen(c, v)'
  <2>1. PICK i \in 1..Len(r) : r[i] = Frame(v) \/ (r[i].kind = "snapshot" /\ r[i].at >= v)
    BY <1>1, <1>4 DEF Seen
  <2>2. i \in 1..Len(r) + Len(x) /\ (r \o x)[i] = r[i]
    BY <1>1, <1>2
  <2> QED
    BY <1>3, <2>1, <2>2 DEF Seen
<1>5. ASSUME NEW i \in 1..Len(x), x[i] = Frame(v) \/ (x[i].kind = "snapshot" /\ x[i].at >= v)
      PROVE  Seen(c, v)'
  <2>1. Len(r) + i \in 1..Len(r) + Len(x) /\ (r \o x)[Len(r) + i] = x[i]
    BY <1>1, <1>2
  <2> QED
    BY <1>3, <1>5, <2>1 DEF Seen
<1> QED
  BY <1>4, <1>5

LEMMA SeenKept ==
  ASSUME NEW c \in Conn, received'[c] = received[c], NEW v
  PROVE  Seen(c, v)' = Seen(c, v)
  BY DEF Seen

\* The connections that a step does not touch.
LEMMA CoverKept ==
  ASSUME Covered, NEW c \in Conn, received'[c] = received[c], queue'[c] = queue[c], version' = version,
         c \in open' => c \in open, c \in live' => c \in live /\ since'[c] = since[c],
         seeding'[c] = seeding[c], seeding[c] = None \/ call'[seeding[c]] = call[seeding[c]]
  PROVE  CoveredAt(c)'
<1>1. \A v : /\ Seen(c, v)' = Seen(c, v)
             /\ Queued(c, v)' = Queued(c, v)
             /\ Promised(c, v)' = Promised(c, v)
  BY DEF Seen, Queued, Promised
<1>2. SUFFICES ASSUME c \in open' PROVE CoveredAt(c)'
  BY DEF CoveredAt
<1>3. c \in open /\ CoveredAt(c)
  BY <1>2 DEF Covered
<1>4. ASSUME c \in live', NEW v \in since'[c] + 1 .. version'
      PROVE  Seen(c, v)' \/ Queued(c, v)' \/ (Promised(c, v)' /\ call'[seeding'[c]].late)
  <2>1. c \in live /\ v \in since[c] + 1 .. version
    BY <1>4
  <2>2. Seen(c, v) \/ Queued(c, v) \/ (Promised(c, v) /\ call[seeding[c]].late)
    BY <1>3, <2>1 DEF CoveredAt
  <2>3. Promised(c, v) => seeding[c] # None
    BY DEF Promised
  <2> QED
    BY <1>1, <2>2, <2>3
<1>5. seeding'[c] # None =>
        \A v \in 1..version' : Seen(c, v)' \/ Queued(c, v)' \/ Promised(c, v)'
  BY <1>1, <1>3 DEF CoveredAt
<1>6. seeding'[c] = None => queue'[c] = <<>>
  BY <1>3 DEF CoveredAt
<1> QED
  BY <1>4, <1>5, <1>6 DEF CoveredAt

\* A seed that sent its snapshot settles: all that it owes is sent or queued, and
\* what is queued is sent now.
LEMMA SettleCovers ==
  ASSUME Shape, Logs, NEW c \in Conn, Settle(c), open' = open, c \in open, c \in live', version' = version,
         NEW v, Seen(c, v) \/ Queued(c, v)
  PROVE  Seen(c, v)'
<1>1. queue[c] \in Seq(Nat)
  BY DEF Logs
<1>2. /\ Frames(queue[c]) \in Seq(Item) /\ Len(Frames(queue[c])) = Len(queue[c])
      /\ \A i \in 1..Len(queue[c]) : Frames(queue[c])[i] = Frame(queue[c][i])
  BY <1>1, FramesAreItems
<1>3. Appends(c, Frames(queue[c]))
  BY SettleEffect
<1>4. CASE Seen(c, v)
  BY <1>2, <1>3, <1>4, SeenOnce
<1>5. CASE Queued(c, v)
  <2>1. PICK i \in 1..Len(queue[c]) : queue[c][i] = v
    BY <1>5 DEF Queued
  <2>2. i \in 1..Len(Frames(queue[c])) /\ Frames(queue[c])[i] = Frame(v)
    BY <1>2, <2>1
  <2> QED
    BY <1>2, <1>3, <2>2, SeenOnce
<1> QED
  BY <1>4, <1>5

LEMMA CoveredStep ==
  ASSUME LateSeedsThrow = FALSE, Shape, Logs, SeedsRun, NoneReadsAhead, Covered, [Next]_vars
  PROVE  Covered'
<1> USE BroadcastAssumption
<1>1. ASSUME NEW c \in Conn, Join(c) PROVE Covered'
  <2>1. ASSUME NEW d \in Conn, d # c \/ c \in live PROVE CoveredAt(d)'
    BY <1>1, <2>1, CoverKept DEF Join, Logs
  <2>2. ASSUME c \notin live PROVE CoveredAt(c)'
    <3>1. since'[c] = version /\ version' = version /\ version \in Nat
      BY <1>1, <2>2 DEF Join, Logs, Shape
    <3>2. \A v \in since'[c] + 1 .. version' : FALSE
      BY <3>1
    <3>3. \A v : /\ Seen(c, v)' = Seen(c, v)
                 /\ Queued(c, v)' = Queued(c, v)
                 /\ Promised(c, v)' = Promised(c, v)
      BY <1>1 DEF Join, Seen, Queued, Promised
    <3> QED
      BY <1>1, <3>2, <3>3 DEF Join, Covered, CoveredAt
  <2> QED
    BY <2>1, <2>2 DEF Covered
<1>2. ASSUME NEW c \in Conn, NEW s \in Seed, JoinSeeded(c, s) PROVE Covered'
  <2>1. \A d \in Conn : seeding[d] # s
    BY <1>2 DEF JoinSeeded, SeedsRun, NoCall
  <2>2. ASSUME NEW d \in Conn, d # c PROVE CoveredAt(d)'
    <3>1. seeding'[d] = seeding[d] /\ queue'[d] = queue[d]
          /\ (seeding[d] = None \/ call'[seeding[d]] = call[seeding[d]])
      BY <1>2, <2>1, <2>2 DEF JoinSeeded, Shape, Logs
    <3> QED
      BY <1>2, <3>1, CoverKept DEF JoinSeeded
  <2>3. CoveredAt(c)'
    <3>1. /\ seeding'[c] = s /\ call'[s].stage = "running" /\ call'[s].late = (seeding[c] # None)
          /\ version' = version /\ received' = received /\ since' = since /\ open' = open /\ live' = live
      BY <1>2 DEF JoinSeeded, Shape
    <3>2. \A v : Promised(c, v)'
      BY <3>1 DEF Promised
    <3>3. ASSUME c \in open, c \in live, seeding[c] = None, NEW v \in since[c] + 1 .. version
          PROVE  Seen(c, v)'
      <4>1. ~Queued(c, v) /\ ~Promised(c, v)
        BY <3>3, EmptySeq DEF Covered, CoveredAt, Queued, Promised
      <4> QED
        BY <3>1, <3>3, <4>1, SeenKept DEF Covered, CoveredAt
    <3> QED
      BY <3>1, <3>2, <3>3 DEF CoveredAt
  <2> QED
    BY <2>2, <2>3 DEF Covered
<1>3. ASSUME NEW c \in Conn, Close(c) PROVE Covered'
  <2>1. ASSUME NEW d \in Conn, d # c PROVE CoveredAt(d)'
    <3>1. queue'[d] = queue[d] /\ seeding'[d] = seeding[d]
      BY <1>3, <2>1 DEF Close, Shape, Logs
    <3> QED
      BY <1>3, <2>1, <3>1, CoverKept DEF Close
  <2>2. CoveredAt(c)'
    BY <1>3 DEF Close, CoveredAt
  <2> QED
    BY <2>1, <2>2 DEF Covered
<1>4. ASSUME NEW s \in Seed, SeedReads(s) PROVE Covered'
  <2>1. /\ call'[s].read = version /\ call'[s].stage = "read" /\ call'[s].late = call[s].late
        /\ \A q \in Seed : q # s => call'[q] = call[q]
        /\ call[s].stage = "running"
    BY <1>4 DEF SeedReads, Shape
  <2>2. ASSUME NEW d \in Conn, seeding[d] # s PROVE CoveredAt(d)'
    BY <1>4, <2>1, <2>2, CoverKept DEF SeedReads, Shape
  <2>3. ASSUME NEW d \in Conn, seeding[d] = s PROVE CoveredAt(d)'
    <3>1. \A v : Seen(d, v)' = Seen(d, v) /\ Queued(d, v)' = Queued(d, v)
      BY <1>4 DEF SeedReads, Seen, Queued
    <3>2. \A v \in 1..version : Promised(d, v)'
      BY <1>4, <2>1, <2>3 DEF SeedReads, Promised, Shape
    <3>3. since[d] \in Nat /\ version \in Nat
      BY DEF Logs, Shape
    <3>4. \A v \in since[d] + 1 .. version : v \in 1..version
      BY <3>3
    <3> QED
      BY <1>4, <2>1, <2>3, <3>1, <3>2, <3>4 DEF SeedReads, Covered, CoveredAt
  <2> QED
    BY <2>2, <2>3 DEF Covered
<1>5. ASSUME NEW s \in Seed, SeedSends(s) PROVE Covered'
  <2>c. PICK c \in Conn : c = call[s].conn
    BY <1>5 DEF SeedSends, Shape
  <2>1. call[s].read \in Nat
    BY DEF Shape
  <2>x. PICK x \in Item : x = Snapshot(call[s].read) /\ x.kind = "snapshot" /\ x.at = call[s].read
    <3>1. Snapshot(call[s].read) \in Item
      BY <2>1 DEF Snapshot, Item
    <3> QED
      BY <3>1 DEF Snapshot
  <2>2. /\ call'[s].stage = "sent" /\ call'[s].late = call[s].late /\ call[s].stage = "read"
        /\ \A q \in Seed : q # s => call'[q] = call[q]
    BY <1>5 DEF SeedSends, Shape
  <2>3. ASSUME NEW d \in Conn, seeding[d] # s PROVE CoveredAt(d)'
    <3>1. received'[d] = received[d]
      BY <1>5, <2>3 DEF SeedSends, Deliver, IsCurrent, Logs
    <3> QED
      BY <1>5, <2>2, <2>3, <3>1, CoverKept DEF SeedSends, Shape
  <2>4. ASSUME seeding[c] = s, c \in open PROVE CoveredAt(c)'
    <3>1. <<x>> \in Seq(Item) /\ Len(<<x>>) = 1 /\ <<x>>[1] = x
      OBVIOUS
    <3>2. Appends(c, <<x>>)
      BY <1>5, <2>c, <2>x, <2>4 DEF SeedSends, Deliver, IsCurrent, Logs, Appends
    <3>3. \A v : Seen(c, v) => Seen(c, v)'
      BY <3>1, <3>2, SeenOnce
    <3>4. \A v \in 1..version : v <= call[s].read => Seen(c, v)'
      <4>1. SUFFICES ASSUME NEW v \in 1..version, v <= call[s].read PROVE Seen(c, v)'
        OBVIOUS
      <4>2. x.at >= v
        BY <2>1, <2>x, <4>1
      <4> DEFINE y == <<x>>
      <4> HIDE DEF y
      <4>3. y \in Seq(Item) /\ 1 \in 1..Len(y) /\ y[1].kind = "snapshot" /\ y[1].at >= v /\ Appends(c, y)
        BY <2>x, <3>1, <3>2, <4>2 DEF y
      <4> QED
        BY <4>3, SeenOnce
    <3>5. \A v : Queued(c, v)' = Queued(c, v)
      BY <1>5 DEF SeedSends, Queued
    <3>6. \A v : Promised(c, v) => v <= call[s].read
      BY <2>2, <2>4 DEF Promised
    <3>7. since[c] \in Nat /\ version \in Nat
      BY DEF Logs, Shape
    <3>8. \A v \in since[c] + 1 .. version : v \in 1..version
      BY <3>7
    <3>9. UNCHANGED <<version, open, live, seeding, queue, since>>
      BY <1>5 DEF SeedSends
    <3> QED
      BY <2>4, <3>3, <3>4, <3>5, <3>6, <3>8, <3>9 DEF Covered, CoveredAt
  <2>5. ASSUME NEW d \in Conn, seeding[d] = s PROVE d = c
    BY <2>c, <2>5 DEF SeedsRun
  <2>6. c \notin open => CoveredAt(c)'
    BY <1>5 DEF SeedSends, CoveredAt
  <2> QED
    BY <2>3, <2>4, <2>5, <2>6 DEF Covered
<1>6. ASSUME NEW s \in Seed, SeedReturns(s) \/ SeedThrows(s) PROVE Covered'
  <2>c. PICK c \in Conn : c = call[s].conn
    BY <1>6 DEF SeedReturns, SeedThrows, Shape
  <2>1. version' = version /\ open' = open /\ \A q \in Seed : q # s => call'[q] = call[q]
    BY <1>6 DEF SeedReturns, SeedThrows, Shape
  <2>2. ASSUME NEW d \in Conn, seeding[d] # s PROVE CoveredAt(d)'
    <3>1. CASE IsCurrent(s)
      <4>1. d # c /\ Settle(c)
        BY <1>6, <2>c, <2>2, <3>1 DEF SeedReturns, SeedThrows, IsCurrent
      <4>2. received'[d] = received[d] /\ queue'[d] = queue[d] /\ seeding'[d] = seeding[d]
        BY <4>1, SettleEffect DEF Shape, Logs
      <4>3. d \in live' => d \in live /\ since'[d] = since[d]
        BY <1>6, <2>c, <3>1, <4>1 DEF SeedReturns, SeedThrows, Logs
      <4>4. seeding[d] = None \/ call'[seeding[d]] = call[seeding[d]]
        BY <2>1, <2>2 DEF Shape
      <4> QED
        BY <2>1, <4>2, <4>3, <4>4, CoverKept
    <3>2. CASE ~IsCurrent(s)
      <4>1. UNCHANGED <<received, queue, seeding, live, since>>
        BY <1>6, <3>2 DEF SeedReturns, SeedThrows
      <4>2. seeding[d] = None \/ call'[seeding[d]] = call[seeding[d]]
        BY <2>1, <2>2 DEF Shape
      <4> QED
        BY <2>1, <4>1, <4>2, CoverKept
    <3> QED
      BY <3>1, <3>2
  <2>3. ASSUME NEW d \in Conn, seeding[d] = s PROVE CoveredAt(d)'
    <3>1. d = c /\ IsCurrent(s)
      BY <2>c, <2>3 DEF SeedsRun, IsCurrent
    <3>2. Settle(c)
      BY <1>6, <2>c, <3>1 DEF SeedReturns, SeedThrows
    <3>3. seeding'[c] = None /\ queue'[c] = <<>>
      BY <3>2, SettleEffect DEF Shape, Logs
    <3>4. SUFFICES ASSUME c \in open, c \in live', NEW v \in since'[c] + 1 .. version'
                   PROVE  Seen(c, v)'
      BY <2>1, <3>1, <3>3 DEF CoveredAt
    <3>5. since[c] \in Nat /\ version \in Nat
      BY DEF Logs, Shape
    <3>6. CASE SeedThrows(s)
      <4>1. ~call[s].late /\ c \in live /\ since' = since
        BY <3>4, <3>6 DEF SeedThrows, MayThrow
      <4>2. v \in since[c] + 1 .. version
        BY <2>1, <3>4, <4>1
      <4>3. Seen(c, v) \/ Queued(c, v)
        BY <2>3, <3>1, <3>4, <4>1, <4>2 DEF Covered, CoveredAt
      <4> QED
        BY <2>1, <3>2, <3>4, <4>3, SettleCovers
    <3>7. CASE SeedReturns(s)
      <4>1. ~Promised(c, v)
        BY <2>3, <3>1, <3>7 DEF SeedReturns, Promised
      <4>2. CASE c \in live
        <5>1. v \in since[c] + 1 .. version
          BY <2>1, <2>c, <3>1, <3>4, <3>7, <4>2 DEF SeedReturns
        <5>2. Seen(c, v) \/ Queued(c, v)
          BY <3>4, <4>1, <4>2, <5>1 DEF Covered, CoveredAt
        <5> QED
          BY <2>1, <3>2, <3>4, <5>2, SettleCovers
      <4>3. CASE c \notin live
        <5>1. since'[c] = 0
          BY <2>c, <3>1, <3>7, <4>3 DEF SeedReturns, Logs
        <5>2. v \in 1..version
          BY <2>1, <3>4, <3>5, <5>1
        <5>3. Seen(c, v) \/ Queued(c, v)
          BY <2>3, <3>1, <3>4, <4>1, <5>2 DEF Covered, CoveredAt
        <5> QED
          BY <2>1, <3>2, <3>4, <5>3, SettleCovers
      <4> QED
        BY <4>2, <4>3
    <3> QED
      BY <1>6, <3>6, <3>7
  <2> QED
    BY <2>2, <2>3 DEF Covered
<1>7. CASE Send
  <2>1. version' = version + 1 /\ version \in Nat /\ UNCHANGED <<open, live, seeding, call, since>>
    BY <1>7 DEF Send, Shape
  <2>2. version' \in Nat /\ Frame(version') \in Item
    BY <2>1 DEF Frame, Item
  <2>3. ASSUME NEW c \in Conn, c \in open PROVE CoveredAt(c)'
    <3>0. queue[c] \in Seq(Nat) /\ received[c] \in Seq(Item) /\ since[c] \in Nat
      BY DEF Logs
    <3>1. CASE seeding[c] # None
      <4>1. received'[c] = received[c] /\ queue'[c] = Append(queue[c], version')
        BY <1>7, <3>1 DEF Send
      <4>2. /\ Len(queue'[c]) = Len(queue[c]) + 1 /\ queue'[c][Len(queue[c]) + 1] = version'
            /\ Len(queue[c]) \in Nat
            /\ \A i \in 1..Len(queue[c]) : queue'[c][i] = queue[c][i]
        BY <2>2, <3>0, <4>1, AppendProperties, LenProperties
      <4>3. \A v : Queued(c, v) => Queued(c, v)'
        <5>1. SUFFICES ASSUME NEW v, Queued(c, v) PROVE Queued(c, v)'
          OBVIOUS
        <5>2. PICK i \in 1..Len(queue[c]) : queue[c][i] = v
          BY <5>1 DEF Queued
        <5>3. i \in 1..Len(queue'[c]) /\ queue'[c][i] = v
          BY <4>2, <5>2
        <5> QED
          BY <5>3 DEF Queued
      <4>w. PICK w : w = version'
        OBVIOUS
      <4>9. Queued(c, w)'
        <5>1. Len(queue[c]) + 1 \in 1..Len(queue'[c])
          BY <4>2
        <5> QED
          BY <4>2, <4>w, <5>1 DEF Queued
      <4>4. \A v : Seen(c, v)' = Seen(c, v) /\ Promised(c, v)' = Promised(c, v)
        BY <2>1, <4>1 DEF Seen, Promised
      <4>5. \A v : v \in 1..version' => v \in 1..version \/ v = version'
        BY <2>1
      <4>6. \A v : v \in since[c] + 1 .. version' => v \in since[c] + 1 .. version \/ v = version'
        BY <2>1, <3>0
      <4>7. \A v \in since[c] + 1 .. version' :
              c \in live => Seen(c, v)' \/ Queued(c, v)' \/ (Promised(c, v)' /\ call[seeding[c]].late)
        <5>1. SUFFICES ASSUME c \in live, NEW v \in since[c] + 1 .. version', v # version'
                       PROVE  Seen(c, v)' \/ Queued(c, v)' \/ (Promised(c, v)' /\ call[seeding[c]].late)
          BY <4>w, <4>9
        <5>2. v \in since[c] + 1 .. version
          BY <4>6, <5>1
        <5>3. Seen(c, v) \/ Queued(c, v) \/ (Promised(c, v) /\ call[seeding[c]].late)
          BY <2>3, <5>1, <5>2 DEF Covered, CoveredAt
        <5> QED
          BY <4>3, <4>4, <5>3
      <4>8. \A v \in 1..version' : Seen(c, v)' \/ Queued(c, v)' \/ Promised(c, v)'
        <5>1. SUFFICES ASSUME NEW v \in 1..version', v # version'
                       PROVE  Seen(c, v)' \/ Queued(c, v)' \/ Promised(c, v)'
          BY <4>w, <4>9
        <5>2. v \in 1..version
          BY <4>5, <5>1
        <5>3. Seen(c, v) \/ Queued(c, v) \/ Promised(c, v)
          BY <2>3, <3>1, <5>2 DEF Covered, CoveredAt
        <5> QED
          BY <4>3, <4>4, <5>3
      <4> QED
        BY <2>1, <3>1, <4>7, <4>8 DEF CoveredAt
    <3>2. CASE seeding[c] = None
      <4>1. queue'[c] = <<>>
        BY <1>7, <3>2 DEF Send
      <4>2. SUFFICES ASSUME c \in live, NEW v \in since[c] + 1 .. version' PROVE Seen(c, v)'
        BY <2>1, <3>2, <4>1 DEF CoveredAt
      <4>3. received'[c] = Append(received[c], Frame(version'))
        BY <1>7, <2>3, <3>2, <4>2 DEF Send
      <4>4. received'[c] = received[c] \o <<Frame(version')>>
        BY <2>2, <3>0, <4>3, AppendIsConcat
      <4> DEFINE x == <<Frame(version')>>
      <4>5. x \in Seq(Item) /\ Len(x) = 1 /\ x[1] = Frame(version')
        BY <2>2
      <4> HIDE DEF x
      <4>6. Appends(c, x)
        BY <4>4 DEF Appends, x
      <4>7. CASE v = version'
        <5>1. 1 \in 1..Len(x) /\ x[1] = Frame(v)
          BY <4>5, <4>7
        <5> QED
          BY <4>5, <4>6, <5>1, SeenOnce
      <4>8. CASE v # version'
        <5>1. v \in since[c] + 1 .. version
          BY <2>1, <3>0, <4>8
        <5>2. ~Queued(c, v) /\ ~Promised(c, v)
          BY <2>3, <3>2, EmptySeq DEF Covered, CoveredAt, Queued, Promised
        <5>3. Seen(c, v)
          BY <2>3, <4>2, <5>1, <5>2 DEF Covered, CoveredAt
        <5> QED
          BY <4>5, <4>6, <5>3, SeenOnce
      <4> QED
        BY <4>7, <4>8
    <3> QED
      BY <3>1, <3>2
  <2> QED
    BY <2>1, <2>3 DEF Covered, CoveredAt
<1>8. CASE UNCHANGED vars
  BY <1>8, CoverKept DEF vars, Covered
<1> QED
  BY <1>1, <1>2, <1>3, <1>4, <1>5, <1>6, <1>7, <1>8 DEF Next

\* As long as a seed that superseded another does not throw, a member that is not
\* being seeded has been shown every change since it joined, and a seeded one every
\* change there ever was.
THEOREM MembersMissNothingTheorem ==
  ASSUME LateSeedsThrow = FALSE
  PROVE  Spec => []MembersMissNothing
<1> DEFINE CInv == Shape /\ Logs /\ SeedsRun /\ NoneReadsAhead /\ Covered
<1>1. Init => CInv
  <2>1. Init => Covered
    BY DEF Init, Covered, CoveredAt
  <2> QED
    BY <2>1, ShapeInit, OrderInit
<1>2. CInv /\ [Next]_vars => CInv'
  BY ShapeStep, LogsStep, SeedsRunStep, NoneReadsAheadStep, CoveredStep
<1>3. CInv => MembersMissNothing
  <2> SUFFICES ASSUME CInv, NEW c \in live \cap open, seeding[c] = None, NEW v \in since[c] + 1 .. version
               PROVE  Seen(c, v)
    BY DEF MembersMissNothing
  <2>1. c \in Conn
    BY DEF Shape
  <2>2. ~Queued(c, v) /\ ~Promised(c, v)
    BY <2>1, EmptySeq DEF Covered, CoveredAt, Queued, Promised
  <2> QED
    BY <2>1, <2>2 DEF Covered, CoveredAt
<1> QED
  BY <1>1, <1>2, <1>3, PTL DEF Spec
=============================================================================

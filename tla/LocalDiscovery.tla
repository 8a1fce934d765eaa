--------------------------- MODULE LocalDiscovery ---------------------------
(***************************************************************************)
(* Runtimes that elect a discovery router by its port                      *)
(* (GGLocalDiscoveryResilientClient), the router of the one that holds it  *)
(* (GGLocalDiscoveryServer over IPCServer), and the standalone router      *)
(* (bin/discovery-local.ts), which asks the holder to yield.               *)
(* Each runtime registers the route of one API. A client's parallel        *)
(* connects count as one connection: they end at the same router.          *)
(***************************************************************************)
EXTENDS Naturals

CONSTANTS
  Runtime, Bin, None,
  Api,       \* of each runtime; replicas share theirs
  MaxFalls   \* bound: processes that crash or get SIGTERM, standalone routers that end

ASSUME DiscoveryAssumption ==
  /\ Bin \notin Runtime /\ None \notin Runtime /\ Bin # None
  /\ MaxFalls \in Nat

VARIABLES
  holder,    \* who listens on the port, with an empty table at first
  routes,    \* runtimes with a route in the holder's table
  leaving,   \* connections closed by their client, not yet by the router
  conn,      \* of each runtime's IPCClient: "none", "open", "lost" (closed by
             \* the router, and the client has not heard)
  wired,     \* connections with the onClose handler of connectToLeader
  seenBin,   \* runtimes with seenBinBasedMaster
  promoted,  \* history: leaders that were elected after their start
  unjoined,  \* history: runtimes that registered without connectToLeader
  join,      \* of each runtime: where becomeLeaderOrFollower is
  start,     \* of each runtime: where register() is
  stop,      \* of each runtime: where unregister() is, until the process is gone
  bin,       \* "down", "bidding", "up"
  due, torn, \* runtimes asked to yield, and those whose router is torn down for it
  falls

network == <<routes, leaving, conn, wired>>
election == <<seenBin, promoted, unjoined, join>>
standalone == <<bin, due, torn>>
vars == <<holder, network, election, start, stop, standalone, falls>>

Holder == Runtime \cup {Bin, None}
Asking == {"asking", "publishing", "wiring"}

TypeOK ==
  /\ holder \in Holder /\ falls \in 0..MaxFalls
  /\ routes \subseteq Runtime /\ leaving \subseteq Runtime /\ wired \subseteq Runtime
  /\ conn \in [Runtime -> {"none", "open", "lost"}]
  /\ seenBin \subseteq Runtime /\ promoted \subseteq Runtime /\ unjoined \subseteq Runtime
  /\ join \in [Runtime -> {"none", "bidding", "connecting", "waiting"} \cup Asking]
  /\ start \in [Runtime -> {"none", "joining", "connecting", "publishing", "done", "failed"}]
  /\ stop \in [Runtime -> {"no", "unregistering", "leaving", "stopped", "gone", "crashed"}]
  /\ bin \in {"down", "bidding", "up"} /\ (bin = "up" <=> holder = Bin)
  /\ due \subseteq Runtime /\ torn \subseteq Runtime
  /\ \A r \in wired : conn[r] # "none" /\ join[r] = "none"

Init ==
  /\ holder = None /\ falls = 0
  /\ routes = {} /\ leaving = {} /\ wired = {}
  /\ conn = [r \in Runtime |-> "none"]
  /\ seenBin = {} /\ promoted = {} /\ unjoined = {}
  /\ join = [r \in Runtime |-> "none"]
  /\ start = [r \in Runtime |-> "none"] /\ stop = [r \in Runtime |-> "no"]
  /\ bin = "down" /\ due = {} /\ torn = {}

Set(f, r, x) == [f EXCEPT ![r] = x]
isShuttingDown(r) == stop[r] # "no"
Serving(r) == start[r] = "done" /\ stop[r] = "no"
Withdraws(q) == stop[q] \notin {"no", "crashed"}

\* The router of the holder ends: its table, its connections and the port are gone.
RouterEnds(open) ==
  /\ holder' = None /\ routes' = {} /\ leaving' = {}
  /\ conn' = [r \in Runtime |-> IF open[r] = "open" THEN "lost" ELSE open[r]]

-----------------------------------------------------------------------------
(* becomeLeaderOrFollower and connectToLeader.                             *)

\* The election is over, and a register() that waits for it goes on.
JoinEnds(r) ==
  /\ join' = Set(join, r, "none")
  /\ start' = IF start[r] = "joining" THEN Set(start, r, "connecting") ELSE start

ConnectToLeader(r) ==
  IF isShuttingDown(r) THEN JoinEnds(r)
  ELSE join' = Set(join, r, "connecting") /\ UNCHANGED start

BecomeLeaderOrFollower(r) == Set(join, r, IF r \in seenBin THEN "connecting" ELSE "bidding")

\* router.start() answers. Nobody asks any more whether the runtime shuts down.
Bind(r) ==
  /\ join[r] = "bidding"
  /\ IF holder = None
     THEN /\ holder' = r /\ JoinEnds(r)
          /\ promoted' = IF start[r] = "done" THEN promoted \cup {r} ELSE promoted
     ELSE ConnectToLeader(r) /\ UNCHANGED <<holder, promoted>>
  /\ UNCHANGED <<network, seenBin, unjoined, stop, standalone, falls>>

\* client.connect(): at once when there is a connection; refused when the port is free.
Connects(r) ==
  /\ r \notin leaving
  /\ conn[r] # "none" \/ holder # None
  /\ conn' = IF conn[r] = "none" THEN Set(conn, r, "open") ELSE conn

Connect(r) ==
  /\ join[r] = "connecting" /\ Connects(r)
  /\ join' = Set(join, r, IF r \in seenBin THEN "publishing" ELSE "asking")
  /\ UNCHANGED <<holder, routes, leaving, wired, seenBin, promoted, unjoined, start, stop, standalone, falls>>

Refused(r) ==
  /\ join[r] = "connecting" /\ conn[r] = "none" /\ holder = None
  /\ join' = Set(join, r, "waiting")
  /\ UNCHANGED <<holder, network, seenBin, promoted, unjoined, start, stop, standalone, falls>>

\* After a second connectToLeader tries again; it never bids.
Retry(r) ==
  /\ join[r] = "waiting" /\ ConnectToLeader(r)
  /\ UNCHANGED <<holder, network, seenBin, promoted, unjoined, stop, standalone, falls>>

\* getServerInfo answers.
ServerInfo(r) ==
  /\ join[r] = "asking" /\ conn[r] = "open"
  /\ seenBin' = IF holder = Bin THEN seenBin \cup {r} ELSE seenBin
  /\ join' = Set(join, r, "publishing")
  /\ UNCHANGED <<holder, network, promoted, unjoined, start, stop, standalone, falls>>

\* The router adds the route, in place of one the client registered before.
Register(r) ==
  /\ join[r] = "publishing" /\ conn[r] = "open"
  /\ routes' = routes \cup {r} /\ join' = Set(join, r, "wiring")
  /\ UNCHANGED <<holder, leaving, conn, wired, seenBin, promoted, unjoined, start, stop, standalone, falls>>

\* Mutant: the follower does not watch its leader.
JoinedUnwired(r) ==
  /\ join[r] = "wiring" /\ conn[r] = "open" /\ JoinEnds(r)
  /\ UNCHANGED <<holder, network, seenBin, promoted, unjoined, stop, standalone, falls>>

Joined(r) ==
  /\ join[r] = "wiring" /\ conn[r] = "open" /\ JoinEnds(r)
  /\ wired' = wired \cup {r}
  /\ UNCHANGED <<holder, routes, leaving, conn, seenBin, promoted, unjoined, stop, standalone, falls>>

\* Requests on a connection that closed are rejected.
Rejected(r) == IF join[r] \in Asking THEN Set(join, r, "waiting") ELSE join
StartRejected(r) == IF start[r] = "publishing" THEN Set(start, r, "failed") ELSE start

\* The client hears that the router closed its connection.
CloseSeen(r) ==
  /\ conn[r] = "lost" /\ conn' = Set(conn, r, "none") /\ wired' = wired \ {r}
  /\ IF r \in wired /\ ~isShuttingDown(r)
     THEN join' = BecomeLeaderOrFollower(r) ELSE join' = Rejected(r)
  /\ start' = StartRejected(r)
  /\ stop' = IF stop[r] = "unregistering" THEN Set(stop, r, "leaving") ELSE stop
  /\ UNCHANGED <<holder, routes, leaving, seenBin, promoted, unjoined, standalone, falls>>

-----------------------------------------------------------------------------
(* register(), discoverApi() and unregister() of a runtime.                *)

Start(r) ==
  /\ start[r] = "none" /\ stop[r] = "no"
  /\ IF conn[r] = "none"
     THEN /\ start' = Set(start, r, "joining") /\ join' = BecomeLeaderOrFollower(r)
          /\ UNCHANGED unjoined
     ELSE /\ start' = Set(start, r, "publishing") /\ unjoined' = unjoined \cup {r}
          /\ UNCHANGED join
  /\ UNCHANGED <<holder, network, seenBin, promoted, stop, standalone, falls>>

StartConnects(r) ==
  /\ start[r] = "connecting" /\ Connects(r)
  /\ start' = Set(start, r, "publishing")
  /\ UNCHANGED <<holder, routes, leaving, wired, election, stop, standalone, falls>>

StartPublishes(r) ==
  /\ start[r] = "publishing" /\ conn[r] = "open"
  /\ routes' = routes \cup {r} /\ start' = Set(start, r, "done")
  /\ UNCHANGED <<holder, leaving, conn, wired, election, stop, standalone, falls>>

\* The retries of ensureConnected are used up.
StartGivesUp(r) ==
  /\ start[r] = "connecting" /\ conn[r] = "none" /\ holder = None
  /\ start' = Set(start, r, "failed")
  /\ UNCHANGED <<holder, network, election, stop, standalone, falls>>

DiscoverApi(r) ==
  /\ conn[r] = "none" /\ stop[r] = "no"
  /\ Connects(r)
  /\ UNCHANGED <<holder, routes, leaving, wired, election, start, stop, standalone, falls>>

\* SIGTERM, or a start that failed: the teardown of the runtime calls unregister().
Stop(r) ==
  /\ stop[r] = "no" /\ start[r] # "none"
  /\ IF start[r] = "failed" THEN UNCHANGED falls
     ELSE falls < MaxFalls /\ falls' = falls + 1
  /\ stop' = Set(stop, r, IF conn[r] = "none" THEN "leaving" ELSE "unregistering")
  /\ UNCHANGED <<holder, network, election, start, standalone>>

\* removeRoute(route.api) without a baseUrl: the replicas' routes go too.
Unregister(r) ==
  /\ stop[r] = "unregistering" /\ conn[r] = "open"
  /\ routes' = {q \in routes : Api[q] # Api[r]}
  /\ stop' = Set(stop, r, "leaving")
  /\ UNCHANGED <<holder, leaving, conn, wired, election, start, standalone, falls>>

\* What closing the client, and ending the router that r may run, does.
Closes(r) ==
  LET mine == Set(conn, r, "none")
      left == IF conn[r] = "open" THEN leaving \cup {r} ELSE leaving
  IN IF holder = r THEN RouterEnds(mine)
     ELSE conn' = mine /\ leaving' = left /\ UNCHANGED <<holder, routes>>

Leave(r) ==
  /\ stop[r] = "leaving" /\ stop' = Set(stop, r, "stopped")
  /\ Closes(r) /\ wired' = wired \ {r}
  /\ join' = Rejected(r) /\ start' = StartRejected(r)
  /\ UNCHANGED <<seenBin, promoted, unjoined, standalone, falls>>

Dies(r, how) ==
  /\ stop' = Set(stop, r, how) /\ Closes(r) /\ wired' = wired \ {r}
  /\ join' = Set(join, r, "none") /\ start' = Set(start, r, "none")
  /\ due' = due \ {r} /\ torn' = torn \ {r}
  /\ UNCHANGED <<seenBin, promoted, unjoined, bin>>

Exit(r) == stop[r] = "stopped" /\ Dies(r, "gone") /\ UNCHANGED falls

Crash(r) ==
  /\ start[r] # "none" /\ falls < MaxFalls
  /\ Dies(r, IF stop[r] = "no" THEN "crashed" ELSE "gone") /\ falls' = falls + 1

-----------------------------------------------------------------------------
(* The router hears of a closed connection; the standalone router.         *)

\* Mutant: the routes of the same API go with it, as in unregister.
EvictApi(r) ==
  /\ r \in leaving /\ leaving' = leaving \ {r}
  /\ routes' = {q \in routes : Api[q] # Api[r]}
  /\ UNCHANGED <<holder, conn, wired, election, start, stop, standalone, falls>>

Evict(r) ==
  /\ r \in leaving /\ leaving' = leaving \ {r} /\ routes' = routes \ {r}
  /\ UNCHANGED <<holder, conn, wired, election, start, stop, standalone, falls>>

BinStarts ==
  /\ bin = "down" /\ bin' = "bidding"
  /\ UNCHANGED <<holder, network, election, start, stop, due, torn, falls>>

BinBinds ==
  /\ bin = "bidding" /\ holder = None
  /\ bin' = "up" /\ holder' = Bin
  /\ UNCHANGED <<network, election, start, stop, due, torn, falls>>

RequestYield ==
  /\ bin = "bidding" /\ holder \in Runtime
  /\ due' = due \cup {holder}
  /\ UNCHANGED <<holder, network, election, start, stop, bin, torn, falls>>

\* The timer of requestYield: the router is torn down.
Yield(r) ==
  /\ r \in due /\ due' = due \ {r}
  /\ IF holder = r THEN RouterEnds(conn) /\ torn' = torn \cup {r}
     ELSE UNCHANGED <<holder, routes, leaving, conn, torn>>
  /\ UNCHANGED <<wired, election, start, stop, bin, falls>>

\* onYield.
Yielded(r) ==
  /\ r \in torn /\ torn' = torn \ {r}
  /\ seenBin' = seenBin \cup {r} /\ promoted' = promoted \ {r}
  /\ ConnectToLeader(r)
  /\ UNCHANGED <<holder, network, unjoined, stop, bin, due, falls>>

BinEnds ==
  /\ bin = "up" /\ falls < MaxFalls /\ falls' = falls + 1
  /\ bin' = "down" /\ RouterEnds(conn)
  /\ UNCHANGED <<wired, election, start, stop, due, torn>>

-----------------------------------------------------------------------------

Elects(r) == Bind(r) \/ Connect(r) \/ Refused(r) \/ Retry(r) \/ ServerInfo(r)
             \/ Register(r) \/ Joined(r) \/ CloseSeen(r)
Runs(r) == StartConnects(r) \/ StartPublishes(r) \/ Unregister(r) \/ Leave(r) \/ Exit(r)
           \/ (start[r] = "failed" /\ Stop(r))

Next ==
  \/ \E r \in Runtime :
       \/ Elects(r) \/ Runs(r) \/ Evict(r) \/ Yield(r) \/ Yielded(r)
       \/ Start(r) \/ StartGivesUp(r) \/ DiscoverApi(r) \/ Stop(r) \/ Crash(r)
  \/ BinStarts \/ BinBinds \/ RequestYield \/ BinEnds

\* Processes go on with what they do, and the router hears of what was closed.
Fairness == \A r \in Runtime :
  WF_vars(Elects(r)) /\ WF_vars(Runs(r)) /\ WF_vars(Yield(r) \/ Yielded(r)) /\ WF_vars(Evict(r))

Spec == Init /\ [][Next]_vars
FairSpec == Spec /\ Fairness

-----------------------------------------------------------------------------

\* A route leads to a client that is connected to the router, or whose close the
\* router will hear of, after any crashes, yields and elections.
RoutesAreOwned == \A r \in routes : conn[r] = "open" \/ r \in leaving

\* A runtime that knows of a standalone router never takes the port again, also
\* when it learned of it between its decisions.
LoyalToBin == [][\A r \in seenBin : holder' = r => holder = r]_vars

\* While its router stays, the route of a connected runtime goes only when a
\* runtime of that API unregisters.
OnlyItsApiWithdraws ==
  [][holder' = holder =>
       \A r \in routes \ routes' :
         conn[r] # "open" \/ \E q \in Runtime : Api[q] = Api[r] /\ Withdraws(q)]_vars

\* Whatever crashed, yielded and was elected before: once a router keeps the port,
\* it gets the routes of all running runtimes, unless a replica that shuts down
\* withdraws them. Two are excepted: a leader that was elected after its start, and
\* a runtime whose services called discoverApi before register().
StableRouterGathers ==
  \A h \in Runtime \cup {Bin}, r \in Runtime :
    <>[](holder = h) =>
      []<>(\/ r \in routes \/ ~Serving(r) \/ r \in promoted \cup unjoined
           \/ \E q \in Runtime \ {r} : Api[q] = Api[r] /\ Withdraws(q))

\* A follower that takes over as leader gets its own routes back.
NewLeaderIsRouted ==
  \A r \in Runtime :
    <>[](holder = r /\ r \in promoted) => []<>(r \in routes \/ ~Serving(r))

=============================================================================

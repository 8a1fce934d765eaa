------------------------ MODULE LocalDiscoveryProofs ------------------------
(***************************************************************************)
(* Theorems about LocalDiscovery, for any runtimes and APIs.               *)
(***************************************************************************)
EXTENDS LocalDiscovery, TLAPS

(***************************************************************************)
(* The inductive invariant. Who rules, or has just been told to stop       *)
(* ruling, takes part in no election and watches no leader, and neither    *)
(* does who has not started; who bids has not seen a standalone router;    *)
(* the router has yet to hear only of connections that are closed.         *)
(***************************************************************************)
RulersAreIdle ==
  \A r \in Runtime :
    /\ holder = r \/ r \in torn => r \notin wired /\ join[r] = "none"
    /\ r \in torn => holder # r
    /\ start[r] = "none" =>
         holder # r /\ r \notin torn /\ r \notin wired /\ join[r] = "none"
BiddersAreUnaware == \A r \in Runtime : join[r] = "bidding" => r \notin seenBin
LeavingAreClosed == \A r \in leaving : conn[r] # "open"

IInv ==
  TypeOK /\ RulersAreIdle /\ BiddersAreUnaware /\ LeavingAreClosed /\ RoutesAreOwned

Acts(r) ==
  \/ Elects(r) \/ Runs(r) \/ Evict(r) \/ Yield(r) \/ Yielded(r)
  \/ Start(r) \/ StartGivesUp(r) \/ DiscoverApi(r) \/ Stop(r) \/ Crash(r)

-----------------------------------------------------------------------------
(* What the helpers of the actions do to the network.                      *)

\* A connection is opened only when the router knows of no older one.
LEMMA ConnectsNetwork ==
  ASSUME IInv, NEW r \in Runtime, Connects(r)
  PROVE  /\ conn' \in [Runtime -> {"none", "open", "lost"}]
         /\ \A q \in Runtime : conn'[q] = conn[q] \/ (q = r /\ conn[q] = "none" /\ conn'[q] = "open")
         /\ r \notin leaving
  BY DEF Connects, IInv, TypeOK, Set

\* When a router ends, its clients' connections are lost, and nothing is left of its table.
LEMMA RouterEndsNetwork ==
  ASSUME NEW open \in [Runtime -> {"none", "open", "lost"}], RouterEnds(open)
  PROVE  /\ holder' = None /\ routes' = {} /\ leaving' = {}
         /\ conn' \in [Runtime -> {"none", "open", "lost"}]
         /\ \A q \in Runtime : conn'[q] # "open" /\ (conn'[q] = "none" <=> open[q] = "none")
  BY DEF RouterEnds

\* Who closes its client has no connection, and the router will hear of it.
LEMMA ClosesNetwork ==
  ASSUME IInv, NEW r \in Runtime, Closes(r)
  PROVE  /\ conn' \in [Runtime -> {"none", "open", "lost"}] /\ leaving' \subseteq Runtime
         /\ conn'[r] = "none" /\ routes' \subseteq routes /\ holder' \in {holder, None}
         /\ holder' = holder => holder # r /\ routes' = routes
         /\ holder' # holder => holder = r
         /\ \A q \in Runtime : q # r => (conn'[q] = "none" <=> conn[q] = "none")
         /\ LeavingAreClosed' /\ RoutesAreOwned'
<1> USE DEF IInv, TypeOK, Set, LeavingAreClosed, RoutesAreOwned
<1> DEFINE mine == [conn EXCEPT ![r] = "none"]
<1>1. mine \in [Runtime -> {"none", "open", "lost"}] OBVIOUS
<1>2. CASE holder = r
  <2>1. RouterEnds(mine) BY <1>2 DEF Closes
  <2> HIDE DEF mine
  <2>2. /\ holder' = None /\ routes' = {} /\ leaving' = {}
        /\ conn' \in [Runtime -> {"none", "open", "lost"}]
        /\ \A q \in Runtime : conn'[q] # "open" /\ (conn'[q] = "none" <=> mine[q] = "none")
    BY <1>1, <2>1, RouterEndsNetwork
  <2> QED BY <2>2, <1>2, DiscoveryAssumption DEF mine
<1>3. CASE holder # r BY <1>1, <1>3 DEF Closes
<1> QED BY <1>2, <1>3

-----------------------------------------------------------------------------

\* A step of a runtime keeps the invariant.
LEMMA ActsKeep ==
  ASSUME IInv, NEW r \in Runtime, Acts(r)
  PROVE  IInv'
<1> USE DiscoveryAssumption
     DEF IInv, TypeOK, RulersAreIdle, BiddersAreUnaware, LeavingAreClosed, RoutesAreOwned,
         Set, Asking, Holder, network, election, standalone
<1>1. CASE Bind(r) BY <1>1 DEF Bind, JoinEnds, ConnectToLeader, isShuttingDown
<1>2. CASE Connect(r) BY <1>2, ConnectsNetwork DEF Connect
<1>3. CASE Refused(r) BY <1>3 DEF Refused
<1>4. CASE Retry(r) BY <1>4 DEF Retry, JoinEnds, ConnectToLeader
<1>5. CASE ServerInfo(r) BY <1>5 DEF ServerInfo
<1>6. CASE Register(r) BY <1>6 DEF Register
<1>7. CASE Joined(r) BY <1>7 DEF Joined, JoinEnds
<1>8. CASE CloseSeen(r) BY <1>8 DEF CloseSeen, BecomeLeaderOrFollower, Rejected, StartRejected
<1>9. CASE StartConnects(r) BY <1>9, ConnectsNetwork DEF StartConnects
<1>10. CASE StartPublishes(r) BY <1>10 DEF StartPublishes
<1>11. CASE Unregister(r) BY <1>11 DEF Unregister
<1>12. CASE Leave(r) BY <1>12, ClosesNetwork DEF Leave, Rejected, StartRejected
<1>13. CASE Exit(r) BY <1>13, ClosesNetwork DEF Exit, Dies
<1>14. CASE Evict(r) BY <1>14 DEF Evict
<1>15. CASE Yield(r) BY <1>15, RouterEndsNetwork DEF Yield
<1>16. CASE Yielded(r)
  <2>1. CASE isShuttingDown(r) BY <1>16, <2>1 DEF Yielded, JoinEnds, ConnectToLeader
  <2>2. CASE ~isShuttingDown(r) BY <1>16, <2>2 DEF Yielded, ConnectToLeader
  <2> QED BY <2>1, <2>2
<1>17. CASE Start(r) BY <1>17 DEF Start, BecomeLeaderOrFollower
<1>18. CASE StartGivesUp(r) BY <1>18 DEF StartGivesUp
<1>19. CASE DiscoverApi(r) BY <1>19, ConnectsNetwork DEF DiscoverApi
<1>20. CASE Stop(r) BY <1>20 DEF Stop
<1>21. CASE Crash(r) BY <1>21, ClosesNetwork DEF Crash, Dies
<1> QED BY <1>1, <1>2, <1>3, <1>4, <1>5, <1>6, <1>7, <1>8, <1>9, <1>10, <1>11, <1>12, <1>13, <1>14, <1>15, <1>16, <1>17, <1>18, <1>19, <1>20, <1>21 DEF Acts, Elects, Runs

\* So does a step of the standalone router.
LEMMA RouterKeeps ==
  ASSUME IInv, BinStarts \/ BinBinds \/ RequestYield \/ BinEnds
  PROVE  IInv'
<1> USE DiscoveryAssumption
     DEF IInv, TypeOK, RulersAreIdle, BiddersAreUnaware, LeavingAreClosed, RoutesAreOwned,
         Asking, Holder, network, election
<1>1. CASE BinStarts BY <1>1 DEF BinStarts
<1>2. CASE BinBinds BY <1>2 DEF BinBinds
<1>3. CASE RequestYield BY <1>3 DEF RequestYield
<1>4. CASE BinEnds BY <1>4, RouterEndsNetwork DEF BinEnds
<1> QED BY <1>1, <1>2, <1>3, <1>4

LEMMA NextIsActs ==
  Next <=> (\E r \in Runtime : Acts(r)) \/ BinStarts \/ BinBinds \/ RequestYield \/ BinEnds
  BY DEF Next, Acts

LEMMA InvNext == IInv /\ [Next]_vars => IInv'
<1> SUFFICES ASSUME IInv, [Next]_vars PROVE IInv' OBVIOUS
<1>1. CASE UNCHANGED vars
  BY <1>1 DEF vars, network, election, standalone, IInv, TypeOK, RulersAreIdle,
              BiddersAreUnaware, LeavingAreClosed, RoutesAreOwned
<1>2. CASE Next BY <1>2, NextIsActs, ActsKeep, RouterKeeps
<1> QED BY <1>1, <1>2

LEMMA InvInit == Init => IInv
  BY DiscoveryAssumption DEF Init, IInv, TypeOK, RulersAreIdle, BiddersAreUnaware,
     LeavingAreClosed, RoutesAreOwned, Holder

LEMMA Invariant == Spec => []IInv
  BY InvInit, InvNext, PTL DEF Spec

\* Every reachable state of the runtimes and their routers is well typed.
THEOREM TypeOKTheorem == Spec => []TypeOK
<1>1. IInv => TypeOK BY DEF IInv
<1> QED BY <1>1, Invariant, PTL

\* A route leads to a client that is connected to the router, or whose close the
\* router will hear of.
THEOREM RoutesAreOwnedTheorem == Spec => []RoutesAreOwned
<1>1. IInv => RoutesAreOwned BY DEF IInv
<1> QED BY <1>1, Invariant, PTL

-----------------------------------------------------------------------------

\* A runtime takes the port only by a bid, and who bids has not seen a standalone router.
LEMMA LoyalStep ==
  IInv /\ [Next]_vars => [\A r \in seenBin : holder' = r => holder = r]_vars
<1> SUFFICES ASSUME IInv, Next PROVE \A r \in seenBin : holder' = r => holder = r
  OBVIOUS
<1> USE DiscoveryAssumption DEF IInv, TypeOK
<1>1. ASSUME NEW r \in Runtime, Acts(r), holder' # holder
      PROVE  holder' = None \/ (holder' = r /\ r \notin seenBin)
  <2>1. CASE Bind(r) BY <2>1, <1>1 DEF Bind, BiddersAreUnaware
  <2>2. CASE ~Bind(r)
    BY <2>2, <1>1, ClosesNetwork, RouterEndsNetwork
       DEF Acts, Elects, Runs, Connect, Refused, Retry, ServerInfo, Register, Joined,
           CloseSeen, StartConnects, StartPublishes, Unregister, Leave, Exit, Dies, Evict,
           Yield, Yielded, Start, StartGivesUp, DiscoverApi, Stop, Crash
  <2> QED BY <2>1, <2>2
<1>2. ASSUME BinStarts \/ BinBinds \/ RequestYield \/ BinEnds
      PROVE  holder' = holder \/ holder' \in {None, Bin}
  BY <1>2 DEF BinStarts, BinBinds, RequestYield, BinEnds, RouterEnds
<1> QED BY <1>1, <1>2, NextIsActs

\* A runtime that knows of a standalone router never takes the port again.
THEOREM LoyalToBinTheorem == Spec => LoyalToBin
  BY Invariant, LoyalStep, PTL DEF Spec, LoyalToBin

\* While a router stays, only unregister() and the end of a connection remove routes.
LEMMA WithdrawStep ==
  ASSUME IInv, Next, holder' = holder, NEW r \in routes \ routes', conn[r] = "open"
  PROVE  \E q \in Runtime : Api[q] = Api[r] /\ Withdraws(q)
<1> USE DiscoveryAssumption DEF IInv, TypeOK
<1>1. ASSUME NEW q \in Runtime, Acts(q) PROVE Api[q] = Api[r] /\ Withdraws(q)
  <2>1. CASE Unregister(q) BY <2>1 DEF Unregister, Withdraws
  <2>2. CASE Evict(q) BY <2>2 DEF Evict, LeavingAreClosed
  <2>3. CASE ~Unregister(q) /\ ~Evict(q)
    BY <2>3, <1>1, ClosesNetwork, RouterEndsNetwork
       DEF Acts, Elects, Runs, Bind, Connect, Refused, Retry, ServerInfo, Register, Joined,
           CloseSeen, StartConnects, StartPublishes, Leave, Exit, Dies,
           Yield, Yielded, Start, StartGivesUp, DiscoverApi, Stop, Crash, network
  <2> QED BY <2>1, <2>2, <2>3
<1>2. ASSUME BinStarts \/ BinBinds \/ RequestYield \/ BinEnds PROVE FALSE
  BY <1>2 DEF BinStarts, BinBinds, RequestYield, BinEnds, RouterEnds, network
<1> QED BY <1>1, <1>2, NextIsActs

\* While its router stays, the route of a connected runtime goes only when a runtime
\* of that API unregisters.
THEOREM OnlyItsApiWithdrawsTheorem == Spec => OnlyItsApiWithdraws
<1>1. IInv /\ [Next]_vars =>
        [holder' = holder =>
           \A r \in routes \ routes' :
             conn[r] # "open" \/ \E q \in Runtime : Api[q] = Api[r] /\ Withdraws(q)]_vars
  BY WithdrawStep
<1> QED BY <1>1, Invariant, PTL DEF Spec, OnlyItsApiWithdraws
=============================================================================

----------------------------- MODULE AuthSession -----------------------------
(***************************************************************************)
(* GGAuthSession in token mode: the tabs of one browser share a cache      *)
(* (localStorage), a lock (navigator.locks) and the storage events that    *)
(* tell each tab what another one wrote. The server rotates refresh tokens *)
(* under the strict policy (RefreshTokens has its details).                *)
(*                                                                         *)
(* A pair is the access and the refresh token of one answer; pairs are     *)
(* numbered in the order in which the server makes them, and age in it.    *)
(***************************************************************************)
EXTENDS Integers, Sequences

CONSTANTS
  Tab,
  MaxPair     \* bound on pairs

ASSUME SessionAssumption == MaxPair \in Nat

VARIABLES
  calm,       \* navigator.locks is there, the server's answers get through, and they
              \* and the storage events arrive before any token ages; else, none of it
  latest,     \* pairs made
  login,      \* of each pair: the pair its login gave, which it descends from
  live,       \* pairs whose refresh token can be redeemed
  near, dead, gone,  \* pairs whose access token is within the lead time, expired;
                     \* whose refresh token is expired
  cache,      \* the pair in localStorage
  events,     \* of each tab: what the storage events on their way carry
  shared,     \* of each tab: the pair it uses
  refresh,    \* of each tab's refresh: where it is
  asked,      \* of each tab: the pair it redeems
  answer,     \* of each tab: the new pair, Refused, or NoPair when not answered
  out         \* for the properties: nobody logged in since the last logout

ages == <<near, dead, gone>>
server == <<latest, login, live>>
tabs == <<shared, refresh, asked, answer>>
sessionVars == <<calm, ages, server, cache, events, tabs, out>>

Pair == 1..MaxPair
NoPair == 0
Refused == -1

SessionTypeOK ==
  /\ {calm, out} \subseteq BOOLEAN
  /\ latest \in 0..MaxPair /\ login \in [Pair -> 0..latest] /\ live \subseteq 1..latest
  /\ gone <= dead /\ dead <= near /\ near <= latest /\ gone >= 0
  /\ cache \in 0..latest
  /\ \A t \in Tab : \A i \in DOMAIN events[t] : events[t][i] \in 0..latest
  /\ shared \in [Tab -> 0..latest]
  /\ refresh \in [Tab -> {"idle", "waiting", "asking"}]
  /\ \A t \in Tab : refresh[t] # "asking" => asked[t] = NoPair /\ answer[t] = NoPair
  /\ asked \in [Tab -> 0..latest] /\ answer \in [Tab -> {Refused} \cup 0..latest]

SessionInit ==
  /\ calm \in BOOLEAN
  /\ latest = 0 /\ login = [p \in Pair |-> 0] /\ live = {}
  /\ near = 0 /\ dead = 0 /\ gone = 0
  /\ cache = NoPair /\ events = [t \in Tab |-> <<>>]
  /\ shared = [t \in Tab |-> NoPair] /\ refresh = [t \in Tab |-> "idle"]
  /\ asked = [t \in Tab |-> NoPair] /\ answer = [t \in Tab |-> NoPair]
  /\ out = FALSE

\* A write that changes the cache sends a storage event to the other tabs.
CacheWrite(t, p) ==
  /\ cache' = p
  /\ events' = IF p = cache THEN events
               ELSE [u \in Tab |-> IF u = t THEN events[u] ELSE Append(events[u], p)]

Share(t, p) == shared' = [shared EXCEPT ![t] = p]

RefreshEnds(t) ==
  /\ refresh' = [refresh EXCEPT ![t] = "idle"]
  /\ asked' = [asked EXCEPT ![t] = NoPair] /\ answer' = [answer EXCEPT ![t] = NoPair]

-----------------------------------------------------------------------------
(* The user and the browser.                                               *)

\* start() with the pair of a new login.
Start(t) ==
  LET p == latest + 1 IN
  /\ shared[t] = NoPair /\ latest < MaxPair
  /\ latest' = p /\ live' = live \cup {p} /\ login' = [login EXCEPT ![p] = p]
  /\ Share(t, p) /\ CacheWrite(t, p)
  /\ out' = FALSE
  /\ UNCHANGED <<ages, refresh, asked, answer>>

Logout(t) ==
  /\ shared[t] # NoPair
  /\ Share(t, NoPair) /\ CacheWrite(t, NoPair)
  /\ out' = TRUE
  /\ UNCHANGED <<ages, server, refresh, asked, answer>>

\* onCrossTab: the tab believes what the event carries.
OnCrossTab(t) ==
  /\ events[t] # <<>>
  /\ Share(t, Head(events[t]))
  /\ events' = [events EXCEPT ![t] = Tail(@)]
  /\ UNCHANGED <<ages, server, cache, refresh, asked, answer, out>>

\* A reload forgets everything and init() adopts the cache.
Reload(t) ==
  /\ calm => refresh[t] # "asking"
  /\ Share(t, cache)
  /\ events' = [events EXCEPT ![t] = <<>>]
  /\ RefreshEnds(t)
  /\ UNCHANGED <<ages, server, cache, out>>

Age ==
  /\ calm => \A t \in Tab : events[t] = <<>> /\ answer[t] = NoPair
  /\ \/ near < latest /\ near' = near + 1 /\ UNCHANGED <<dead, gone>>
     \/ dead < near /\ dead' = dead + 1 /\ UNCHANGED <<near, gone>>
     \/ gone < dead /\ gone' = gone + 1 /\ UNCHANGED <<near, dead>>
  /\ UNCHANGED <<server, cache, events, tabs, out>>

-----------------------------------------------------------------------------
(* The refresh of a tab.                                                   *)

EnsureFresh(t) ==
  /\ refresh[t] = "idle" /\ shared[t] <= near
  /\ refresh' = [refresh EXCEPT ![t] = "waiting"]
  /\ UNCHANGED <<ages, server, cache, events, shared, asked, answer, out>>

LockIsFree(t) == calm => \A u \in Tab : refresh[u] # "asking"
Enters(t) == refresh[t] = "waiting" /\ LockIsFree(t)

OthersPairIsCached(t) == cache > dead /\ cache # shared[t]

AcquireTimesOut(t) ==
  /\ refresh[t] = "waiting" /\ ~LockIsFree(t)
  /\ RefreshEnds(t)
  /\ UNCHANGED <<ages, server, cache, events, shared, out>>

Adopt(t) ==
  /\ Enters(t) /\ OthersPairIsCached(t)
  /\ Share(t, cache) /\ RefreshEnds(t)
  /\ UNCHANGED <<ages, server, cache, events, out>>

FindFresh(t) ==
  /\ Enters(t) /\ ~OthersPairIsCached(t) /\ shared[t] > near
  /\ RefreshEnds(t)
  /\ UNCHANGED <<ages, server, cache, events, shared, out>>

\* Mutant: whatever is cached by now is wiped.
ExpireRoughly(t, stale) ==
  IF shared[t] = NoPair THEN UNCHANGED <<shared, cache, events>>
  ELSE Share(t, NoPair) /\ CacheWrite(t, NoPair)

\* toExpired: another tab's pair is left in the cache.
Expire(t, stale) ==
  IF shared[t] = NoPair THEN UNCHANGED <<shared, cache, events>>
  ELSE /\ Share(t, NoPair)
       /\ IF cache = stale THEN CacheWrite(t, NoPair) ELSE UNCHANGED <<cache, events>>

CannotRefresh(t) ==
  /\ Enters(t) /\ ~OthersPairIsCached(t) /\ shared[t] <= near
  /\ shared[t] <= gone
  /\ Expire(t, shared[t]) /\ RefreshEnds(t)
  /\ UNCHANGED <<ages, server, out>>

\* Mutant: a tab redeems its own token without a look at the cache.
AskOwn(t) ==
  /\ Enters(t) /\ shared[t] <= near
  /\ shared[t] > gone
  /\ refresh' = [refresh EXCEPT ![t] = "asking"] /\ asked' = [asked EXCEPT ![t] = shared[t]]
  /\ UNCHANGED <<ages, server, cache, events, shared, answer, out>>

Ask(t) ==
  /\ Enters(t) /\ ~OthersPairIsCached(t) /\ shared[t] <= near
  /\ shared[t] > gone
  /\ refresh' = [refresh EXCEPT ![t] = "asking"] /\ asked' = [asked EXCEPT ![t] = shared[t]]
  /\ UNCHANGED <<ages, server, cache, events, shared, answer, out>>

Asking(t) == refresh[t] = "asking" /\ answer[t] = NoPair

\* The server: a live token is rotated, a spent one revokes its login.
Redeem(t) ==
  LET p == asked[t]  q == latest + 1 IN
  /\ Asking(t) /\ latest < MaxPair
  /\ IF p \in live /\ p > gone
     THEN /\ latest' = q /\ live' = (live \ {p}) \cup {q}
          /\ login' = [login EXCEPT ![q] = login[p]]
          /\ answer' = [answer EXCEPT ![t] = q]
     ELSE /\ live' = IF p > gone THEN {r \in live : login[r] # login[p]} ELSE live
          /\ answer' = [answer EXCEPT ![t] = Refused]
          /\ UNCHANGED <<latest, login>>
  /\ UNCHANGED <<ages, cache, events, shared, refresh, asked, out>>

\* Mutant: the new pair is not written to the cache.
CommitHere(t) ==
  /\ refresh[t] = "asking" /\ answer[t] \in Pair
  /\ Share(t, answer[t]) /\ RefreshEnds(t)
  /\ UNCHANGED <<ages, server, cache, events, out>>

\* commitShared, whatever happened to the tab and the cache meanwhile.
Commit(t) ==
  /\ refresh[t] = "asking" /\ answer[t] \in Pair
  /\ Share(t, answer[t]) /\ CacheWrite(t, answer[t]) /\ RefreshEnds(t)
  /\ UNCHANGED <<ages, server, out>>

IsRefused(t) ==
  /\ refresh[t] = "asking" /\ answer[t] = Refused
  /\ Expire(t, asked[t]) /\ RefreshEnds(t)
  /\ UNCHANGED <<ages, server, out>>

\* markDegraded: the pair is kept for the next attempt.
RefreshFails(t) ==
  /\ Asking(t) \/ (~calm /\ refresh[t] = "asking")
  /\ RefreshEnds(t)
  /\ UNCHANGED <<ages, server, cache, events, shared, out>>

SessionNext ==
  /\ UNCHANGED calm
  /\ \/ Age
     \/ \E t \in Tab :
          \/ Start(t) \/ Logout(t) \/ OnCrossTab(t) \/ Reload(t)
          \/ EnsureFresh(t) \/ AcquireTimesOut(t) \/ Adopt(t) \/ FindFresh(t)
          \/ CannotRefresh(t) \/ Ask(t) \/ Redeem(t) \/ Commit(t) \/ IsRefused(t)
          \/ RefreshFails(t)

SessionSpec == SessionInit /\ [][SessionNext]_sessionVars

-----------------------------------------------------------------------------
(* Properties.                                                             *)

\* "a single-use refresh token is never replayed": of the login in the cache, a tab
\* redeems only the live token. (After a logout a waiting tab may replay the old one.)
NeverReplayed ==
  calm /\ cache # NoPair =>
    \A t \in Tab : Asking(t) /\ asked[t] > gone /\ login[asked[t]] = login[cache]
                    => asked[t] \in live

\* However tabs log in and out, refresh, adopt, fail and reload, the pair kept in
\* the cache can be redeemed, or is being redeemed: the session is not burned.
CacheIsRedeemable ==
  calm /\ cache > gone =>
    cache \in live \/ \E t \in Tab : refresh[t] = "asking" /\ asked[t] = cache

\* A tab that gives up never wipes a pair that still works, also without locks,
\* with lost answers and with late events.
OnlyDeadPairsAreWiped ==
  [][cache # NoPair /\ cache' = NoPair => out' \/ cache \notin live \/ cache <= gone]_sessionVars

\* logout "clears here and in every other tab": nothing comes back but by login.
LogoutSticks == out => cache = NoPair
=============================================================================

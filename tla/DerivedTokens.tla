---------------------------- MODULE DerivedTokens ----------------------------
(***************************************************************************)
(* The scoped tokens of GGAuthSession: one tab, one derived key. The tab   *)
(* chooses an organisation, a token for it is minted behind the user's     *)
(* own token and attached to the wire; tokens are kept for switching back. *)
(* A token is known by the organisation and the user it was minted for.    *)
(***************************************************************************)
EXTENDS Naturals, FiniteSets

CONSTANTS
  Org, NoOrg,
  User, NoUser

VARIABLES
  overlap,   \* may anything be asked of the session while a mint is in flight?
  root,      \* the user whose session this is
  pool,      \* of each organisation: the user of the token kept for it
  expired,   \* organisations whose kept token has expired
  active,    \* entry.active
  wire,      \* the token on the wire
  flight,    \* inflightDerivedMint: of each organisation, what is in flight
  minted     \* of each organisation: the user the mint in flight answered for

vars == <<overlap, root, pool, expired, active, wire, flight, minted>>
mints == <<flight, minted>>

NoToken == <<NoOrg, NoUser>>

TypeOK ==
  /\ overlap \in BOOLEAN /\ root \in User \cup {NoUser}
  /\ pool \in [Org -> User \cup {NoUser}] /\ expired \subseteq {o \in Org : pool[o] # NoUser}
  /\ active \in Org \cup {NoOrg}
  /\ wire \in (Org \X User) \cup {NoToken}
  /\ flight \in [Org -> {"none", "refresh", "select", "remint"}]
  /\ minted \in [Org -> User \cup {NoUser}]
  /\ \A o \in Org : minted[o] # NoUser => flight[o] \in {"select", "remint"}

Init ==
  /\ overlap \in BOOLEAN /\ root \in User
  /\ pool = [o \in Org |-> NoUser] /\ expired = {} /\ active = NoOrg /\ wire = NoToken
  /\ flight = [o \in Org |-> "none"] /\ minted = [o \in Org |-> NoUser]

InFlight == {o \in Org : flight[o] # "none"}
MayAsk == overlap \/ InFlight = {}

\* cfg.key.set(): the wire carries the token kept for o by user u.
Attach(o, u) == wire' = <<o, u>>

IsFresh(o) == pool[o] # NoUser /\ o \notin expired

-----------------------------------------------------------------------------
(* What the application asks for.                                          *)

SwitchBack(o) ==
  /\ MayAsk /\ IsFresh(o)
  /\ active' = o /\ Attach(o, pool[o])
  /\ UNCHANGED <<root, pool, expired, mints>>

\* A mint of o that is in flight is joined, whoever started it.
Join(o) == flight[o] # "none" /\ UNCHANGED mints

Select(o) ==
  /\ MayAsk /\ ~IsFresh(o)
  /\ \/ Join(o)
     \/ flight[o] = "none" /\ flight' = [flight EXCEPT ![o] = "refresh"] /\ UNCHANGED minted
  /\ UNCHANGED <<root, pool, expired, active, wire>>

Clear ==
  /\ MayAsk /\ active # NoOrg
  /\ wire' = NoToken /\ active' = NoOrg
  /\ UNCHANGED <<root, pool, expired, mints>>

\* ensureActiveDerivedFresh before an outbound read: the active token has expired.
Remint(o) ==
  /\ MayAsk /\ active = o /\ ~IsFresh(o) /\ pool[o] # NoUser /\ flight[o] = "none"
  /\ flight' = [flight EXCEPT ![o] = "remint"]
  /\ UNCHANGED <<root, pool, expired, active, wire, minted>>

ClearAllDerivedWires ==
  /\ wire' = NoToken /\ active' = NoOrg
  /\ pool' = [o \in Org |-> NoUser] /\ expired' = {}

\* logout(), toExpired() or another tab's logout.
Logout ==
  /\ MayAsk /\ root # NoUser /\ root' = NoUser
  /\ ClearAllDerivedWires /\ UNCHANGED mints

Start(u) ==
  /\ MayAsk /\ root = NoUser /\ root' = u
  /\ UNCHANGED <<pool, expired, active, wire, mints>>

Expires(o) ==
  /\ IsFresh(o) /\ expired' = expired \cup {o}
  /\ UNCHANGED <<root, pool, active, wire, mints>>

-----------------------------------------------------------------------------
(* A mint in flight.                                                       *)

\* ensureFresh() of the root came back: the mint is sent.
RootIsFresh(o) ==
  /\ flight[o] = "refresh" /\ root # NoUser
  /\ flight' = [flight EXCEPT ![o] = "select"]
  /\ UNCHANGED <<root, pool, expired, active, wire, minted>>

\* The server mints for whoever the user's wire names.
Mint(o) ==
  /\ flight[o] \in {"select", "remint"} /\ minted[o] = NoUser /\ root # NoUser
  /\ minted' = [minted EXCEPT ![o] = root]
  /\ UNCHANGED <<root, pool, expired, active, wire, flight>>

FlightEnds(o) ==
  /\ flight' = [flight EXCEPT ![o] = "none"]
  /\ minted' = [minted EXCEPT ![o] = NoUser]

Keep(o) ==
  /\ pool' = [pool EXCEPT ![o] = minted[o]] /\ expired' = expired \ {o}

Selected(o) ==
  /\ flight[o] = "select" /\ minted[o] # NoUser
  /\ Keep(o) /\ active' = o /\ Attach(o, minted[o])
  /\ FlightEnds(o)
  /\ UNCHANGED root

Reminted(o) ==
  /\ flight[o] = "remint" /\ minted[o] # NoUser
  /\ Keep(o) /\ Attach(o, minted[o])
  /\ FlightEnds(o)
  /\ UNCHANGED <<root, active>>

MintFails(o) ==
  /\ flight[o] # "none"
  /\ FlightEnds(o)
  /\ UNCHANGED <<root, pool, expired, active, wire>>

Flies(o) ==
  \/ RootIsFresh(o) \/ Mint(o) \/ Selected(o) \/ Reminted(o) \/ MintFails(o)

Next ==
  /\ UNCHANGED overlap
  /\ \/ Clear \/ Logout
     \/ \E u \in User : Start(u)
     \/ \E o \in Org : SwitchBack(o) \/ Select(o) \/ Remint(o) \/ Expires(o) \/ Flies(o)

Spec == Init /\ [][Next]_vars

-----------------------------------------------------------------------------
(* Properties.                                                             *)

\* What get() shows of the active organisation is there, also when answers arrive
\* after a clear or a logout.
ActiveIsKept == active # NoOrg => pool[active] # NoUser

\* While the application waits for each mint, requests go out as the active
\* organisation of the present user, and without a token when none is active.
WireIsActive ==
  ~overlap => wire = IF active = NoOrg THEN NoToken ELSE <<active, root>>

\* A session "attaches" what it selects: the wire never carries the token of another
\* organisation than the active one.
WireIsNotAnothers == active # NoOrg => wire[1] = active
=============================================================================

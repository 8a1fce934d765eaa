------------------------------- MODULE Authz -------------------------------
(***************************************************************************)
(* The decisions of GGAuthz: who may take which action on which resource,  *)
(* which rows a list plan lets through, and who may grant which role       *)
(* (GGAuthz.ts, conditions.ts, applyPlan.ts).                              *)
(*                                                                         *)
(* A rule is a record: the actions and the resources it covers, the tests  *)
(* it must pass, and its approval level as a rule of a ceiling. Matchers   *)
(* that name a resource or a pattern of names are in resources.only, those *)
(* that reach below a resource in resources.under. A test asks for a fact  *)
(* (`when`, `unless`), or for an attribute of the row, of the context, or  *)
(* of the principals, with which it is compared or whose presence is asked *)
(* for. What it finds depends on who asks: a world gives each asker its    *)
(* answers. "missing" is a fact not given or an attribute that is not      *)
(* there, "odd" one of the wrong type; a comparison with either is         *)
(* unknown, and whether an attribute is present is always known.           *)
(*                                                                         *)
(* Every action applies to every type of resource. Reasons, their wording, *)
(* step-up remedies and the validation of names and of the model are left  *)
(* out. The store of the bindings is external: it saves what canGrant lets *)
(* a subject create, and removes what it likes.                            *)
(***************************************************************************)
EXTENDS Integers, Sequences, SequencesExt, FiniteSets, FiniteSetsExt

CONSTANTS
  Rn,            \* the resources
  Ancestors,     \* [Rn -> Seq(Rn)]: nearest first, as the resolver gives them
  Action,
  GrantAction,   \* the action that creating a binding takes
  Principal,
  Workload,      \* the principals whose type is a workload type
  Ids,           \* [Principal -> a set of selectors]: itself, its type, everyone, its groups
  RoleActions,   \* [roles -> SUBSET Action]
  TokenScope,    \* [token scopes -> a set of rules]
  Floor,         \* [Action -> Level]: the approval floor
  Policy,        \* the policies a tenant may have, without their bindings
  Binding,       \* the bindings that may exist
  Founding,      \* the sets of bindings that a tenant may start with
  Subject,       \* who asks: the actor, whom it acts via and on behalf of, its caps
  Fact,          \* the facts that the application answers for, request by request
  OfRow,         \* what conditions compare that involves the row (resource.*)
  OfRest,        \* what other conditions compare (principal.*, actor.*, context.*)
  OfActor,       \* of these, what involves the actor (actor.*)
  Answer,        \* what the tests of one request may find
  World,         \* whoever asks -> its answers
  MaxBindings,   \* bound: bindings at one time
  None

\* -1 is no level, HumansOnly the strictest of GG_AUTHZ_APPROVAL_LEVELS; a rule has one below it.
HumansOnly == 2
Level == -1 .. HumansOnly
RuleLevel == Level \ {HumansOnly}
Value == {"missing", "odd", "yes", "no"}
Unknown == {"missing", "odd"}

\* Who a request names: the actor, whom it acts via, and on behalf of whom.
Asker == Principal \X (SUBSET Principal) \X (Principal \cup {None})
OnAuthorityOf(asker) == IF asker[3] = None THEN asker[1] ELSE asker[3]

Test == [of : Fact \cup OfRow \cup OfRest, op : {"is", "not", "present", "absent"}]
Levelled(rules) == \A r \in rules : r.level \in RuleLevel

Valid(p) ==
  /\ \A x \in p.approvals : x.on \in Rn /\ x.level \in Level
  /\ \A d \in p.denies \cup p.allows : d.on \in Rn
  /\ \A c \in p.guardrails \cup p.boundaries : Levelled(c.rules)

\* The rules of a policy and those that a decision about a subject looks up besides.
RulesFor(p, s) ==
  {d.rule : d \in p.denies \cup p.allows} \cup (UNION {c.rules : c \in p.guardrails \cup p.boundaries})
  \cup (UNION {TokenScope[t] : t \in DOMAIN TokenScope})
  \cup (IF s.restrictions = None THEN {} ELSE s.restrictions)

ASSUME AuthzAssumption ==
  /\ Workload \subseteq Principal /\ GrantAction \in Action
  /\ Ancestors \in [Rn -> Seq(Rn)] /\ MaxBindings \in Nat
  /\ None \notin Rn /\ \A b \in Binding : b.on \in Rn
  /\ \A f \in Founding : f \subseteq Binding /\ Cardinality(f) <= MaxBindings
  /\ Floor \in [Action -> Level] /\ \A p \in Policy : Valid(p)
  /\ \A t \in DOMAIN TokenScope : Levelled(TokenScope[t])
  /\ Subject \subseteq [id : Principal, via : SUBSET Principal, behalf : Principal \cup {None},
                       scopes : {s.scopes : s \in Subject}, restrictions : {s.restrictions : s \in Subject}]
  /\ \A s \in Subject : s.restrictions # None => Levelled(s.restrictions)
  /\ \A p \in Policy, s \in Subject : \A r \in RulesFor(p, s) : r.tests \subseteq Test
  /\ \A b \in Binding : b.tests \subseteq Test
  /\ OfRest \cap (Fact \cup OfRow) = {} /\ OfActor \subseteq OfRow \cup OfRest
  /\ Answer \subseteq [row : [Fact \cup OfRow -> [Rn -> Value]], rest : [OfRest -> Value]]
  /\ World \subseteq [Asker -> Answer]

\* Conditions that do not involve the actor come out the same for all who ask on the same
\* authority, those that do for one actor on one authority (lookup; attributes that come with
\* a subject are taken to be those the resolver has). A fact may depend on all of the request.
ASSUME AnswersToConditions ==
  \A w \in World, p, q \in Asker :
    OnAuthorityOf(p) = OnAuthorityOf(q) =>
      /\ \A x \in OfRow \ Fact : x \notin OfActor \/ p[1] = q[1] => w[p].row[x] = w[q].row[x]
      /\ \A x \in OfRest : x \notin OfActor \/ p[1] = q[1] => w[p].rest[x] = w[q].rest[x]

\* The scope tree: the ancestors of an ancestor are the rest of the chain
\* (GGAuthzMemoryResolver.ancestors), and no chain is cyclic (checkedChain).
ASSUME AncestorsNest ==
  \A rn \in Rn :
    /\ rn \notin ToSet(Ancestors[rn])
    /\ \A i \in DOMAIN Ancestors[rn] :
         ToSet(Ancestors[Ancestors[rn][i]]) = {Ancestors[rn][j] : j \in i + 1 .. Len(Ancestors[rn])}

VARIABLES
  policy,     \* fixed: statements, guardrails, boundaries and approvals of the tenant
  founding,   \* fixed: the bindings the tenant starts with
  bindings    \* the bindings now

vars == <<policy, founding, bindings>>

----------------------------------------------------------------------------
\* Rules, tests and identities

Chain(rn) == <<rn>> \o Ancestors[rn]
Scopes(rn) == ToSet(Chain(rn))

\* evalCondition, and a fact asked for with `when` ("is") or `unless` ("not").
Judge(op, v) ==
  IF op \in {"present", "absent"} THEN IF (v = "missing") = (op = "absent") THEN "yes" ELSE "no"
  ELSE IF v \in Unknown THEN "unknown"
  ELSE IF (v = "yes") = (op = "is") THEN "yes" ELSE "no"

Outcome(t, rn, w) == Judge(t.op, IF t.of \in OfRest THEN w.rest[t.of] ELSE w.row[t.of][rn])

\* One false test settles it; otherwise an unknown one leaves it open.
Tested(tests, rn, w) ==
  LET outcomes == {Outcome(t, rn, w) : t \in tests}
  IN IF "no" \in outcomes THEN "no" ELSE IF "unknown" \in outcomes THEN "unknown" ELSE "yes"

Reaches(resources, rn) ==
  \/ resources = None
  \/ rn \in resources.only \/ resources.under \cap Scopes(rn) # {}

Matches(r, a, rn, w) ==
  IF a \in r.actions /\ Reaches(r.resources, rn) THEN Tested(r.tests, rn, w) ELSE "no"

Selects(selectors, p) == selectors \cap Ids[p] # {}

\* principals(): the actors, and whose permissions count.
Actors(s) == {s.id} \cup s.via
Authority(s) == IF s.behalf = None THEN s.id ELSE s.behalf
Who(s) == <<s.id, s.via, s.behalf>>
IsWorkload(s) == Actors(s) \cap Workload # {}

\* Mutant: whoever is exempt exempts those it acts with.
AppliesTogether(d, s) ==
  LET all == Actors(s) \cup {Authority(s)}
  IN (\E p \in all : Selects(d.principals, p)) /\ ~\E p \in all : Selects(d.except, p)

Applies(d, s) ==
  \E p \in Actors(s) \cup {Authority(s)} : Selects(d.principals, p) /\ ~Selects(d.except, p)

----------------------------------------------------------------------------
\* Deciding one request

\* What a grantor must not be denied: a deny that only a resource could decide is open
\* at a scope, and does not count.
DeniesHolding(d, a, rn, w) ==
  LET m == Matches(d.rule, a, rn, w)
  IN IF m = "unknown" THEN ~\E t \in d.rule.tests : /\ t.of \in OfRow /\ w.row[t.of][rn] = "missing"
                                                   /\ t.op \notin {"present", "absent"}
     ELSE m = "yes"

\* Mutant: an unknown fact lets a deny pass.
DeniedIfKnown(s, a, rn, w, holding) ==
  \E d \in policy.denies :
    d.on \in Scopes(rn) /\ Applies(d, s)
    /\ IF holding THEN DeniesHolding(d, a, rn, w) ELSE Matches(d.rule, a, rn, w) = "yes"

\* Guardrail denies and deny statements.
Denied(s, a, rn, w, holding) ==
  \E d \in policy.denies :
    d.on \in Scopes(rn) /\ Applies(d, s)
    /\ IF holding THEN DeniesHolding(d, a, rn, w) ELSE Matches(d.rule, a, rn, w) # "no"

\* The ceilings of a subject wherever it asks; `on` is None unless it is a guardrail's.
Ceilings(s) ==
  {[layer |-> "guardrail", on |-> g.on, rules |-> g.rules] : g \in {x \in policy.guardrails : Applies(x, s)}}
  \cup {[layer |-> "boundary", on |-> None, rules |-> b.rules] :
          b \in {x \in policy.boundaries : \E p \in Actors(s) : Selects(x.principals, p)}}
  \cup (IF s.scopes = None THEN {}
        ELSE {[layer |-> "scope", on |-> None,
               rules |-> UNION {TokenScope[t] : t \in s.scopes \cap DOMAIN TokenScope}]})
  \cup (IF s.restrictions = None THEN {}
        ELSE {[layer |-> "restriction", on |-> None, rules |-> s.restrictions]})

CeilingsAt(s, rn) == {c \in Ceilings(s) : c.on = None \/ c.on \in Scopes(rn)}
Passing(c, a, rn, w) == {r \in c.rules : Matches(r, a, rn, w) = "yes"}
Failed(s, a, rn, w) == {c \in CeilingsAt(s, rn) : Passing(c, a, rn, w) = {}}

\* The least strict rule of a ceiling, the strictest ceiling.
CeilingLevel(s, a, rn, w) ==
  Max({-1} \cup {Min({r.level : r \in Passing(c, a, rn, w)}) : c \in CeilingsAt(s, rn) \ Failed(s, a, rn, w)})

Granted(s, a, rn, w, bindingsOnly) ==
  \/ \E b \in bindings :
       /\ b.on \in Scopes(rn) /\ Selects({b.principal}, Authority(s))
       /\ a \in RoleActions[b.role] /\ Tested(b.tests, rn, w) = "yes"
  \/ ~bindingsOnly /\ \E st \in policy.allows :
       /\ st.on \in Scopes(rn) /\ Selects(st.principals, Authority(s))
       /\ ~Selects(st.except, Authority(s)) /\ Matches(st.rule, a, rn, w) = "yes"

ApprovalsOn(a, scope) == {x \in policy.approvals : x.on = scope /\ a \in x.actions}
Strictest(approvals) == Max({-1} \cup {x.level : x \in approvals})

\* approvalFor: from the root down, a setting replaces the level but not the floor, which
\* locked settings raise.
Step(a, scope, acc) ==
  LET on == ApprovalsOn(a, scope)
  IN IF on = {} THEN acc
     ELSE [level |-> Max({Strictest(on), acc.floor}),
           floor |-> Max({acc.floor, Strictest({x \in on : x.locked})})]

Approval(a, rn) ==
  FoldRight(LAMBDA scope, acc : Step(a, scope, acc), Chain(rn), [level |-> -1, floor |-> Floor[a]])

ApprovalLevel(a, rn, ceiling) == Max({0, Approval(a, rn).level, Approval(a, rn).floor, ceiling})

\* decideWith: allowed, with whatever approval.
Decides(s, a, rn, w, bindingsOnly) ==
  /\ ~Denied(s, a, rn, w, bindingsOnly)
  /\ Failed(s, a, rn, w) = {}
  /\ Granted(s, a, rn, w, bindingsOnly)
  /\ IsWorkload(s) => ApprovalLevel(a, rn, CeilingLevel(s, a, rn, w)) # HumansOnly

\* Mutant: the remedy is named to whoever lacks a scope.
RemedyForAll(s, a, rn, w) ==
  IF Failed(s, a, rn, w) # {} THEN {t \in DOMAIN TokenScope : \E r \in TokenScope[t] : Matches(r, a, rn, w) = "yes"}
  ELSE {}

\* The token scopes a denial names as its remedy.
ScopeRemedy(s, a, rn, w) ==
  IF /\ ~Denied(s, a, rn, w, FALSE)
     /\ Failed(s, a, rn, w) # {} /\ \A c \in Failed(s, a, rn, w) : c.layer = "scope"
     /\ Granted(s, a, rn, w, FALSE)
     /\ ~(IsWorkload(s) /\ ApprovalLevel(a, rn, -1) = HumansOnly)
  THEN {t \in DOMAIN TokenScope : \E r \in TokenScope[t] : Matches(r, a, rn, w) = "yes"}
  ELSE {}
----------------------------------------------------------------------------
\* Listing: a plan decided without the rows, and applied to them

\* Conditions that do not involve the row are decided now.
Residual(within, r, polarity, w) ==
  LET now == {t \in r.tests : t.of \in OfRest}
      found == {Judge(t.op, w.rest[t.of]) : t \in now}
  IN IF "no" \in found \/ ("unknown" \in found /\ polarity = "allow") THEN {}
     ELSE {[within |-> within, except |-> {}, resources |-> r.resources, tests |-> r.tests \ now]}

LockedStrict(a, scope) == \E x \in ApprovalsOn(a, scope) : x.locked /\ x.level = HumansOnly

\* Mutant: a setting below excepts itself from a locked one.
FiltersUnlocked(a) ==
  LET scopes == {x.on : x \in {y \in policy.approvals : a \in y.actions}}
      lower == {y \in scopes : Strictest(ApprovalsOn(a, y)) < HumansOnly}
  IN {[within |-> on, except |-> {y \in lower : on \in ToSet(Ancestors[y])}, resources |-> None, tests |-> {}] :
        on \in scopes \ lower}

\* What a workload may not see: below humans-only, save what a setting below that lowers.
HumansOnlyFilters(a) ==
  LET scopes == {x.on : x \in {y \in policy.approvals : a \in y.actions}}
      lower == {y \in scopes : Strictest(ApprovalsOn(a, y)) < HumansOnly}
      Exceptions(on) == IF LockedStrict(a, on) THEN {} ELSE {y \in lower : on \in ToSet(Ancestors[y])}
  IN {[within |-> on, except |-> Exceptions(on), resources |-> None, tests |-> {}] : on \in scopes \ lower}

NoPlan == [include |-> {}, exclude |-> {}, require |-> {}]

FromBindings(s, a, w) ==
  UNION {Residual(b.on, [resources |-> None, tests |-> b.tests], "allow", w) :
           b \in {x \in bindings : Selects({x.principal}, Authority(s)) /\ a \in RoleActions[x.role]}}
FromAllows(s, a, w) ==
  UNION {Residual(st.on, st.rule, "allow", w) :
           st \in {x \in policy.allows : /\ a \in x.rule.actions /\ Selects(x.principals, Authority(s))
                                        /\ ~Selects(x.except, Authority(s))}}
FromDenies(s, a, w) ==
  UNION {Residual(d.on, d.rule, "deny", w) : d \in {x \in policy.denies : a \in x.rule.actions /\ Applies(x, s)}}

\* A ceiling that some rule passes whatever the row is left out.
Wanted(c, a, w) == UNION {Residual(None, r, "allow", w) : r \in {x \in c.rules : a \in x.actions}}
Requires(s, a, w) ==
  {c \in {[within |-> c.on, anyOf |-> Wanted(c, a, w)] : c \in Ceilings(s)} :
     ~\E f \in c.anyOf : f.resources = None /\ f.tests = {}}

ListAllowed(s, a, w) ==
  LET include == FromBindings(s, a, w) \cup FromAllows(s, a, w)
  IN IF \/ IsWorkload(s) /\ Floor[a] = HumansOnly
        \/ \E c \in Requires(s, a, w) : c.anyOf = {} /\ c.within = None
        \/ include = {}
     THEN NoPlan
     ELSE [include |-> include, require |-> Requires(s, a, w),
           exclude |-> FromDenies(s, a, w) \cup (IF IsWorkload(s) THEN HumansOnlyFilters(a) ELSE {})]

Filtered(f, rn, w) ==
  IF /\ f.within = None \/ f.within \in Scopes(rn)
     /\ f.except \cap Scopes(rn) = {} /\ Reaches(f.resources, rn)
  THEN Tested(f.tests, rn, w) ELSE "no"

ApplyPlan(plan, w) ==
  {rn \in Rn : /\ \E f \in plan.include : Filtered(f, rn, w) = "yes"
               /\ \A f \in plan.exclude : Filtered(f, rn, w) = "no"
               /\ \A c \in plan.require :
                    c.within \in {None} \cup Scopes(rn) => \E f \in c.anyOf : Filtered(f, rn, w) = "yes"}

----------------------------------------------------------------------------
\* Granting roles

\* Each action is a request of its own, for which a fact may be answered differently.
Probes(w) == {v \in Answer : v.rest = w.rest /\ \A x \in OfRow \ Fact : v.row[x] = w.row[x]}

\* Mutant: what the grantor may do by an allow statement it may hand out.
CanGrantAll(s, b, w) ==
  /\ Decides(s, GrantAction, b.on, w, FALSE)
  /\ \A a \in RoleActions[b.role] : \E v \in Probes(w) : Decides(s, a, b.on, v, FALSE)

CanGrant(s, b, w) ==
  /\ Decides(s, GrantAction, b.on, w, FALSE)
  /\ \A a \in RoleActions[b.role] : \E v \in Probes(w) : Decides(s, a, b.on, v, TRUE)

Grant(s, b, w) ==
  /\ CanGrant(s, b, w)
  /\ Cardinality(bindings) < MaxBindings /\ bindings' = bindings \cup {b}
  /\ UNCHANGED <<policy, founding>>

Revoke(b) ==
  /\ b \in bindings /\ bindings' = bindings \ {b}
  /\ UNCHANGED <<policy, founding>>

Init == policy \in Policy /\ founding \in Founding /\ bindings = founding

Next ==
  \/ \E s \in Subject, b \in Binding, w \in Answer : Grant(s, b, w)
  \/ \E b \in Binding : Revoke(b)

Spec == Init /\ [][Next]_vars

----------------------------------------------------------------------------
\* Properties

\* What a list plan lets through is what authorizing every row would: listAllowed and applyPlan
\* decide in another order, before the rows are known, and nothing else compares the two.
ListsAgree ==
  \A s \in Subject, a \in Action, w \in Answer :
    ApplyPlan(ListAllowed(s, a, w), w) = {rn \in Rn : Decides(s, a, rn, w, FALSE)}

\* The tests that a decision about a subject may ask.
TestsFor(s) == (UNION {r.tests : r \in RulesFor(policy, s)}) \cup (UNION {b.tests : b \in bindings})
PresenceAsked(s) == {t.of : t \in {x \in TestsFor(s) : x.op \in {"present", "absent"}}}

\* What was known stays so and something else may become known; and what appears on the way.
Learnings ==
  {l \in Answer \X Answer :
     /\ \A x \in Fact \cup OfRow, rn \in Rn : l[1].row[x][rn] \in {l[2].row[x][rn]} \cup Unknown
     /\ \A x \in OfRest : l[1].rest[x] \in {l[2].rest[x]} \cup Unknown}
Differ(v, u) == (v = "missing") # (u = "missing")
Appears(l) ==
  {x \in Fact \cup OfRow : \E rn \in Rn : Differ(l[1].row[x][rn], l[2].row[x][rn])}
  \cup {x \in OfRest : Differ(l[1].rest[x], l[2].rest[x])}

\* Unknown fails closed in both directions (conditions.ts, decideWith): what is allowed while
\* something is unknown is allowed however it turns out. Where a rule asks whether an attribute is
\* present, its absence is an answer and no unknown: what `present: false` allows, or a deny with
\* `present: true` lets pass, may be denied when the attribute appears.
UnknownFailsClosed ==
  \A s \in Subject, l \in Learnings :
    Appears(l) \cap PresenceAsked(s) = {} =>
      \A a \in Action, rn \in Rn : Decides(s, a, rn, l[1], FALSE) => Decides(s, a, rn, l[2], FALSE)

\* Without that exception it fails.
NothingLearntHurts ==
  \A s \in Subject, a \in Action, rn \in Rn, l \in Learnings :
    Decides(s, a, rn, l[1], FALSE) => Decides(s, a, rn, l[2], FALSE)

\* Any one of the scopes that INSUFFICIENT_SCOPE names turns the denial into an allow (decideWith
\* names them before it has looked at grants and approvals), if no fact depends on the scopes.
ScopeRemedyWorks ==
  \A s \in Subject, a \in Action, rn \in Rn, w \in Answer :
    \A t \in ScopeRemedy(s, a, rn, w) :
      Decides([s EXCEPT !.scopes = @ \cup {t}], a, rn, w, FALSE)

\* Two ways to ask are judged by the same answers to what a rule asks of the actor or of a fact;
\* all other answers are the same anyway.
JudgedAlike(s, t, rn, w) ==
  \A x \in TestsFor(s) : x.of \in Fact \cup OfActor =>
    Outcome(x, rn, w[Who(s)]) = Outcome(x, rn, w[Who(t)])

Without(s, link) == [s EXCEPT !.via = @ \ {link}]
Alone(s) == [s EXCEPT !.id = Authority(s), !.via = {}, !.behalf = None]

\* A delegation only narrows (principals, applies, ceilings): a chain may do nothing that it may
\* not without a link, and nothing on behalf of somebody who lacks it, unless a rule asks who acts
\* (actor.*) or for a fact that is answered differently. What else holds that person back and not
\* the chain is a boundary, or an approval that workloads need.
DelegationNarrows ==
  \A s \in Subject, a \in Action, rn \in Rn, w \in World :
    Decides(s, a, rn, w[Who(s)], FALSE) =>
      /\ \A link \in s.via :
           JudgedAlike(s, Without(s, link), rn, w) =>
             Decides(Without(s, link), a, rn, w[Who(Without(s, link))], FALSE)
      /\ JudgedAlike(s, Alone(s), rn, w) =>
           LET own == w[Who(Alone(s))]
           IN /\ ~Denied(Alone(s), a, rn, own, FALSE) /\ Granted(Alone(s), a, rn, own, FALSE)
              /\ \A c \in Failed(Alone(s), a, rn, own) : c.layer = "boundary"

\* Without the exception it fails: a binding conditioned on the agent grants through it alone.
DelegationNarrowsAnyway ==
  \A s \in Subject, a \in Action, rn \in Rn, w \in World :
    Decides(s, a, rn, w[Who(s)], FALSE) => Granted(Alone(s), a, rn, w[Who(Alone(s))], FALSE)

\* No escalation (canGrant): however subjects hand roles on, and whatever is revoked meanwhile,
\* no binding reaches what no binding of the tenant's own reached.
AccessIsConserved ==
  \A b \in bindings : \A a \in RoleActions[b.role], rn \in Rn :
    b.on \in Scopes(rn) => \E f \in founding : a \in RoleActions[f.role] /\ f.on \in Scopes(rn)
=============================================================================

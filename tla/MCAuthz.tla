------------------------------ MODULE MCAuthz ------------------------------
(* A tree with a document that a person owns, two roles, three principals   *)
(* and an assistant they may act through.                                   *)
EXTENDS Authz, TLC

MCRn == {"org", "proj", "doc"}
MCAncestors == [org |-> <<>>, proj |-> <<"org">>, doc |-> <<"proj", "org">>]
MCAction == {"read", "manage"}
MCPrincipal == {"ann", "ben", "bot"}
MCIds == [p \in MCPrincipal |-> {p, "everyone"} \cup (IF p = "bot" THEN {"agents"} ELSE {"users"})]
MCRoleActions == [viewer |-> {"read"}, manager |-> {"read", "manage"}]

Rule(actions, resources, tests, level) ==
  [actions |-> actions, resources |-> resources, tests |-> tests, level |-> level]
All == Rule(MCAction, None, {}, -1)
Reads == Rule({"read"}, None, {}, -1)
\* The tests: a fact, the owner of the row, the network, and whether the actor is an approved agent.
Mfa == [of |-> "mfa", op |-> "is"]
Owner == [of |-> "owner", op |-> "is"]
Unowned == [of |-> "owner", op |-> "absent"]
Inside == [of |-> "net", op |-> "is"]
Approved == [of |-> "approved", op |-> "is"]
InDoc == [only |-> {"doc"}, under |-> {}]
BelowProj == [only |-> {}, under |-> {"proj"}]

MCTokenScope == [reading |-> {Rule({"read"}, None, {}, 1)}, own |-> {Rule(MCAction, InDoc, {Owner}, -1)}]
MCFloor == [a \in MCAction |-> IF a = "manage" THEN 1 ELSE -1]

Deny(on, principals, except, rule) == [on |-> on, principals |-> principals, except |-> except, rule |-> rule]
Denies ==
  {{}, {Deny("proj", {"everyone"}, {"users"}, Rule({"read"}, None, {Mfa}, -1))},
   {Deny("org", {"everyone"}, {"ann", "bot"}, Rule(MCAction, BelowProj, {Inside}, -1)),
    Deny("proj", {"everyone"}, {"agents"}, Rule({"manage"}, None, {Owner}, -1))}}
Allows ==
  {{}, {[on |-> "proj", principals |-> {"ann"}, except |-> {}, rule |-> All],
        [on |-> "org", principals |-> {"users"}, except |-> {"ann"}, rule |-> Rule({"read"}, InDoc, {Unowned}, -1)]}}
Guardrails ==
  {{}, {[on |-> "proj", principals |-> {"everyone"}, except |-> {"ann"},
         rules |-> {Rule({"read"}, BelowProj, {Mfa}, -1), Rule(MCAction, InDoc, {}, 1)}]}}
Boundaries == {{}, {[principals |-> {"agents", "ben"}, rules |-> {Reads, Rule({"manage"}, None, {Inside}, 0)}]}}

At(on, actions, level, locked) == [on |-> on, actions |-> actions, level |-> level, locked |-> locked]
Approvals ==
  {{}, {At("org", {"read"}, 2, FALSE), At("proj", {"read"}, 0, FALSE), At("doc", {"read"}, 1, TRUE)},
   {At("org", {"read"}, 1, FALSE), At("proj", {"read"}, 2, TRUE), At("doc", {"read"}, 0, FALSE)},
   {At("org", MCAction, 1, TRUE), At("proj", {"read"}, 0, FALSE), At("proj", {"manage"}, 2, FALSE),
    At("doc", {"manage"}, 0, TRUE)}}

\* The parts of a policy, one and two at a time.
MCPolicy ==
  {p \in [denies : Denies, allows : Allows, guardrails : Guardrails, boundaries : Boundaries, approvals : Approvals] :
     Cardinality({part \in DOMAIN p : p[part] # {}}) <= 2}

Bind(principal, role, on, tests) == [principal |-> principal, role |-> role, on |-> on, tests |-> tests]
MCBinding ==
  {Bind("ann", "manager", "proj", {Approved}), Bind("ben", "viewer", "org", {Mfa}),
   Bind("ben", "manager", "doc", {Owner}), Bind("bot", "manager", "proj", {}), Bind("bot", "viewer", "doc", {})}
MCFounding ==
  {{Bind("ann", "manager", "proj", {Approved}), Bind("ben", "viewer", "org", {Mfa})},
   {Bind("ben", "manager", "doc", {Owner}), Bind("bot", "viewer", "doc", {})}}

Asks(id, via, behalf, scopes, restrictions) ==
  [id |-> id, via |-> via, behalf |-> behalf, scopes |-> scopes, restrictions |-> restrictions]
MCSubject ==
  {Asks("ann", {}, None, None, None), Asks("ben", {}, None, {"own"}, None), Asks("bot", {}, None, {"reading"}, None),
   Asks("bot", {}, "ann", None, {Reads, Rule(MCAction, InDoc, {}, 0)}), Asks("ann", {"bot"}, "ben", None, None)}

\* The answers: only the document has an owner, who may be missing or no principal at all.
Answers(mfa, owner, net, approved) ==
  [row |-> [x \in {"mfa", "owner"} |-> [r \in MCRn |->
              IF x = "mfa" THEN mfa ELSE IF r = "doc" THEN owner ELSE "missing"]],
   rest |-> [x \in {"net", "approved"} |-> IF x = "net" THEN net ELSE approved]]
Maybe == {"yes", "no", "missing"}
MCAnswer ==
  {Answers(m, o, n, p) : m \in Maybe, o \in Maybe, n \in {"yes", "missing"}, p \in {"yes", "no"}}
  \cup {Answers(m, "odd", n, "yes") : m \in {"yes", "missing"}, n \in Maybe}

\* The agent is approved, or all are, or nobody; and a chain has its second factor or the person has.
MCWorld ==
  {[q \in Asker |-> Answers(IF q[2] = {} /\ q[3] = None THEN direct ELSE chained, o, n,
                            IF q[1] = "bot" THEN bot ELSE own)] :
     direct \in {"yes", "no"}, chained \in Maybe, o \in {"yes", "missing"}, n \in {"yes", "missing"},
     bot \in {"yes", "no"}, own \in {"yes", "no"}}
=============================================================================

---------------------------- MODULE AccessControl ---------------------------
(***************************************************************************)
(* Who may do what: the principal behind a session (apps/auth), authorize  *)
(* with its tables and approvals (packages/policy), and the tools that     *)
(* services see and may invoke (packages/tool-registry).                   *)
(*                                                                         *)
(* The functions are pure.  What they are asked about changes between one  *)
(* request and the next, and a request goes on with the principal it       *)
(* resolved when it began.                                                 *)
(***************************************************************************)
EXTENDS Integers, FiniteSets

CONSTANTS
  Humans, Services, Tenants, Tools,
  OrganizationOf,      \* of each human and service
  ServiceOf,           \* the identity a service acts under
  Requested,           \* the actions that are asked for
  Granted,             \* sets of capabilities a service may be given
  Assigned,            \* sets of role keys a human may have
  Manifests,           \* the valid manifests: capability, actions (not empty), domains
  NoManifest,
  SessionLength,
  MaxAccessClock, MaxProofs          \* bounds

ASSUME AccessAssumption ==
  /\ OrganizationOf \in [Humans \cup Services -> Tenants] /\ Humans \cap Services = {}
  /\ ServiceOf \in [Services -> {"AGENT_SERVICE", "N8N_SERVICE", "WORKER_SERVICE"}]
  /\ NoManifest \notin Manifests
  /\ \A m \in Manifests : m.actions # {}
  /\ SessionLength \in Nat /\ MaxAccessClock \in Nat

VARIABLES
  today,          \* the clock
  roles, suspended, sessionUntil,   \* of humans
  capabilities,                     \* of services
  principal,      \* of each, the one its current request resolved, or none
  proofs,         \* the approvals there are
  performed,      \* history: the action of the last step: who, which, when, with which proof
  deciders,       \* history: humans who ever could decide approvals
  registry,       \* manifest by tool
  toolHealth      \* last check by tool, "NONE" if never checked

accountVars == <<roles, suspended, sessionUntil, capabilities, deciders>>
toolVars == <<registry, toolHealth>>
accessVars == <<today, accountVars, principal, proofs, performed, toolVars>>

Actors == Humans \cup Services

-----------------------------------------------------------------------------
(* The tables of packages/policy.                                          *)

PermissionKeys ==
  {"records.read", "records.write", "jobs.execute", "approvals.read", "approvals.decide",
   "outreach.read", "outreach.send", "meetings.manage", "pricebooks.read", "pricebooks.write",
   "commercial.approve", "audit.read", "settings.manage", "users.manage", "permissions.manage",
   "secrets.rotate", "deployments.approve"}

ManagerOnly == {"approvals.decide", "commercial.approve", "audit.read"}
OperatorPermissions ==
  {"records.read", "records.write", "jobs.execute", "approvals.read", "outreach.read",
   "outreach.send", "meetings.manage", "pricebooks.read"}
rolePermissions ==
  [ADMIN |-> PermissionKeys,
   MANAGER |-> OperatorPermissions \cup ManagerOnly,
   OPERATOR |-> OperatorPermissions,
   VIEWER |-> {"records.read", "outreach.read", "pricebooks.read", "audit.read"}]
HumanRoles == DOMAIN rolePermissions

CommonCapabilities == {"records.read", "records.write", "jobs.execute", "outreach.send", "meetings.schedule"}
serviceCapabilityCeilings ==
  [AGENT_SERVICE |-> CommonCapabilities \cup {"approvals.request", "outreach.draft"},
   N8N_SERVICE |-> CommonCapabilities,
   WORKER_SERVICE |-> CommonCapabilities \cup {"approved-actions.execute"}]

\* humanPermission, serviceCapability ("" where services are forbidden) and whether
\* a human has to approve.
Policy(permission, capability, approval) ==
  [humanPermission |-> permission, serviceCapability |-> capability, approval |-> approval]
actionPolicies ==
  [READ_OPERATIONS |-> Policy("records.read", "records.read", FALSE),
   WRITE_OPERATIONS |-> Policy("records.write", "records.write", FALSE),
   START_JOB |-> Policy("jobs.execute", "jobs.execute", FALSE),
   REQUEST_APPROVAL |-> Policy("approvals.read", "approvals.request", FALSE),
   READ_APPROVALS |-> Policy("approvals.read", "", FALSE),
   DECIDE_APPROVAL |-> Policy("approvals.decide", "", FALSE),
   SEND_OUTREACH |-> Policy("outreach.send", "outreach.send", FALSE),
   CHANGE_PRICE |-> Policy("pricebooks.write", "approved-actions.execute", TRUE),
   OFFER_DISCOUNT |-> Policy("commercial.approve", "approved-actions.execute", TRUE),
   CHANGE_COMMERCIAL_TERMS |-> Policy("commercial.approve", "approved-actions.execute", TRUE),
   COMMERCIAL_COMMITMENT |-> Policy("commercial.approve", "approved-actions.execute", TRUE),
   MANAGE_PERMISSIONS |-> Policy("permissions.manage", "", FALSE),
   ROTATE_SECRET |-> Policy("secrets.rotate", "", FALSE),
   DEPLOY_BREAKING |-> Policy("deployments.approve", "", TRUE)]
ActionKeys == DOMAIN actionPolicies

-----------------------------------------------------------------------------
(* authorize and the tool registry's two rules.                            *)

Human(h, keys) ==
  [kind |-> "HUMAN", id |-> h, org |-> OrganizationOf[h], roles |-> keys, capabilities |-> {}]
Service(s, keys) ==
  [kind |-> "SERVICE", id |-> s, org |-> OrganizationOf[s], roles |-> {}, capabilities |-> keys]

WithinCeiling(p, capability) ==
  /\ capability \in p.capabilities
  /\ capability \in serviceCapabilityCeilings[ServiceOf[p.id]]

Permitted(p, action) ==
  LET policy == actionPolicies[action] IN
  CASE p.kind = "HUMAN" ->
         \E role \in p.roles : policy.humanPermission \in rolePermissions[role]
    [] p.kind = "SERVICE" ->
         policy.serviceCapability # "" /\ WithinCeiling(p, policy.serviceCapability)

\* proofs that never expire have expiresAt NoExpiry.
NoExpiry == -1
ValidApproval_byAnyone(p, action, proof, now) ==
  /\ proof.action = action /\ proof.org = p.org
  /\ proof.expiresAt = NoExpiry \/ proof.expiresAt > now
ValidApproval(p, action, proof, now) ==
  /\ proof.action = action /\ proof.org = p.org
  /\ p.kind = "HUMAN" => proof.approvedBy # p.id
  /\ proof.expiresAt = NoExpiry \/ proof.expiresAt > now

\* outcome ALLOW; with is the set of the proof given, if any.
Allowed(p, action, with, now) ==
  /\ Permitted(p, action)
  /\ actionPolicies[action].approval =>
       \E proof \in with : ValidApproval(p, action, proof, now)

Available(t) == toolHealth[t] \in {"UP", "DEGRADED"}

\* listForPrincipal.
Listed(p) ==
  {t \in Tools : /\ p.kind = "SERVICE" /\ registry[t] # NoManifest
                 /\ WithinCeiling(p, registry[t].capability)
                 /\ Available(t)}

\* authorizeToolInvocation; a tool without domains, or a request without one ("")
\* passes the last check.
MayInvoke(p, t, action, domain) ==
  /\ p.kind = "SERVICE" /\ registry[t] # NoManifest
  /\ WithinCeiling(p, registry[t].capability)
  /\ Available(t)
  /\ action \in registry[t].actions
  /\ domain = "" \/ registry[t].domains = {} \/ domain \in registry[t].domains

-----------------------------------------------------------------------------
(* What changes around the functions.                                      *)

NoPrincipal == [kind |-> "NONE"]
Nothing == [action |-> "NONE"]

CanDecide(keys) == \E role \in keys \cap HumanRoles : "approvals.decide" \in rolePermissions[role]

AccessInit ==
  /\ today = 0
  /\ roles \in [Humans -> Assigned] /\ suspended = {}
  /\ sessionUntil = [h \in Humans |-> 0]
  /\ capabilities \in [Services -> Granted]
  /\ principal = [a \in Actors |-> NoPrincipal]
  /\ proofs = {} /\ performed = Nothing
  /\ deciders = {h \in Humans : CanDecide(roles[h])}
  /\ registry = [t \in Tools |-> NoManifest]
  /\ toolHealth = [t \in Tools |-> "NONE"]

AccessClockTicks ==
  /\ today < MaxAccessClock /\ today' = today + 1
  /\ performed' = Nothing
  /\ UNCHANGED <<accountVars, principal, proofs, toolVars>>

\* Better Auth signs in; sessions are not extended (disableSessionRefresh).
SignIn(h) ==
  /\ sessionUntil[h] <= today
  /\ sessionUntil' = [sessionUntil EXCEPT ![h] = today + SessionLength]
  /\ performed' = Nothing
  /\ UNCHANGED <<today, roles, suspended, capabilities, deciders, principal, proofs, toolVars>>

AssignRoles(h, keys) ==
  /\ roles' = [roles EXCEPT ![h] = keys]
  /\ deciders' = IF CanDecide(keys) THEN deciders \cup {h} ELSE deciders
  /\ performed' = Nothing
  /\ UNCHANGED <<today, suspended, sessionUntil, capabilities, principal, proofs, toolVars>>
SuspendHuman(h) ==
  /\ suspended' = suspended \cup {h}
  /\ performed' = Nothing
  /\ UNCHANGED <<today, roles, sessionUntil, capabilities, deciders, principal, proofs, toolVars>>
Grant(s, keys) ==
  /\ capabilities' = [capabilities EXCEPT ![s] = keys]
  /\ performed' = Nothing
  /\ UNCHANGED <<today, roles, suspended, sessionUntil, deciders, principal, proofs, toolVars>>

\* A request begins: createSessionPrincipalAuthenticator and the resolver for a
\* human.  A role that is none of the known ones refuses the whole principal.
Resolvable_withUnknownRoles(h) ==
  /\ sessionUntil[h] > today
  /\ h \notin suspended
  /\ roles[h] # {}
Resolvable(h) ==
  /\ sessionUntil[h] > today
  /\ h \notin suspended
  /\ roles[h] # {} /\ roles[h] \subseteq HumanRoles
Begin(a) ==
  /\ principal[a] = NoPrincipal
  /\ a \in Humans => Resolvable(a)
  /\ principal' = [principal EXCEPT ![a] =
        IF a \in Humans THEN Human(a, roles[a]) ELSE Service(a, capabilities[a])]
  /\ performed' = Nothing
  /\ UNCHANGED <<today, accountVars, proofs, toolVars>>

Done(a) == principal' = [principal EXCEPT ![a] = NoPrincipal]

\* The request is an action with at most one proof; a decision leaves a proof.
Perform(a, action, with) ==
  /\ principal[a] # NoPrincipal /\ action # "DECIDE_APPROVAL"
  /\ performed' = IF Allowed(principal[a], action, with, today)
                  THEN [by |-> principal[a], action |-> action, at |-> today, with |-> with]
                  ELSE Nothing
  /\ Done(a)
  /\ UNCHANGED <<today, accountVars, proofs, toolVars>>

DecideApproval(a, action, expiresAt) ==
  /\ principal[a] # NoPrincipal /\ Cardinality(proofs) < MaxProofs
  /\ proofs' = IF Allowed(principal[a], "DECIDE_APPROVAL", {}, today)
               THEN proofs \cup {[action |-> action, org |-> principal[a].org, approvedBy |-> a,
                                  expiresAt |-> expiresAt]}
               ELSE proofs
  /\ Done(a)
  /\ performed' = Nothing
  /\ UNCHANGED <<today, accountVars, toolVars>>

\* register rejects what validateToolManifest refuses and keeps what is there.
Register(t, manifest) ==
  /\ registry[t] = NoManifest
  /\ registry' = [registry EXCEPT ![t] = manifest]
  /\ performed' = Nothing
  /\ UNCHANGED <<today, accountVars, principal, proofs, toolHealth>>
recordHealthCheck(t, status) ==
  /\ toolHealth' = [toolHealth EXCEPT ![t] = status]
  /\ performed' = Nothing
  /\ UNCHANGED <<today, accountVars, principal, proofs, registry>>

Expiries == {NoExpiry} \cup 1..MaxAccessClock

AuthorizationNext ==
  \/ AccessClockTicks
  \/ \E h \in Humans :
       \/ SignIn(h) \/ SuspendHuman(h)
       \/ \E keys \in Assigned : AssignRoles(h, keys)
  \/ \E s \in Services, keys \in Granted : Grant(s, keys)
  \/ \E a \in Actors :
       \/ Begin(a)
       \/ \E action \in Requested :
            \/ Perform(a, action, {}) \/ \E proof \in proofs : Perform(a, action, {proof})
            \/ \E expiresAt \in Expiries : DecideApproval(a, action, expiresAt)

ToolsNext ==
  \E t \in Tools :
    \/ \E manifest \in Manifests : Register(t, manifest)
    \/ \E status \in {"UP", "DOWN", "DEGRADED", "UNKNOWN"} : recordHealthCheck(t, status)

AccessNext == AuthorizationNext \/ ToolsNext
AccessSpec == AccessInit /\ [][AccessNext]_accessVars

-----------------------------------------------------------------------------

\* Every role of a principal is known: authorize looks it up in rolePermissions.
Principals ==
  {NoPrincipal} \cup {Human(h, keys) : h \in Humans, keys \in Assigned \cap ((SUBSET HumanRoles) \ {{}})}
                \cup {Service(s, keys) : s \in Services, keys \in Granted}
Proofs == [action : Requested, org : Tenants, approvedBy : Actors, expiresAt : Expiries]

AccessTypeOK ==
  /\ today \in 0..MaxAccessClock
  /\ roles \in [Humans -> Assigned] /\ suspended \cup deciders \subseteq Humans
  /\ principal \in [Actors -> Principals] /\ proofs \subseteq Proofs
  /\ registry \in [Tools -> Manifests \cup {NoManifest}]
  /\ toolHealth \in [Tools -> {"NONE", "UP", "DOWN", "DEGRADED", "UNKNOWN"}]

\* What binds the company commercially is done only after another human, who could
\* decide approvals, approved this action in the same organization and while that
\* holds; and no service decides, reads approvals or manages, whatever it was granted.
Commercial == {"CHANGE_PRICE", "OFFER_DISCOUNT", "CHANGE_COMMERCIAL_TERMS", "COMMERCIAL_COMMITMENT"}
HumanOnly == {"READ_APPROVALS", "DECIDE_APPROVAL", "MANAGE_PERMISSIONS", "ROTATE_SECRET", "DEPLOY_BREAKING"}

AuthorityIsSeparated ==
  /\ performed.action \in Commercial =>
       \E proof \in performed.with \cap proofs :
         /\ proof.action = performed.action /\ proof.org = performed.by.org
         /\ proof.approvedBy \in deciders \ {performed.by.id}
         /\ proof.expiresAt = NoExpiry \/ proof.expiresAt > performed.at
  /\ performed.action \in HumanOnly => performed.by.id \in Humans
  /\ performed.action \in Commercial /\ performed.by.id \in Services =>
       ServiceOf[performed.by.id] = "WORKER_SERVICE"

\* What a service is shown are the tools it may operate: the registry's list and the
\* check of an invocation, which are coded apart, agree as tools are registered and
\* fail and capabilities come and go.
ListedToolsAreUsable ==
  \A s \in Services : LET p == Service(s, capabilities[s]) IN
    \A t \in Tools :
      t \in Listed(p) <=> \E action \in UNION {m.actions : m \in Manifests} : MayInvoke(p, t, action, "")
=============================================================================

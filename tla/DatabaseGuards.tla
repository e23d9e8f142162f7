--------------------------- MODULE DatabaseGuards ---------------------------
(***************************************************************************)
(* What the database does on its own account (packages/db/migrations): the *)
(* audit of sessions that migration 0007 adds under running logins and     *)
(* logouts, and the rights that 0002 seeds and the triggers of 0003 bound. *)
(* The rights are a second copy of the tables of packages/policy, which is *)
(* the one authorize reads.                                                *)
(***************************************************************************)
EXTENDS AccessControl, Sequences

CONSTANT Sessions

VARIABLES
  migration,      \* 0007: how far its one transaction is
  sessionRow,     \* rhia.auth_session, with the transaction that inserts or deletes it
  overdue,        \* sessions whose expires_at has passed
  trail,          \* rhia.audit_event, by session, oldest first
  rolePermission, \* rhia.role_permission
  agentCapability,\* rhia.agent_capability
  agentActive,    \* rhia.agent_instance of n8n and of the workers: ACTIVE
  edited          \* history: rights were given or taken by hand since the seed ran

databaseVars == <<migration, sessionRow, overdue, trail,
                  rolePermission, agentCapability, agentActive, edited>>
sessionVars == <<migration, sessionRow, overdue, trail>>
rightsVars == <<rolePermission, agentCapability, agentActive, edited>>

Committed == {"OPEN", "DELETING"}     \* what another transaction sees of a row
Beginnings == {"LOGIN_SUCCEEDED", "SESSION_BASELINED"}
Endings == {"SESSION_EXPIRED", "SESSION_REVOKED"}

DatabaseInit ==
  /\ migration = "BEFORE"
  /\ sessionRow = [s \in Sessions |-> "NONE"] /\ overdue = {}
  /\ trail = [s \in Sessions |-> <<>>]
  /\ rolePermission = {} /\ agentCapability = {} /\ agentActive = {} /\ edited = FALSE

-----------------------------------------------------------------------------
(* Sessions.  CREATE TRIGGER waits for the transactions that write the     *)
(* table, and those that come wait until the migration commits.            *)

Records(s, action) == trail' = [trail EXCEPT ![s] = Append(@, action)]
Writing == {s \in Sessions : sessionRow[s] \in {"INSERTING", "DELETING"}}
MayWrite == migration \in {"BEFORE", "DONE"}
SessionMoves(s, at) == sessionRow' = [sessionRow EXCEPT ![s] = at]

\* auth_session_created: the login of a linked identity is recorded with its session.
Login(s) ==
  /\ MayWrite /\ sessionRow[s] = "NONE"
  /\ SessionMoves(s, "INSERTING")
  /\ IF migration = "DONE" THEN Records(s, "LOGIN_SUCCEEDED") ELSE UNCHANGED trail
  /\ UNCHANGED <<migration, overdue, rightsVars>>

\* auth_session_deleted: the end is recorded under the actor of the first record of
\* the session; without one, INTO STRICT makes the DELETE fail.
Logout(s) ==
  /\ MayWrite /\ sessionRow[s] = "OPEN"
  /\ migration = "DONE" => trail[s] # <<>>
  /\ SessionMoves(s, "DELETING")
  /\ IF migration = "DONE"
     THEN Records(s, IF s \in overdue THEN "SESSION_EXPIRED" ELSE "SESSION_REVOKED")
     ELSE UNCHANGED trail
  /\ UNCHANGED <<migration, overdue, rightsVars>>

CommitSession(s) ==
  /\ s \in Writing
  /\ SessionMoves(s, IF sessionRow[s] = "INSERTING" THEN "OPEN" ELSE "GONE")
  /\ UNCHANGED <<migration, overdue, trail, rightsVars>>

\* A transaction that is rolled back takes its record with it.
RollbackSession(s) ==
  /\ s \in Writing
  /\ SessionMoves(s, IF sessionRow[s] = "INSERTING" THEN "NONE" ELSE "OPEN")
  /\ trail' = [trail EXCEPT ![s] = IF migration = "DONE" THEN SubSeq(@, 1, Len(@) - 1) ELSE @]
  /\ UNCHANGED <<migration, overdue, rightsVars>>

SessionLapses(s) ==
  /\ sessionRow[s] \in Committed /\ s \notin overdue
  /\ overdue' = overdue \cup {s}
  /\ UNCHANGED <<migration, sessionRow, trail, rightsVars>>

\* The first trigger takes the lock; the sessions that are there get a beginning; the
\* second trigger and the commit.  ON_ERROR_STOP: a failure rolls all of it back.
LockSessions_late ==
  /\ migration = "BEFORE"
  /\ migration' = "LOCKED"
  /\ UNCHANGED <<sessionRow, overdue, trail, rightsVars>>
LockSessions ==
  /\ migration = "BEFORE" /\ Writing = {}
  /\ migration' = "LOCKED"
  /\ UNCHANGED <<sessionRow, overdue, trail, rightsVars>>

Baseline ==
  /\ migration = "LOCKED" /\ migration' = "BASELINED"
  /\ trail' = [s \in Sessions |-> IF sessionRow[s] \in Committed
                                  THEN Append(trail[s], "SESSION_BASELINED") ELSE trail[s]]
  /\ UNCHANGED <<sessionRow, overdue, rightsVars>>

CommitMigration ==
  /\ migration = "BASELINED" /\ migration' = "DONE"
  /\ UNCHANGED <<sessionRow, overdue, trail, rightsVars>>

MigrationFails ==
  /\ migration \in {"LOCKED", "BASELINED"} /\ migration' = "BEFORE"
  /\ trail' = [s \in Sessions |-> <<>>]
  /\ UNCHANGED <<sessionRow, overdue, rightsVars>>

-----------------------------------------------------------------------------
(* Rights.                                                                 *)

SeededPermissions ==
  LET operator == {"records.read", "records.write", "jobs.execute", "approvals.read",
                   "outreach.read", "outreach.send", "meetings.manage", "pricebooks.read"}
      manager == operator \cup {"approvals.decide", "commercial.approve", "audit.read"}
      admin == manager \cup {"pricebooks.write", "settings.manage", "users.manage",
                             "permissions.manage", "secrets.rotate", "deployments.approve"}
      viewer == {"records.read", "outreach.read", "pricebooks.read", "audit.read"}
  IN {"ADMIN"} \X admin \cup {"MANAGER"} \X manager \cup {"OPERATOR"} \X operator
       \cup {"VIEWER"} \X viewer

SeededCapabilities ==
  LET common == {"records.read", "records.write", "jobs.execute", "outreach.send",
                 "meetings.schedule"}
  IN {"AGENT_SERVICE"} \X (common \cup {"approvals.request", "outreach.draft"})
       \cup {"N8N_SERVICE"} \X common
       \cup {"WORKER_SERVICE"} \X (common \cup {"approved-actions.execute"})

Definitions == DOMAIN serviceCapabilityCeilings
SeededKeys == {grant[2] : grant \in SeededCapabilities}

\* enforce_service_capability_ceiling, by agent definition.
CeilingAllows_drafts(definition, capability) ==
  CASE definition = "AGENT_SERVICE" -> capability # "approved-actions.execute"
    [] definition = "N8N_SERVICE" -> capability \notin {"approvals.request", "approved-actions.execute"}
    [] definition = "WORKER_SERVICE" -> capability \notin {"approvals.request", "outreach.draft"}
CeilingAllows(definition, capability) ==
  CASE definition = "AGENT_SERVICE" -> capability # "approved-actions.execute"
    [] definition = "N8N_SERVICE" ->
         capability \notin {"approvals.request", "approved-actions.execute", "outreach.draft"}
    [] definition = "WORKER_SERVICE" -> capability \notin {"approvals.request", "outreach.draft"}

\* The seed may run again: it adds what is missing, keeps what is there, and sets the
\* instances of n8n and of the workers to INACTIVE.  One row refused undoes it all.
Seed ==
  /\ \A grant \in SeededCapabilities : CeilingAllows(grant[1], grant[2])
  /\ rolePermission' = rolePermission \cup SeededPermissions
  /\ agentCapability' = agentCapability \cup SeededCapabilities
  /\ agentActive' = {} /\ edited' = FALSE
  /\ UNCHANGED sessionVars

\* Bound: one change by hand between two seeds.
EditByHand(definition, capability) ==
  /\ ~edited /\ edited' = TRUE
  /\ \/ /\ CeilingAllows(definition, capability)
        /\ agentCapability' = agentCapability \cup {<<definition, capability>>}
     \/ agentCapability' = agentCapability \ {<<definition, capability>>}
  /\ UNCHANGED <<sessionVars, rolePermission, agentActive>>

Activate(definition) ==
  /\ agentCapability # {}
  /\ agentActive' = agentActive \cup {definition}
  /\ UNCHANGED <<sessionVars, rolePermission, agentCapability, edited>>

SessionsNext ==
  \/ \E s \in Sessions : \/ Login(s) \/ Logout(s) \/ CommitSession(s)
                         \/ RollbackSession(s) \/ SessionLapses(s)
  \/ LockSessions \/ Baseline \/ CommitMigration \/ MigrationFails

RightsNext ==
  \/ Seed
  \/ \E d \in Definitions, c \in SeededKeys : EditByHand(d, c)
  \/ \E d \in {"N8N_SERVICE", "WORKER_SERVICE"} : Activate(d)

-----------------------------------------------------------------------------

DatabaseTypeOK ==
  /\ migration \in {"BEFORE", "LOCKED", "BASELINED", "DONE"}
  /\ sessionRow \in [Sessions -> {"NONE", "INSERTING", "OPEN", "DELETING", "GONE"}]
  /\ overdue \subseteq Sessions
  /\ trail \in [Sessions -> Seq(Beginnings \cup Endings)]
  /\ rolePermission \subseteq HumanRoles \X PermissionKeys
  /\ agentCapability \subseteq Definitions \X SeededKeys
  /\ agentActive \subseteq Definitions /\ edited \in BOOLEAN

\* Once 0007 is in, the audit has a beginning, and one, of every session there is, so
\* that it can be closed, and an end of those that were closed since: however logins
\* and logouts fall between its statements (0007_auth_audit.sql).
SessionsLeaveATrail ==
  migration = "DONE" => \A s \in Sessions :
    /\ sessionRow[s] \in Committed => trail[s] # <<>>
    /\ \A i \in 1..Len(trail[s]) : (trail[s][i] \in Beginnings) <=> i = 1
    /\ sessionRow[s] = "GONE" => Len(trail[s]) \in {0, 2}

\* What the database grants is what authorize honours: no capability beyond the
\* ceiling packages/policy gives the service, and after a seed, whatever was changed
\* before it, exactly the permissions and capabilities of that package
\* (0002_rbac_policy.sql, 0003_rbac_tenant_guards.sql, policy/src/index.ts).
RightsAreThePolicys ==
  /\ \A grant \in agentCapability : grant[2] \in serviceCapabilityCeilings[grant[1]]
  /\ ~edited /\ agentCapability # {} =>
       /\ \A d \in Definitions :
            {grant[2] : grant \in {g \in agentCapability : g[1] = d}} = serviceCapabilityCeilings[d]
       /\ \A role \in HumanRoles :
            {grant[2] : grant \in {g \in rolePermission : g[1] = role}} = rolePermissions[role]
=============================================================================

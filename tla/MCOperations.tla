---------------------------- MODULE MCOperations ----------------------------
(* Small instances of the parts that watch over the system, in one run for *)
(* TLC: part says which of them the behaviour is one of.                   *)
EXTENDS Backups, Monitoring, AdminBootstrap, AiGateway, OperationsConsole, LocalServer,
        DatabaseGuards, TLC

VARIABLE part
Parts == {"backups", "monitoring", "bootstrap", "access", "tools", "gateway", "console",
          "server", "sessions", "rights"}
machineVars == <<serverVars, databaseVars>>

\* A part that does not run stays at one value.
BootstrapIdle ==
  /\ userStatus = [u \in Users |-> "NONE"] /\ identity = [e \in Emails |-> NoOne]
  /\ credential = [e \in Emails |-> "NONE"] /\ admins = {} /\ lapsed = {}
  /\ bootstrap = [b \in Bootstraps |-> [at |-> "START", org |-> NoOne, email |-> NoOne]]
AccessIdle ==
  /\ AccessInit
  /\ \A h \in Humans : roles[h] = {"OPERATOR"}
  /\ \A s \in Services : capabilities[s] = {}

\* The console needs one session that lasts, and either the job or the approval: the
\* roles and the clock move under an approval, where what is refused depends on them.
ConsoleStart ==
  /\ PeopleInit /\ ConsoleInit
  /\ sessionUntil = [h \in Humans |-> MaxAccessClock + 1]
  /\ capabilities = [s \in Services |-> {}]
  /\ IF section = "jobs"
     THEN approval.requester \in Services /\ approval.expiresAt = NoExpiry
          /\ \A h \in Humans : roles[h] = {"OPERATOR"}
     ELSE job.status = "PENDING"
ConsoleIdle ==
  /\ person = NoOne
  /\ section = "jobs" /\ job = NoForm /\ approval = NoForm /\ at = "READY"
  /\ page = Disconnected /\ notice = "none" /\ form = NoForm /\ heard = Unheard

Init ==
  /\ part \in Parts
  /\ BackupInit /\ MonitoringInit /\ GatewayInit /\ ServerInit /\ DatabaseInit
  /\ part # "monitoring" => watch = "queue"
  /\ part # "server" => pidFile = 0 /\ boot.isMain
  /\ IF part = "bootstrap" THEN BootstrapInit ELSE BootstrapIdle
  /\ CASE part = "console" -> ConsoleStart
       [] part = "access" -> AccessInit /\ ConsoleIdle
       [] OTHER -> AccessIdle /\ ConsoleIdle

BackupsPart ==
  part = "backups" /\ BackupNext /\ UNCHANGED <<part, monitoringVars, bootstrapVars, accessVars, gatewayVars, consoleVars, machineVars>>
MonitoringPart ==
  part = "monitoring" /\ MonitoringNext /\ UNCHANGED <<part, backupVars, bootstrapVars, accessVars, gatewayVars, consoleVars, machineVars>>
BootstrapPart ==
  part = "bootstrap" /\ BootstrapNext /\ UNCHANGED <<part, backupVars, monitoringVars, accessVars, gatewayVars, consoleVars, machineVars>>
AccessPart ==
  part = "access" /\ AuthorizationNext /\ UNCHANGED <<part, backupVars, monitoringVars, bootstrapVars, gatewayVars, consoleVars, machineVars>>
ToolsPart ==
  /\ part = "tools"
  /\ ToolsNext \/ \E s \in Services, keys \in Granted : Grant(s, keys)
  /\ UNCHANGED <<part, backupVars, monitoringVars, bootstrapVars, gatewayVars, consoleVars, machineVars>>
GatewayPart ==
  /\ part = "gateway" /\ GatewayNext
  /\ UNCHANGED <<part, backupVars, monitoringVars, bootstrapVars, accessVars, consoleVars, machineVars>>
ConsolePart ==
  /\ part = "console" /\ ConsoleNext
  /\ section = "jobs" => UNCHANGED <<today, roles, approval>>
  /\ section = "approvals" => UNCHANGED job
  /\ UNCHANGED <<part, backupVars, monitoringVars, bootstrapVars, gatewayVars, machineVars>>

Watching == <<part, backupVars, monitoringVars, bootstrapVars, accessVars, gatewayVars, consoleVars>>
ServerPart == part = "server" /\ ServerNext /\ UNCHANGED <<Watching, databaseVars>>
SessionsPart == part = "sessions" /\ SessionsNext /\ UNCHANGED <<Watching, serverVars>>
RightsPart == part = "rights" /\ RightsNext /\ UNCHANGED <<Watching, serverVars>>

Next == BackupsPart \/ MonitoringPart \/ BootstrapPart \/ AccessPart \/ ToolsPart
        \/ GatewayPart \/ ConsolePart \/ ServerPart \/ SessionsPart \/ RightsPart
vars == <<Watching, machineVars>>
Spec == Init /\ [][Next]_vars

\* The state of the part that runs has its type.
TypeOK ==
  CASE part = "backups" -> BackupTypeOK
    [] part = "monitoring" -> MonitoringTypeOK
    [] part = "bootstrap" -> BootstrapTypeOK
    [] part = "gateway" -> GatewayTypeOK
    [] part = "console" -> ConsoleTypeOK
    [] part = "server" -> ServerTypeOK
    [] part \in {"sessions", "rights"} -> DatabaseTypeOK
    [] OTHER -> AccessTypeOK

\* The scripts of the machine do what they are run for: backups are what they seem
\* to be, the server is the one STOP.BAT finds, and the boot waits for all it checks.
ScriptsDeliver ==
  BackupsAreWhatTheySeem /\ WhatServesCanBeStopped /\ BootWaitsForItsChecks

\* Accounts, their sessions and their rights are what the audit and packages/policy
\* say: one first administrator, a trail of every session, no right the policy
\* does not know.
AccountsAreAccountedFor ==
  FirstAdministratorIsOne /\ SessionsLeaveATrail /\ RightsAreThePolicys

\* What lets an operator sleep is earned: a pruning leaves the newest backups it
\* counts on (prune-postgres-backups.sh), and neither a component nor an engine
\* looks better only because its events grew older (the scores of observability
\* and of search-health).
ReassuranceIsEarned == PruningKeepsTheNewest /\ SilenceIsNotRecovery

-----------------------------------------------------------------------------

MCDatabases == <<"rhia_core", "n8n">>
\* Rows come to the second database at time 2, the first is only updated.
MCCounts == << <<"one row", "one row">>, <<"one row", "two rows">> >>
MCCostLimits == [monthly |-> 5]
MCOrganizationOf == [a \in Humans \cup Services |-> "rhia"]
MCServiceOf == [s \in Services |-> "WORKER_SERVICE"]
MCGranted == {{}, {"approved-actions.execute"}}
MCAssigned == {{"OPERATOR"}, {"ADMIN"}, {"MANAGER", "GUEST"}}
MCManifests ==
  {[capability |-> "records.read", actions |-> {"GET"}, domains |-> {}],
   [capability |-> "approved-actions.execute", actions |-> {"GET"}, domains |-> {"here"}]}

\* A provider that serves it, one that refuses it, one that is not registered.
MCGatewayRequests ==
  {[provider |-> "openai", tools |-> TRUE, json |-> TRUE],
   [provider |-> "anthropic", tools |-> TRUE, json |-> FALSE],
   [provider |-> "ollama", tools |-> TRUE, json |-> FALSE],
   [provider |-> "ollama", tools |-> FALSE, json |-> TRUE],
   [provider |-> "gemini", tools |-> FALSE, json |-> FALSE]}

\* Evaluators, callers of the bootstrap and humans are the same two model values:
\* they never meet, and the symmetry of one is that of all.
ActorSymmetry == Permutations(Evaluators)
=============================================================================

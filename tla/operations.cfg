\* The scripts and rules that watch over the system, two actors at once.
SPECIFICATION Spec
CONSTANTS
  Databases <- MCDatabases
  Keep = 1
  MaxAge = 0
  MaxTime = 2
  MaxRot = 1
  Counts <- MCCounts
  Evaluators = {a1, a2}
  Observed = {"OK", "DOWN", "CAPTCHA"}
  HealthWindow = 2
  MinSampleWeight = 1
  Cooldown = 2
  StaleAfter = 1
  CostLimits <- MCCostLimits
  MinSampleSize = 2
  BounceRate = 25
  DenyThreshold = 1
  DenyWindow = 1
  MaxClock = 3
  MaxSignals = 2
  MaxSpent = 5
  MaxNotices = 2
  Organizations = {org1, org2}
  Emails = {mail1, mail2}
  Bootstraps = {a1, a2}
  NoOne = NoOne
  Tenants = {"rhia"}
  Humans = {a1, a2}
  Services = {s1}
  Tools = {t1}
  OrganizationOf <- MCOrganizationOf
  ServiceOf <- MCServiceOf
  Requested = {"CHANGE_PRICE", "READ_APPROVALS"}
  Granted <- MCGranted
  Assigned <- MCAssigned
  Manifests <- MCManifests
  NoManifest = NoManifest
  SessionLength = 1
  MaxAccessClock = 1
  MaxProofs = 1
  FirstRetries = 2
  GatewayRequests <- MCGatewayRequests
  MaxCandidates = 2
  Pids = {1, 2}
  BootTries = 1
  Sessions = {mail1, mail2}
SYMMETRY ActorSymmetry
CHECK_DEADLOCK FALSE
INVARIANTS
  TypeOK
  ScriptsDeliver
  AlertsAreHeardOnce
  AccountsAreAccountedFor
  AuthorityIsSeparated
  FallbackTellsWhatHappened
  NoticesTellTheTruth
PROPERTIES
  ReassuranceIsEarned

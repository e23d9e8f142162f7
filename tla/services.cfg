\* Each of the components that share no state, two callers and two keys at once.
SPECIFICATION Spec
CONSTANTS
  Clients = {p1, p2}
  BookingKeys = {k1, k2}
  Contacts = {"contact"}
  Slots <- MCSlots
  MaxEvents = 2
  AnswersGetLost = TRUE
  Handlers = {p1, p2}
  EventIds = {k1, k2}
  Versions = {"delivered", "failed"}
  Searches = {p1, p2}
  RequestedSources <- MCSources
  ConfiguredSources = {"SEARXNG", "WEB_API"}
  FailureThreshold = 2
  Tasks = {p1, p2}
  Candidates <- MCCandidates
  Policies <- MCPolicies
  Answers <- MCAnswers
  DailyLimit = 4
  MonthlyLimit = 6
  Scenarios <- MCScenarios
  ComputerTasks <- MCComputerTasks
  Skills <- MCSkills
  ToolManifests <- MCTools
  ApprovalProofs <- MCProofs
  RequestingHuman = "asker"
  Hosts = {"site", "elsewhere", ""}
  MaxRuns = 3
  LastMoment = 1
  Profiles <- MCProfiles
  CountryPriority <- MCCountryPriority
  CityPriority <- MCCityPriority
  DefaultPriority = 90
  Weights <- DefaultWeights
  NbaPolicy <- DefaultPolicy
  Leaps = {84, 180}
  MaxNbaClock = 180
  Messages <- MCMessages
  Books <- MCBooks
  Predicates = {"EMPLOYEE_COUNT"}
  NeverEnds = NeverEnds
  NoBook = NoBook
  MaxTalkClock = 2
  Subjects = {p1, p2}
  Claims = {"EMPLOYEE_COUNT"}
  Values = {"10", "20"}
  EvidenceSources <- MCEvidenceSources
  CachePolicy <- MCCachePolicy
  EvidenceStaleAfter = 1
  TitleStaleAfter = 1
  MaxEvidence = 2
  MaxInvalidations = 1
  MaxResearchClock = 2
  JobIds = {k1, k2}
  CorrelationIds = {"c1", "c2"}
  JobTypes = {"RESOLVE_ENTITY", "DISCOVER_HR"}
  ErrorCodes = {"RHIA_SEARCH_TIMEOUT", "RHIA_POLICY_DENIED"}
  NoPart = NoPart
SYMMETRY Interchangeable
CHECK_DEADLOCK FALSE
INVARIANTS
  TypeOK
  BookingsDoNotCollide
  MessagesAreAppliedOnce
  OneProbePerOpening
  SpendingIsBoundedAndAnswered
  RunsTellWhatTheyDid
  ConclusionsAreBacked

\* The CRM: two callers that create records, two tenants whose rows are read
\* while they are created, a tab with two leads and one with two rules.
SPECIFICATION SpecCrm
CONSTANTS
  Callers = {p1, p2}
  CommandKeys = {k1, k2}
  Payloads <- MCPayloads
  Hostname <- MCHostname
  Similarity <- MCSimilarity
  MaxRows = 3
  Tenants = {o1, o2}
  Writers = {p1, p2}
  Readers = {"reader"}
  RecordIds = {1, 2, 3}
  Leads = {1, 2}
  LeadStatuses = {"nuevo", "ganado"}
  FirstStatus = "nuevo"
  Notes = {"note"}
  Slots = {k1, k2}
  MaxSends = 4
  Rules = {1, 2}
  RuleSlots = {k1, k2}
SYMMETRY InterchangeableInCrm
CHECK_DEADLOCK FALSE
INVARIANTS
  RecordsAreNamedAndUnique
  PagesShowWhatIsStored

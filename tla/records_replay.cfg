\* One caller creates a company, a contact and its contact point, and repeats the last.
SPECIFICATION RecordSpec
CONSTANTS
  Callers = {p1}
  CommandKeys = {k1}
  Payloads <- MCPayloads
  Hostname <- MCHostname
  Similarity <- MCSimilarity
  MaxRows = 3
CHECK_DEADLOCK FALSE
INVARIANTS
  RepeatsAreAnswered

\* Two jobs, one of a type without a plan, two workers, under fairness.
SPECIFICATION FairSpec
CONSTANTS
  j1 = j1
  j2 = j2
  NoJob = NoJob
  Jobs = {j1, j2}
  Workers = {w1, w2}
  NSteps = 1
  ActionSteps = {}
  Supported = {j1}
  Rank <- MCRank
  Hashes = {h1}
  MaxRetries = 1
  MaxAttempts = 2
INVARIANTS
  OpenExecutionHoldsTheLease
  OneHolder
PROPERTIES
  LeaseIsNotStolen
  EveryJobEnds
  ImplementsContract

\* The smallest instance: one job, one worker, one step, one retry.
SPECIFICATION Spec
CONSTANTS
  j1 = j1
  j2 = j2
  NoJob = NoJob
  Jobs = {j1}
  Workers = {w1}
  NSteps = 1
  ActionSteps = {}
  Supported = {j1}
  Rank <- MCRankOne
  Hashes = {h1}
  MaxRetries = 1
  MaxAttempts = 2
INVARIANT
  OnlyRetryableErrorsRetry

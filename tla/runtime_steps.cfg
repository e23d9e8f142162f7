\* One job, two workers, two steps, the first with an action, and inputs that
\* may differ between attempts.
SPECIFICATION Spec
CONSTANTS
  j1 = j1
  j2 = j2
  NoJob = NoJob
  Jobs = {j1}
  Workers = {w1, w2}
  NSteps = 2
  ActionSteps = {1}
  Supported = {j1}
  Rank <- MCRankOne
  Hashes = {h1, h2}
  MaxRetries = 2
  MaxAttempts = 3
SYMMETRY WorkerSymmetry
INVARIANTS
  HolderRunsUnrecordedSteps
  RecordedStepsWerePerformed
  SucceededJobsAreComplete
  ActionFollowsCheckpoint
PROPERTIES
  StepWritesAreFenced
  EndedJobsAreFrozen
CHECK_DEADLOCK TRUE

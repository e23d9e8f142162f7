\* Two requests at a time with two keys: in one scope they create, retry and
\* cancel two jobs, so that a key also comes back for another job; in the other
\* two users ask for an approval of one job and decide it. Executors claim the
\* jobs, take them over and end them.
SPECIFICATION ScopedSpec
CONSTANTS
  None = None
  Slots = {r1, r2}
  Operations <- AllOperations
  Keys = {k1, k2}
  Payloads = {p1}
  Jobs = {j1, j2}
  Approvals = {a1}
  Users = {u1, u2}
  Humans = {u1, u2}
  MaxRetries = 1
SYMMETRY InterchangeableButJobs
CHECK_DEADLOCK TRUE
INVARIANTS
  OneEffectPerKey
  AnswersAreRecorded
  ExecutionsMatchTheJob
  DecisionsAreRecordedOnce

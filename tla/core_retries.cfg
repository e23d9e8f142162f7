\* Two requests at a time that create, retry and cancel one job while executors
\* claim, take over, fail and end it; the retry limit is the one of the source.
\* Handlers are fair, so no two keys or slots are taken for the same.
SPECIFICATION JobsFairSpec
CONSTANTS
  None = None
  Slots = {r1, r2}
  Operations <- JobCommands
  Keys = {k1, k2}
  Payloads = {p1}
  Jobs = {j1}
  Approvals = {a1}
  Users = {u1}
  Humans = {u1}
  MaxRetries = 3
CHECK_DEADLOCK TRUE
INVARIANTS
  RetriesAreAccounted
PROPERTIES
  OnlyIdleJobsAreCancelled
  EveryRequestIsAnswered

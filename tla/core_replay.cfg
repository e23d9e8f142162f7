\* The same command sent twice, before its first answer.
SPECIFICATION Spec
CONSTANTS
  None = None
  Slots = {r1, r2}
  Operations <- JobCommands
  Keys = {k1}
  Payloads = {p1}
  Jobs = {j1}
  Approvals = {a1}
  Users = {u1}
  Humans = {u1}
  MaxRetries = 1
CHECK_DEADLOCK TRUE
PROPERTIES
  RepeatedCommandsAreReplayed

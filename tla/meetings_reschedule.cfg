\* One caller, a provider that fails without effect: what a failed reschedule leaves.
SPECIFICATION MeetingSpec
CONSTANTS
  Clients = {p1}
  BookingKeys = {k1}
  Contacts = {"contact"}
  Slots <- MCSlots
  MaxEvents = 2
  AnswersGetLost = FALSE
CHECK_DEADLOCK FALSE
INVARIANTS
  FailedReschedulesChangeNothing

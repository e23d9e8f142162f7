\* Two workers advance one sequence: two touches, three with an exception.
SPECIFICATION Spec
CONSTANTS
  EnabledChannels <- MCChannels
  Spacing <- MCSpacing
  MaxProactiveTouches = 2
  Holidays <- MCHolidays
  Callers = {w1, w2}
  SendKeys = {1, 2, 3, 4, 5}
  Contents = {c1, c2}
  MaxSends = 3
  StartedAt = 6
  Horizon = 28
  Signals = {"MEETING_BOOKED"}
  Overrides <- MCOverrides
SYMMETRY Interchangeable
CHECK_DEADLOCK FALSE
INVARIANTS
  TypeOK
  OneConfirmedDelivery
  TouchesKeepTheCadence
  StopsHold
  PreviewIsWithinThePlan

------------------------- MODULE MCMeetingScheduler -------------------------
(* What can be asked of meetings, for TLC: two times that overlap.         *)
EXTENDS MeetingScheduler

MCSlots == {[start |-> 0, end |-> 2], [start |-> 1, end |-> 3]}
=============================================================================

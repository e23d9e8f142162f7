-------------------------- MODULE MeetingScheduler --------------------------
(***************************************************************************)
(* bookMeeting, rescheduleMeeting, cancelMeeting, markNoShow and           *)
(* recordAttendance of meeting-scheduler, against a calendar provider that *)
(* fails, or succeeds without the caller hearing of it.                    *)
(*                                                                         *)
(* The package keeps nothing but the idempotency record of its bookings.   *)
(* Its callers, which are not part of the repository, read the meetings,   *)
(* call, and save the whole meeting they are given back; several of them   *)
(* overlap and any of them may die.  The provider answers EVENT_NOT_FOUND  *)
(* for an event that is gone.                                              *)
(***************************************************************************)
EXTENDS Naturals, Sequences, FiniteSets

CONSTANTS
  Clients,        \* operations under way at the same time
  BookingKeys,    \* idempotency keys of meeting.book
  Contacts,
  Slots,          \* [start, end] of what can be asked for
  MaxEvents,      \* bound on the events the provider ever creates
  AnswersGetLost  \* an operation of the provider may take effect and FAIL

ASSUME MeetingAssumption ==
  /\ Slots \subseteq [start : Nat, end : Nat]
  /\ MaxEvents \in Nat

Duration == 2     \* DEFAULT_MEETING_DURATION_MINUTES, in quarters of an hour

VARIABLES
  calendar,       \* the events the provider created: meeting it is for, live
  meetings,       \* the saved meetings, by id
  bookings,       \* core_idempotency, operation meeting.book
  op,             \* by client, the operation under way
  overtaken       \* history: meetings saved when what their caller had read
                  \* was no longer true

meetingVars == <<calendar, meetings, bookings, op, overtaken>>

\* A meeting's id is the number of the event it was booked with.
MeetingIds == 1..MaxEvents
MeetingStates == {"BOOKED", "CONFIRMED", "ATTENDED", "NO_SHOW", "CANCELLED", "RESCHEDULED"}

\* attended is the status ATTENDED; the qualification a caller gives with it is
\* left out.
Meeting == [contact : Contacts, start : Nat, status : MeetingStates, event : MeetingIds]
NoMeeting == [contact |-> "none", start |-> 0, status |-> "none", event |-> 0]

\* stateMachines.meeting
MeetingTransitions ==
  {<<"BOOKED", s>> : s \in MeetingStates \ {"BOOKED"}}
    \cup {<<"CONFIRMED", s>> : s \in MeetingStates \ {"BOOKED", "CONFIRMED"}}
MeetingCan(from, to) == <<from, to>> \in MeetingTransitions

NoBooking == [contact |-> "none", slot |-> [start |-> 0, end |-> 0], meeting |-> 0]
Operation == [
  at : {"idle", "lookup", "cancel", "create", "record", "save", "cancelFailed", "createFailed"},
  kind : {"none", "book", "reschedule", "cancel", "outcome"},
  key : BookingKeys \cup {"none"}, slot : [start : Nat, end : Nat], id : Nat,
  row : [contact : Contacts \cup {"none"}, start : Nat, status : MeetingStates \cup {"none"},
         event : Nat],
  free : BOOLEAN, overtaken : BOOLEAN, replay : BOOLEAN]
NoOp == [at |-> "idle", kind |-> "none", key |-> "none", slot |-> [start |-> 0, end |-> 0],
         id |-> 0, row |-> NoMeeting, free |-> TRUE, overtaken |-> FALSE, replay |-> FALSE]

MeetingInit ==
  /\ calendar = << >>
  /\ meetings = [m \in MeetingIds |-> NoMeeting]
  /\ bookings = [k \in BookingKeys |-> NoBooking]
  /\ op = [c \in Clients |-> NoOp]
  /\ overtaken = {}

-----------------------------------------------------------------------------

\* findDoubleBookingConflict: meetings of the contact that hold their time.
Overlapping(slot, row) == slot.start < row.start + Duration /\ row.start < slot.end
Conflicts(rows, contact, slot) ==
  {row \in rows : row.contact = contact /\ row.status # "CANCELLED" /\ Overlapping(slot, row)}

Saved == {m \in MeetingIds : meetings[m] # NoMeeting}
OthersOf(m) == {meetings[n] : n \in Saved \ {m}}

NewMeeting(contact, slot, event) ==
  [contact |-> contact, start |-> slot.start, status |-> "BOOKED", event |-> event]

Go(c, place) == op' = [op EXCEPT ![c].at = place]

\* Refused, failed or dead: nothing is saved.
End(c) == op' = [op EXCEPT ![c] = NoOp]

\* The time is free in the list of meetings the caller read for the call.
BeginBooking(c, key, contact, slot) ==
  /\ op[c].at = "idle"
  /\ op' = [op EXCEPT ![c] = [NoOp EXCEPT !.at = "lookup", !.kind = "book", !.key = key,
              !.slot = slot, !.row = [NoMeeting EXCEPT !.contact = contact],
              !.free = Conflicts(OthersOf(0), contact, slot) = {}]]
  /\ UNCHANGED <<calendar, meetings, bookings, overtaken>>

\* A record of the same request is replayed; one of another request is passed
\* over.  DOUBLE_BOOKED ends the call.
LookupBooking(c) ==
  LET o == op[c]
      found == bookings[o.key] IN
  /\ o.at = "lookup"
  /\ IF found # NoBooking /\ found.contact = o.row.contact /\ found.slot = o.slot
     THEN op' = [op EXCEPT ![c].at = "save", ![c].id = found.meeting, ![c].replay = TRUE,
                           ![c].row = NewMeeting(found.contact, found.slot, found.meeting)]
     ELSE IF o.free THEN Go(c, "create") ELSE End(c)
  /\ UNCHANGED <<calendar, meetings, bookings, overtaken>>

\* The row is what the caller last read; the others are read with it.
BeginReschedule(c, m, slot) ==
  /\ op[c].at = "idle"
  /\ m \in Saved
  /\ MeetingCan(meetings[m].status, "RESCHEDULED")
  /\ Conflicts(OthersOf(m), meetings[m].contact, slot) = {}
  /\ op' = [op EXCEPT ![c] = [NoOp EXCEPT !.at = "cancel", !.kind = "reschedule", !.id = m,
              !.row = meetings[m], !.slot = slot]]
  /\ UNCHANGED <<calendar, meetings, bookings, overtaken>>

BeginCancel(c, m) ==
  /\ op[c].at = "idle"
  /\ m \in Saved
  /\ MeetingCan(meetings[m].status, "CANCELLED")
  /\ op' = [op EXCEPT ![c] = [NoOp EXCEPT !.at = "cancel", !.kind = "cancel", !.id = m,
              !.row = meetings[m]]]
  /\ UNCHANGED <<calendar, meetings, bookings, overtaken>>

\* markNoShow and recordAttendance do not call the provider.
BeginOutcome(c, m, status) ==
  /\ op[c].at = "idle"
  /\ m \in Saved
  /\ MeetingCan(meetings[m].status, status)
  /\ op' = [op EXCEPT ![c] = [NoOp EXCEPT !.at = "save", !.kind = "outcome", !.id = m,
              !.row = [meetings[m] EXCEPT !.status = status]]]
  /\ UNCHANGED <<calendar, meetings, bookings, overtaken>>

\* cancelEvent succeeds on a live event.  A reschedule then creates the new one.
CancelEvent(c) ==
  LET o == op[c] IN
  /\ o.at = "cancel"
  /\ calendar[o.row.event].live
  /\ calendar' = [calendar EXCEPT ![o.row.event].live = FALSE]
  /\ IF o.kind = "reschedule" THEN Go(c, "create")
     ELSE op' = [op EXCEPT ![c].at = "save", ![c].row = [o.row EXCEPT !.status = "CANCELLED"]]
  /\ UNCHANGED <<meetings, bookings, overtaken>>

Create(o) == Append(calendar, [for |-> IF o.kind = "book" THEN Len(calendar) + 1 ELSE o.id,
                               live |-> TRUE])

CreateEvent(c) ==
  LET o == op[c]
      event == Len(calendar) + 1 IN
  /\ o.at = "create"
  /\ event <= MaxEvents
  /\ calendar' = Create(o)
  /\ op' = [op EXCEPT ![c] =
       IF o.kind = "book"
       THEN [o EXCEPT !.at = "record", !.id = event,
               !.row = NewMeeting(o.row.contact, o.slot, event)]
       ELSE [o EXCEPT !.at = "save",
               !.row = [o.row EXCEPT !.start = o.slot.start, !.status = "RESCHEDULED",
                                     !.event = event]]]
  /\ UNCHANGED <<meetings, bookings, overtaken>>

\* PROVIDER_FAILED: the meeting stays as it was.  What was asked of the provider
\* did not happen or, when its answer is lost, did.
ProviderFailed(c) ==
  LET o == op[c] IN
  /\ o.at \in {"cancel", "create"}
  /\ \/ UNCHANGED calendar
     \/ /\ AnswersGetLost
        /\ \/ o.at = "cancel" /\ calendar' = [calendar EXCEPT ![o.row.event].live = FALSE]
           \/ o.at = "create" /\ Len(calendar) < MaxEvents /\ calendar' = Create(o)
  /\ op' = [op EXCEPT ![c].at = IF o.at = "create" THEN "createFailed" ELSE "cancelFailed"]
  /\ UNCHANGED <<meetings, bookings, overtaken>>

\* An INSERT: a booking under a key that has a record throws.
RecordBooking_asUpsert(c) ==
  LET o == op[c] IN
  /\ o.at = "record"
  /\ bookings' = [bookings EXCEPT ![o.key] =
       [contact |-> o.row.contact, slot |-> o.slot, meeting |-> o.id]]
  /\ Go(c, "save")
  /\ UNCHANGED <<calendar, meetings, overtaken>>
RecordBooking(c) ==
  LET o == op[c] IN
  /\ o.at = "record"
  /\ IF bookings[o.key] = NoBooking
     THEN /\ bookings' = [bookings EXCEPT ![o.key] =
               [contact |-> o.row.contact, slot |-> o.slot, meeting |-> o.id]]
          /\ Go(c, "save")
     ELSE End(c) /\ UNCHANGED bookings
  /\ UNCHANGED <<calendar, meetings, overtaken>>

\* The caller saves what it was given; a replayed booking only if it is missing.
\* What the other callers read is then no longer true.
Save(c) ==
  LET o == op[c]
      writes == ~(o.replay /\ o.id \in Saved) IN
  /\ o.at = "save"
  /\ meetings' = IF writes THEN [meetings EXCEPT ![o.id] = o.row] ELSE meetings
  /\ overtaken' = IF writes /\ (o.replay \/ o.overtaken) THEN overtaken \cup {o.id} ELSE overtaken
  /\ op' = [d \in Clients |->
       IF d = c THEN NoOp
       ELSE [op[d] EXCEPT !.overtaken = @ \/ (writes /\ op[d].at # "idle")]]
  /\ UNCHANGED <<calendar, bookings>>

\* The caller hears of the failure, or dies with its operation half done.
Abandon(c) ==
  /\ op[c].at # "idle"
  /\ End(c)
  /\ UNCHANGED <<calendar, meetings, bookings, overtaken>>

MeetingNext ==
  \E c \in Clients :
    \/ \E k \in BookingKeys, p \in Contacts, s \in Slots : BeginBooking(c, k, p, s)
    \/ \E m \in MeetingIds, s \in Slots : BeginReschedule(c, m, s)
    \/ \E m \in MeetingIds : BeginCancel(c, m)
    \/ \E m \in MeetingIds, s \in {"ATTENDED", "NO_SHOW"} : BeginOutcome(c, m, s)
    \/ LookupBooking(c) \/ CancelEvent(c) \/ CreateEvent(c) \/ ProviderFailed(c)
    \/ RecordBooking(c) \/ Save(c) \/ Abandon(c)

MeetingSpec == MeetingInit /\ [][MeetingNext]_meetingVars

-----------------------------------------------------------------------------
(* Properties.                                                             *)

MeetingTypeOK ==
  /\ calendar \in Seq([for : MeetingIds, live : BOOLEAN]) /\ Len(calendar) <= MaxEvents
  /\ meetings \in [MeetingIds -> Meeting \cup {NoMeeting}]
  /\ bookings \in [BookingKeys ->
       [contact : Contacts, slot : Slots, meeting : MeetingIds] \cup {NoBooking}]
  /\ op \in [Clients -> Operation]
  /\ \A c \in Clients : op[c].at \in {"cancel", "record", "save"} => op[c].row \in Meeting
  /\ overtaken \subseteq MeetingIds

SlotsAreLongEnough == \A s \in Slots : s.end >= s.start + Duration

LiveEvents(m) == {e \in DOMAIN calendar : calendar[e].for = m /\ calendar[e].live}

\* "Nunca deja dos eventos reales simultaneos para el mismo meeting": the old
\* event is cancelled first and only one operation can cancel it, however many
\* reschedule or cancel the meeting at once.  A cancelled meeting has none.
\* The bookings of a key, whether they overlap, repeat or ask for another slot,
\* leave one meeting at most.  Where the slots asked for are as long as a meeting is
\* taken to be, which the code leaves to its callers, two meetings of a contact share a
\* time only if one of them was saved when the list its caller had read was no longer
\* true.
BookingsDoNotCollide ==
  /\ \A m \in Saved :
       /\ Cardinality(LiveEvents(m)) <= 1
       /\ meetings[m].status = "CANCELLED" => LiveEvents(m) = {}
       /\ Cardinality({k \in BookingKeys : bookings[k].meeting = m}) = 1
  /\ SlotsAreLongEnough => \A m, n \in Saved \ overtaken :
       /\ m # n /\ meetings[m].contact = meetings[n].contact
       /\ meetings[m].status # "CANCELLED" /\ meetings[n].status # "CANCELLED"
       => ~Overlapping([start |-> meetings[m].start, end |-> meetings[m].start + Duration], meetings[n])

\* What scheduler.ts says of a reschedule that fails at any step: the meeting
\* is left as it was, never in between.
FailedReschedulesChangeNothing ==
  \A c \in Clients :
    op[c].kind = "reschedule" /\ op[c].at = "createFailed" => calendar[op[c].row.event].live
=============================================================================

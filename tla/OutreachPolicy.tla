--------------------------- MODULE OutreachPolicy ---------------------------
(***************************************************************************)
(* The pure part of a sequence of touches: planNextTouch of outreach-policy*)
(* and, from sequence-engine, the holidays and the preview of a plan.      *)
(*                                                                         *)
(* Time is local to the person who is contacted and counted in half days:  *)
(* the contact window is 08:00-20:00, so 2 * d is the open half of day d   *)
(* and 2 * d + 1 the closed one.  Day 0 is a Monday.  The search for a     *)
(* window goes in steps of 15 minutes, of half a day here.                 *)
(***************************************************************************)
EXTENDS Naturals, Sequences, FiniteSets, FiniteSetsExt

CONSTANTS
  EnabledChannels,      \* the enabled channels of the policy, in its order
  Spacing,              \* minimumHoursBetweenTouches of each, in half days
  MaxProactiveTouches,  \* of the policy
  Holidays              \* days of the HolidayCalendar

MaxApproved == 5        \* no override allows more
Cadence == <<0, 3, 7>>  \* business days after the start

Channels == {EnabledChannels[i] : i \in DOMAIN EnabledChannels}

ASSUME PolicyAssumption ==
  /\ EnabledChannels \in Seq(Channels)
  /\ Spacing \in [Channels -> Nat]
  /\ MaxProactiveTouches \in 1..MaxApproved
  /\ Holidays \subseteq Nat

NoKey == 0              \* no requestedIdempotencyKey
Keys == 1..MaxApproved  \* key n stands for <sequenceId>:touch:n

SentStatus == {"SENT", "FAILED", "REPLIED", "OPTED_OUT"}
Touch == [key : Keys, channel : Channels, plannedAt : Nat, status : SentStatus \cup {"PLANNED"}]

-----------------------------------------------------------------------------
(* The calendar.                                                           *)

Day(t) == t \div 2
Weekday(d) == d % 7 \notin {5, 6}

IsWithinContactWindow(t) == t % 2 = 0 /\ Weekday(Day(t))

AddBusinessDays(t, n) ==
  t + 2 * Min({d \in 0..(2 * n + 2) : Cardinality({e \in 1..d : Weekday(Day(t) + e)}) = n})

NextContactWindow(t) == Min({s \in t..(t + 9) : IsWithinContactWindow(s)})

IsHoliday(t) == Day(t) \in Holidays

\* The loop gives up, with an exception, after nine days.
WorkingSlots(t) == {s \in t..(t + 17) : IsWithinContactWindow(s) /\ ~IsHoliday(s)}

-----------------------------------------------------------------------------
(* planNextTouch.  A context is [ledger, signals, suppressed, override]:   *)
(* the touches on record, the stop signals, whether the subject is on the  *)
(* suppression list, and an approved exception to the limit.               *)

NoOverride == [max |-> 0, expiresAt |-> 0, matches |-> FALSE]

Stopped_repliesAside(context) == context.suppressed \/ context.signals # {}
Stopped(context) ==
  \/ context.suppressed
  \/ context.signals # {}
  \/ \E i \in DOMAIN context.ledger : context.ledger[i].status \in {"OPTED_OUT", "REPLIED"}

\* An override counts if it is for this sequence, raises the limit to at most
\* five, and has not expired.
ApprovedMaximum(context, now) ==
  IF /\ context.override.matches
     /\ context.override.max > MaxProactiveTouches
     /\ context.override.max <= MaxApproved
     /\ context.override.expiresAt > now
  THEN context.override.max
  ELSE MaxProactiveTouches

\* Touches by key: a Map keeps the place of the first entry of a key and the
\* value of the last.
KeysOf(ledger) == {ledger[i].key : i \in DOMAIN ledger}
Ordinal_byEntries(ledger) == Len(ledger)
Ordinal(ledger) == Cardinality(KeysOf(ledger))
LastTouch(ledger) ==
  LET first == Max({i \in DOMAIN ledger : \A j \in 1..(i - 1) : ledger[j].key # ledger[i].key})
  IN ledger[Max({i \in DOMAIN ledger : ledger[i].key = ledger[first].key})]

SelectedChannel(ledger) == EnabledChannels[(Ordinal(ledger) % Len(EnabledChannels)) + 1]

Candidate(ledger, startedAt, now) ==
  Max({AddBusinessDays(startedAt, Cadence[Min({Ordinal(ledger) + 1, Len(Cadence)})]), now}
      \cup (IF ledger = << >> THEN {}
            ELSE {LastTouch(ledger).plannedAt + Spacing[SelectedChannel(ledger)]}))

TouchKey_fromZero(ledger) == Ordinal(ledger)
TouchKey(ledger) == Ordinal(ledger) + 1

Outcome(name) == [outcome |-> name]

PlanNextTouch(context, requested, startedAt, now) ==
  LET ledger == context.ledger IN
  CASE Stopped(context) -> Outcome("STOPPED")
    [] ~Stopped(context) /\ requested \in KeysOf(ledger) -> Outcome("DUPLICATE")
    [] /\ ~Stopped(context) /\ requested \notin KeysOf(ledger)
       /\ Ordinal(ledger) >= ApprovedMaximum(context, now) \/ EnabledChannels = << >>
       -> Outcome("COMPLETE")
    [] OTHER ->
       [outcome |-> "SCHEDULED",
        touch |-> [key |-> IF requested = NoKey THEN TouchKey(ledger) ELSE requested,
                   channel |-> SelectedChannel(ledger),
                   plannedAt |-> NextContactWindow(Candidate(ledger, startedAt, now)),
                   status |-> "PLANNED"]]

\* rescheduleAroundHolidays, over what planNextTouch answered.
AroundHolidays_unchecked(plan) == plan
AroundHolidays(plan) ==
  IF plan.outcome # "SCHEDULED" \/ Holidays = {} THEN plan
  ELSE LET slots == WorkingSlots(plan.touch.plannedAt) IN
       IF slots = {} THEN Outcome("THROWN") ELSE [plan EXCEPT !.touch.plannedAt = Min(slots)]

-----------------------------------------------------------------------------
(* buildTouchPlan: the touches that are left, as if each were sent when    *)
(* planned.  It looks ahead at most MaxProactiveTouches times.             *)

ExtendPlan(found, context, startedAt, now) ==
  LET plan == AroundHolidays(PlanNextTouch(
                [context EXCEPT !.ledger = @ \o found.touches], NoKey, startedAt, now))
  IN IF found.outcome = "PLAN" /\ plan.outcome = "SCHEDULED"
     THEN [found EXCEPT !.touches = Append(@, [plan.touch EXCEPT !.status = "SENT"])]
     ELSE [found EXCEPT !.outcome = IF @ = "PLAN" THEN plan.outcome ELSE @]

TouchPlan(context, startedAt, now) ==
  LET found[n \in 0..MaxProactiveTouches] ==
        IF n = 0 THEN [outcome |-> "PLAN", touches |-> << >>]
        ELSE ExtendPlan(found[n - 1], context, startedAt, now)
  IN found[MaxProactiveTouches]
=============================================================================

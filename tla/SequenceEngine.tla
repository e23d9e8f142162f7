--------------------------- MODULE SequenceEngine ---------------------------
(***************************************************************************)
(* advanceSequence (sequence-engine) over OutreachPolicy and               *)
(* ChannelGateway, for one sequence that several workers advance.          *)
(*                                                                         *)
(* The callers of advanceSequence are not part of the repository.  They    *)
(* are modelled as the packages ask of them: each reads the ledger as it   *)
(* is when it calls, and enters a touch in it when its send has ended, as  *)
(* SENT or FAILED, or leaves it out and asks for its key again.  Stop      *)
(* signals come at any moment, also between a plan and its send.           *)
(***************************************************************************)
EXTENDS OutreachPolicy, ChannelGateway

CONSTANTS
  StartedAt,  \* when the sequence started
  Horizon,    \* bound on time
  Signals,    \* stop signals that can arrive
  Overrides   \* approved exceptions to the limit

ASSUME EngineAssumption ==
  /\ SendKeys = Keys
  /\ StartedAt \in Nat /\ Horizon \in Nat /\ StartedAt <= Horizon
  /\ Overrides \subseteq [max : Nat, expiresAt : Nat, matches : BOOLEAN]

VARIABLES
  now,        \* the clock, in half days
  context,    \* what callers read of the sequence: ledger, signals, ...
  touch,      \* the touch a caller is sending
  sentAt,     \* history: by key, when the provider took a message
  grace       \* history: callers that were sending when a stop became known

sequenceVars == <<now, context, touch, sentAt, grace>>
vars == <<gatewayVars, sequenceVars>>

NoTouch == [key |-> NoKey, channel |-> "none", plannedAt |-> 0, status |-> "none"]
\* What a stop is, whatever planNextTouch makes of it.
StopKnown ==
  \/ context.suppressed \/ context.signals # {}
  \/ \E i \in DOMAIN context.ledger : context.ledger[i].status \in {"REPLIED", "OPTED_OUT"}

Sending == {c \in Callers : pc[c] # "idle"}

Init ==
  /\ GatewayInit
  /\ now = StartedAt
  /\ \E o \in Overrides \cup {NoOverride} :
       context = [ledger |-> << >>, signals |-> {}, suppressed |-> FALSE, override |-> o]
  /\ touch = [c \in Callers |-> NoTouch]
  /\ sentAt = [k \in Keys |-> {}]
  /\ grace = {}

-----------------------------------------------------------------------------

\* Keys a caller may ask for: those that earlier plans gave.
Known == 1..(Ordinal(context.ledger) + 1)

\* STOPPED, COMPLETE and DUPLICATE return without effect, and so does a touch
\* for later (DEFERRED).  One that is due is sent.
Advance(c, requested) ==
  LET plan == AroundHolidays(PlanNextTouch(context, requested, StartedAt, now)) IN
  /\ pc[c] = "idle"
  /\ plan.outcome = "SCHEDULED"
  /\ plan.touch.plannedAt <= now
  /\ \E content \in Contents, usable \in BOOLEAN :
       BeginSend(c, [key |-> plan.touch.key, content |-> content], usable)
  /\ touch' = [touch EXCEPT ![c] = plan.touch]
  /\ UNCHANGED <<now, context, sentAt, grace>>

Proceed(c) ==
  /\ GatewayStep(c)
  /\ touch' = [touch EXCEPT ![c] = IF pc'[c] = "idle" THEN NoTouch ELSE @]
  /\ UNCHANGED <<now, context, sentAt, grace>>

\* The provider takes a message: now is when the person gets it.
Deliver(c) ==
  /\ Take(c) \/ LateArrival(c)
  /\ sentAt' = [k \in Keys |-> IF inbox'[k] # inbox[k] THEN sentAt[k] \cup {now} ELSE sentAt[k]]
  /\ UNCHANGED <<now, context, touch, grace>>

\* The caller enters the touch, SENT or FAILED, or lets it be tried again; a
\* call that threw gives it nothing to enter.
Finish(c) ==
  /\ pc[c] = "answered"
  /\ \/ /\ result[c].status # "THROWN"
        /\ context' = [context EXCEPT !.ledger = Append(@,
             [touch[c] EXCEPT !.status = IF result[c].status = "SUCCEEDED" THEN "SENT" ELSE "FAILED"])]
     \/ /\ result[c].status # "SUCCEEDED"
        /\ UNCHANGED context
  /\ Return(c)
  /\ UNCHANGED late
  /\ touch' = [touch EXCEPT ![c] = NoTouch]
  /\ UNCHANGED <<now, sentAt, grace>>

\* A signal, a suppression, or an answer or opt-out entered with the touch it
\* answers.
Stop ==
  /\ ~StopKnown
  /\ \/ \E s \in Signals : context' = [context EXCEPT !.signals = @ \cup {s}]
     \/ context' = [context EXCEPT !.suppressed = TRUE]
     \/ \E i \in DOMAIN context.ledger, s \in {"REPLIED", "OPTED_OUT"} :
          /\ context.ledger[i].status = "SENT"
          /\ context' = [context EXCEPT !.ledger[i].status = s]
  /\ grace' = Sending
  /\ UNCHANGED <<gatewayVars, now, touch, sentAt>>

\* A send, its late arrival included, is over within its half day (the timeout
\* is of seconds).
Tick ==
  /\ now < Horizon
  /\ Sending = {} /\ \A c \in Callers : late[c] = {}
  /\ now' = now + 1
  /\ UNCHANGED <<gatewayVars, context, touch, sentAt, grace>>

Next ==
  \/ \E c \in Callers :
       \/ \E requested \in Known \cup {NoKey} : Advance(c, requested)
       \/ Proceed(c) \/ Deliver(c) \/ Finish(c)
  \/ Stop \/ Tick

Spec == Init /\ [][Next]_vars

-----------------------------------------------------------------------------
(* Properties.                                                             *)

TypeOK ==
  /\ record \in [SendKeys -> Record \cup {NoRecord}]
  /\ inbox \in [SendKeys -> Seq(Contents)]
  /\ late \in [Callers -> SUBSET Request]
  /\ pc \in [Callers -> Places]
  /\ request \in [Callers -> Request \cup {NoRequest}]
  /\ result \in [Callers -> Result]
  /\ confirmed \in [SendKeys -> Nat]
  /\ sends \in 0..MaxSends
  /\ now \in StartedAt..Horizon
  /\ context \in [ledger : Seq(Touch), signals : SUBSET Signals, suppressed : BOOLEAN,
                  override : Overrides \cup {NoOverride}]
  /\ touch \in [Callers -> Touch \cup {NoTouch}]
  /\ sentAt \in [Keys -> SUBSET Nat]
  /\ grace \subseteq Callers

Highest(o) == IF o.matches /\ o.max \in MaxProactiveTouches..MaxApproved
              THEN o.max ELSE MaxProactiveTouches

\* A person never gets more different touches than the policy or its approved
\* exception allows, in their order, each at its distance from the one before
\* and in working hours, whichever workers advance the sequence and whatever
\* they could not record.
TouchesKeepTheCadence ==
  LET sent == {k \in Keys : sentAt[k] # {}} IN
  /\ \A k \in sent : k <= Highest(context.override)
  /\ \A k \in sent : \A t \in sentAt[k] : IsWithinContactWindow(t) /\ ~IsHoliday(t)
  /\ \A k \in sent, l \in sent : k < l =>
       \A t \in sentAt[k], u \in sentAt[l] :
         u >= t + Spacing[EnabledChannels[((l - 1) % Len(EnabledChannels)) + 1]]

\* Once a stop is known only the sends that were already under way go on.
StopsHold == StopKnown => Sending \subseteq grace

\* The preview of a plan promises only touches that are still allowed, in order
\* and spaced like the real ones.
PreviewIsWithinThePlan ==
  LET plan == TouchPlan(context, StartedAt, now)
      n == Cardinality(KeysOf(context.ledger)) IN
  /\ \A i \in DOMAIN plan.touches :
       /\ plan.touches[i].key = n + i
       /\ n + i <= ApprovedMaximum(context, now)
       /\ plan.touches[i].plannedAt >= now
       /\ i > 1 => plan.touches[i].plannedAt >=
                     plan.touches[i - 1].plannedAt + Spacing[plan.touches[i].channel]
  /\ StopKnown => plan.touches = << >>
=============================================================================

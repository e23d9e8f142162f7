---------------------------- MODULE Monitoring -----------------------------
(***************************************************************************)
(* What RHIA watches of itself: the scores of components from the events   *)
(* of rhia.system_health_event (observability, search-health), the rules   *)
(* that turn scores and other signals into alerts, and dedupeAlerts, which *)
(* decides what is notified (alerting).                                    *)
(*                                                                         *)
(* The packages keep no state.  Whoever calls them, outside this           *)
(* repository, reads the alerts already fired, evaluates, notifies and     *)
(* saves, perhaps twice at a time; one signal, watch, moves in a behaviour.*)
(* A unit of the clock is the half-life of an event (72 h); weights are    *)
(* multiplied by 2 * 2^HealthWindow to be integers.                        *)
(***************************************************************************)
EXTENDS Integers, Sequences, FiniteSets, FiniteSetsExt, SequencesExt

CONSTANTS
  Evaluators,
  Observed,          \* the statuses that occur
  HealthWindow,      \* windowDays, in whole half-lives
  MinSampleWeight,
  Cooldown,          \* cooldownMs
  StaleAfter,        \* staleThresholdSeconds and maxAgeHours
  CostLimits,        \* by period
  MinSampleSize, BounceRate,         \* of touches; the rate in percent
  DenyThreshold, DenyWindow,
  MaxClock, MaxSignals, MaxSpent, MaxNotices   \* bounds

ASSUME MonitoringAssumption ==
  /\ IsFiniteSet(DOMAIN CostLimits)
  /\ HealthWindow \in Nat /\ MinSampleWeight \in Nat
  /\ Cooldown \in Nat /\ MaxClock \in Nat /\ MaxSignals \in Nat /\ MaxSpent \in Nat

VARIABLES
  clock,
  watch,          \* what the behaviour watches
  signals,        \* its events and values
  active,         \* lastFiredAt by alert id, Never if none
  evaluation,     \* of each evaluator: when, what to fire and not, whether notified
  notices,        \* history: the alerts notified
  disturbed       \* history: evaluations overlapped or one died unsaved

monitoringVars == <<clock, watch, signals, active, evaluation, notices, disturbed>>

Never == -1
Periods == DOMAIN CostLimits
HealthKinds == {"model_provider", "search_engine"}
Watches == HealthKinds \cup {"queue", "backup", "budget", "touches", "denials"}

NoEvaluation == [at |-> Never, toFire |-> {}, suppressed |-> {}, notified |-> FALSE]
NoSignals ==
  [events |-> << >>, pendingSince |-> Never, lastBackup |-> Never,
   spent |-> [p \in Periods |-> 0], relevant |-> 0, bounced |-> 0, denials |-> << >>]

-----------------------------------------------------------------------------
(* Scores.                                                                 *)

Recent(events) ==
  {i \in DOMAIN events : clock - HealthWindow <= events[i].at /\ events[i].at <= clock}

\* 2^n: what an event weighs n half-lives before it leaves the window.
Weight[n \in 0..HealthWindow] == IF n = 0 THEN 1 ELSE 2 * Weight[n - 1]

Decay_ofFailures(e) ==
  Weight[IF e.status = "OK" THEN HealthWindow ELSE HealthWindow - (clock - e.at)]
Decay(e) == Weight[HealthWindow - (clock - e.at)]

\* STATUS_FAILURE_SEVERITY and FAILURE_SEVERITY, doubled.  The first has no entry
\* for the statuses that search-health writes: a weight times undefined is NaN.
\* The second falls back to 1.
ComponentStatuses == {"OK", "DEGRADED", "DOWN", "UNKNOWN"}
EngineStatuses == {"OK", "CAPTCHA", "TIMEOUT"}
Severity == [s \in (ComponentStatuses \cup EngineStatuses) |->
               CASE s = "OK" -> 0 [] s \in {"DOWN", "CAPTCHA"} -> 3 [] OTHER -> 2]

Worth == [s \in (ComponentStatuses \cup EngineStatuses) |-> IF s = "OK" THEN 2 ELSE 0]

\* What the events of the window add up to, the older the less.
SumOfRecent(events, worth) ==
  LET sum[n \in 0..Len(events)] ==
        IF n = 0 THEN 0
        ELSE sum[n - 1] + IF n \in Recent(events)
                          THEN worth[events[n].status] * Decay(events[n]) ELSE 0
  IN sum[Len(events)]
Success(events) == SumOfRecent(events, Worth)
Failure(events) == SumOfRecent(events, Severity)

LastStatus(events) ==
  LET recent == Recent(events) IN
  events[CHOOSE i \in recent : \A j \in recent :
           events[j].at < events[i].at \/ (events[j].at = events[i].at /\ j <= i)].status

Enough(events) ==
  Success(events) + Failure(events) >= MinSampleWeight * 2 * Weight[HealthWindow]
ScoreAtLeast(events, percent) ==
  100 * Success(events) >= percent * (Success(events) + Failure(events))

\* No comparison holds of a score that is NaN.
ComponentClass(events) ==
  LET isNaN == \E i \in Recent(events) : events[i].status \notin ComponentStatuses IN
  IF Recent(events) = {} \/ (~isNaN /\ ~Enough(events)) THEN "NO_DATA"
  ELSE IF ~isNaN /\ ScoreAtLeast(events, 85) THEN "HEALTHY"
  ELSE IF ~isNaN /\ ScoreAtLeast(events, 50) THEN "UNSTABLE"
  ELSE IF LastStatus(events) = "DOWN" THEN "DOWN" ELSE "DEGRADED"

EngineClass(events) ==
  IF Recent(events) = {} THEN "SIN_DATOS"
  ELSE IF ~Enough(events) THEN "SIN_DATOS_SUFICIENTES"
  ELSE IF ScoreAtLeast(events, 85) THEN "SALUDABLE"
  ELSE IF ScoreAtLeast(events, 50) THEN "INESTABLE" ELSE "DEGRADADO"

-----------------------------------------------------------------------------
(* Rules.  The id of an alert is what it is deduplicated by.               *)

Alert(id, critical) == [id |-> id, severity |-> IF critical THEN "CRITICAL" ELSE "WARNING"]

ComponentHealthAlerts ==
  LET class == ComponentClass(signals.events) IN
  {Alert(<<IF watch = "search_engine" THEN "SEARCH_DEGRADED" ELSE "COMPONENT_DEGRADED">>,
         class = "DOWN") : c \in {class} \cap {"DEGRADED", "DOWN"}}

QueueStalledAlerts ==
  LET age == clock - signals.pendingSince IN
  IF signals.pendingSince # Never /\ age >= StaleAfter
  THEN {Alert(<<"QUEUE_STALLED">>, age >= 4 * StaleAfter)} ELSE {}

BackupStaleAlerts ==
  LET age == clock - signals.lastBackup IN
  IF signals.lastBackup = Never THEN {Alert(<<"BACKUP_STALE">>, TRUE)}
  ELSE IF age >= StaleAfter THEN {Alert(<<"BACKUP_STALE">>, age >= 2 * StaleAfter)} ELSE {}

\* softRatio is 0.8; a limit of 0 is none.
BudgetAlerts ==
  UNION {LET spent == signals.spent[p]
             limit == CostLimits[p] IN
         IF limit > 0 /\ spent >= limit THEN {Alert(<<"COST_BUDGET", p, "HARD">>, TRUE)}
         ELSE IF limit > 0 /\ 10 * spent >= 8 * limit
              THEN {Alert(<<"COST_BUDGET", p, "SOFT">>, FALSE)} ELSE {} : p \in Periods}

BounceSpikeAlerts ==
  LET atLeast(rate) == 100 * signals.bounced >= rate * signals.relevant IN
  IF signals.relevant >= MinSampleSize /\ atLeast(BounceRate)
  THEN {Alert(<<"BOUNCE_SPIKE">>, atLeast(3 * BounceRate))} ELSE {}

\* The denials of one action to one principal.
PolicyViolationAlerts ==
  LET n == Cardinality({i \in DOMAIN signals.denials : clock - signals.denials[i] <= DenyWindow}) IN
  IF n >= DenyThreshold THEN {Alert(<<"POLICY_VIOLATION">>, n >= 2 * DenyThreshold)} ELSE {}

CandidateAlerts ==
  CASE watch \in HealthKinds -> ComponentHealthAlerts
    [] watch = "queue" -> QueueStalledAlerts
    [] watch = "backup" -> BackupStaleAlerts
    [] watch = "budget" -> BudgetAlerts
    [] watch = "touches" -> BounceSpikeAlerts
    [] watch = "denials" -> PolicyViolationAlerts

AlertIds ==
  {<<c>> : c \in {"SEARCH_DEGRADED", "COMPONENT_DEGRADED", "QUEUE_STALLED", "BACKUP_STALE",
                  "BOUNCE_SPIKE", "POLICY_VIOLATION"}}
    \cup ({"COST_BUDGET"} \X Periods \X {"SOFT", "HARD"})

\* dedupeAlerts.
WithinCooldown_everFired(alert) == active[alert.id] # Never
WithinCooldown(alert) ==
  active[alert.id] # Never /\ clock - active[alert.id] < Cooldown

-----------------------------------------------------------------------------
(* Signals.                                                                *)

MonitoringInit ==
  /\ clock = 0 /\ watch \in Watches /\ signals = NoSignals
  /\ active = [id \in AlertIds |-> Never]
  /\ evaluation = [e \in Evaluators |-> NoEvaluation]
  /\ notices = << >> /\ disturbed = FALSE

OnlySignals == UNCHANGED <<clock, watch, active, evaluation, notices, disturbed>>

\* buildHealthEvent and buildSearchEngineHealthEvents, each with its statuses.
HealthEvent(status) ==
  /\ watch \in HealthKinds /\ Len(signals.events) < MaxSignals
  /\ status \in Observed \cap (IF watch = "search_engine" THEN EngineStatuses ELSE ComponentStatuses)
  /\ signals' = [signals EXCEPT !.events = Append(@, [status |-> status, at |-> clock])]
  /\ OnlySignals

QueueMoves ==
  /\ watch = "queue"
  /\ signals' = [signals EXCEPT !.pendingSince = IF @ = Never THEN clock ELSE Never]
  /\ OnlySignals

BackupSucceeds ==
  /\ watch = "backup" /\ signals.lastBackup # clock
  /\ signals' = [signals EXCEPT !.lastBackup = clock]
  /\ OnlySignals

Spend ==
  /\ watch = "budget"
  /\ \E amount \in {1, 4} :
       /\ \A p \in Periods : signals.spent[p] + amount <= MaxSpent
       /\ signals' = [signals EXCEPT !.spent = [p \in Periods |-> @[p] + amount]]
  /\ OnlySignals
NextPeriod(p) ==
  /\ watch = "budget" /\ signals.spent[p] > 0
  /\ signals' = [signals EXCEPT !.spent[p] = 0]
  /\ OnlySignals

TouchReported ==
  /\ watch = "touches" /\ signals.relevant < MaxSignals
  /\ \E bounced \in {0, 1} :
       signals' = [signals EXCEPT !.relevant = @ + 1, !.bounced = @ + bounced]
  /\ OnlySignals

Denied ==
  /\ watch = "denials" /\ Len(signals.denials) < MaxSignals
  /\ signals' = [signals EXCEPT !.denials = Append(@, clock)]
  /\ OnlySignals

ClockTicks ==
  /\ clock < MaxClock /\ clock' = clock + 1
  /\ UNCHANGED <<watch, signals, active, evaluation, notices, disturbed>>

-----------------------------------------------------------------------------
(* The callers of dedupeAlerts.                                            *)

Evaluating(e) == evaluation[e].at # Never

\* The rules are applied to the signals, and dedupeAlerts to the state read.
Evaluate(e) ==
  /\ ~Evaluating(e) /\ CandidateAlerts # {}
  /\ evaluation' = [evaluation EXCEPT ![e] =
        [at |-> clock, toFire |-> {a \in CandidateAlerts : ~WithinCooldown(a)},
         suppressed |-> {a \in CandidateAlerts : WithinCooldown(a)},
         notified |-> FALSE]]
  /\ disturbed' = (disturbed \/ \E f \in Evaluators : Evaluating(f))
  /\ UNCHANGED <<clock, watch, signals, active, notices>>

Notify(e) ==
  /\ Evaluating(e) /\ ~evaluation[e].notified
  /\ Len(notices) + Cardinality(evaluation[e].toFire) <= MaxNotices
  /\ notices' = notices \o SetToSeq({[alert |-> a, at |-> evaluation[e].at] :
                                      a \in evaluation[e].toFire})
  /\ evaluation' = [evaluation EXCEPT ![e].notified = TRUE]
  /\ UNCHANGED <<clock, watch, signals, active, disturbed>>

SaveFired(e) ==
  /\ Evaluating(e) /\ evaluation[e].notified
  /\ active' = [id \in AlertIds |->
       IF \E a \in evaluation[e].toFire : a.id = id THEN evaluation[e].at ELSE active[id]]
  /\ evaluation' = [evaluation EXCEPT ![e] = NoEvaluation]
  /\ UNCHANGED <<clock, watch, signals, notices, disturbed>>

EvaluatorDies(e) ==
  /\ Evaluating(e)
  /\ evaluation' = [evaluation EXCEPT ![e] = NoEvaluation]
  /\ disturbed' = (disturbed \/ evaluation[e].notified)
  /\ UNCHANGED <<clock, watch, signals, active, notices>>

MonitoringNext ==
  \/ \E status \in ComponentStatuses \cup EngineStatuses : HealthEvent(status)
  \/ QueueMoves \/ BackupSucceeds \/ Spend \/ TouchReported \/ Denied \/ ClockTicks
  \/ \E p \in Periods : NextPeriod(p)
  \/ \E e \in Evaluators : Evaluate(e) \/ Notify(e) \/ SaveFired(e) \/ EvaluatorDies(e)

MonitoringSpec == MonitoringInit /\ [][MonitoringNext]_monitoringVars

-----------------------------------------------------------------------------
(* Properties.                                                             *)

Alerts == [id : AlertIds, severity : {"WARNING", "CRITICAL"}]

MonitoringTypeOK ==
  /\ clock \in 0..MaxClock /\ watch \in Watches
  /\ signals \in [events : Seq([status : ComponentStatuses \cup EngineStatuses, at : Nat]),
                  pendingSince : {Never} \cup Nat, lastBackup : {Never} \cup Nat,
                  spent : [Periods -> 0..MaxSpent], relevant : 0..MaxSignals, bounced : Nat,
                  denials : Seq(Nat)]
  /\ signals.bounced <= signals.relevant
  /\ \A i \in DOMAIN signals.events : signals.events[i].at <= clock
  /\ active \in [AlertIds -> {Never} \cup 0..clock]
  /\ evaluation \in [Evaluators -> [at : {Never} \cup 0..clock, toFire : SUBSET Alerts,
                                    suppressed : SUBSET Alerts, notified : BOOLEAN]]
  /\ notices \in Seq([alert : Alerts, at : Nat])
  /\ \A n \in DOMAIN notices : notices[n].at <= clock

\* "No alert storm": unless evaluations overlapped or one died between notifying
\* and saving, an alert is not repeated within its cooldown.  And, whatever
\* happened, an alert that is held back was notified within the cooldown, that
\* of a budget with the severity it has now: the hard limit is not hidden by
\* what was said of the soft one.
AlertsAreHeardOnce ==
  /\ ~disturbed => \A m, n \in DOMAIN notices :
       m < n /\ notices[m].alert.id = notices[n].alert.id =>
         notices[n].at - notices[m].at >= Cooldown
  /\ \A e \in Evaluators : \A a \in evaluation[e].suppressed :
       \E n \in DOMAIN notices :
         /\ notices[n].alert.id = a.id /\ evaluation[e].at - notices[n].at < Cooldown
         /\ watch = "budget" => notices[n].alert = a

\* Time alone neither mends a component nor breaks it: as long as no event
\* leaves the window, a class may only fade into the one for too few data.
SilenceIsNotRecovery ==
  [][LET events == signals.events IN
     clock' # clock /\ Recent(events)' = Recent(events) =>
       /\ ComponentClass(events)' \in {ComponentClass(events), "NO_DATA"}
       /\ EngineClass(events)' \in {EngineClass(events), "SIN_DATOS_SUFICIENTES"}]_monitoringVars
=============================================================================

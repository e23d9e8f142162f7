---------------------------- MODULE ModelRouter ----------------------------
(***************************************************************************)
(* ModelRouter.route over AiGateway.invoke and InMemoryBudgetLedger: tasks *)
(* routed at once in one process share the ledger of what was spent today  *)
(* and this month.  The await of the gateway is where they interleave: the *)
(* budget is checked before it and the cost recorded after it.             *)
(*                                                                         *)
(* The tiers are flattened into one sequence of candidates, each with its  *)
(* tier.  A confidence is the tenths defaultConfidenceEvaluator gives, a   *)
(* cost a whole number of cents.                                           *)
(***************************************************************************)
EXTENDS Naturals, Sequences, FiniteSets

CONSTANTS
  Tasks,         \* tasks routed at the same time
  Candidates,    \* sequence of [tier, est, quality, local]
  Policies,      \* of the task classes: [quality, localOnly, confidence]
  Answers,       \* of a provider: [amount, isEstimate, finish]
  DailyLimit, MonthlyLimit

\* The loop is over the tiers and, inside, over the candidates of each, so the
\* tiers of the sequence never go back.
ASSUME RouterAssumption ==
  /\ IsFiniteSet(Tasks)
  /\ Candidates \in Seq([tier : Nat, est : Nat, quality : Nat, local : BOOLEAN])
  /\ \A i, j \in DOMAIN Candidates : i <= j => Candidates[i].tier <= Candidates[j].tier
  /\ Policies \subseteq [quality : Nat, localOnly : BOOLEAN, confidence : Nat]
  /\ IsFiniteSet(Answers) /\ Answers # {}
  /\ Answers \subseteq [amount : Nat, isEstimate : BOOLEAN,
                        finish : {"stop", "tool_call", "length", "content_filter"}]
  /\ DailyLimit \in Nat /\ MonthlyLimit \in Nat

VARIABLES
  spent,         \* the ledger: [daily, monthly]
  route,         \* by task, the routing under way
  charges        \* history: by task, the candidates it was charged for

routerVars == <<spent, route, charges>>

Confidence(finish) ==
  CASE finish = "stop" -> 10 [] finish = "tool_call" -> 9
    [] finish = "length" -> 4 [] finish = "content_filter" -> 2

\* best is the answer with the highest confidence so far, the first of equals.
NoAnswer == [candidate |-> 0, confidence |-> 0]
NoPolicy == [quality |-> 0, localOnly |-> FALSE, confidence |-> 0]
NoRoute == [at |-> "idle", policy |-> NoPolicy, next |-> 0, best |-> NoAnswer]

RouterInit ==
  /\ spent = [daily |-> 0, monthly |-> 0]
  /\ route = [t \in Tasks |-> NoRoute]
  /\ charges = [t \in Tasks |-> << >>]

-----------------------------------------------------------------------------

\* Residency and quality floor.
Eligible(policy, candidate) ==
  /\ policy.localOnly => candidate.local
  /\ candidate.quality >= policy.quality

Affordable_whileUnderLimit(candidate) == spent.daily <= DailyLimit /\ spent.monthly <= MonthlyLimit
Affordable(candidate) ==
  /\ spent.daily + candidate.est <= DailyLimit
  /\ spent.monthly + candidate.est <= MonthlyLimit

\* The loop goes on with the candidate i, or returns when there is none.
At(r, i) ==
  IF i > Len(Candidates) THEN [r EXCEPT !.at = "answered"]
  ELSE [r EXCEPT !.at = "choose", !.next = i]

\* After an answer that does not suffice the rest of its tier is left out.
NextTier(i) ==
  CHOOSE j \in i..Len(Candidates) + 1 :
    /\ j > Len(Candidates) \/ Candidates[j].tier # Candidates[i].tier
    /\ \A k \in i..j - 1 : Candidates[k].tier = Candidates[i].tier

BeginRoute(t, policy) ==
  /\ route[t].at = "idle"
  /\ route' = [route EXCEPT ![t] = At([NoRoute EXCEPT !.policy = policy], 1)]
  /\ UNCHANGED <<spent, charges>>

\* SKIPPED_RESIDENCY, SKIPPED_QUALITY_FLOOR and SKIPPED_BUDGET.
SkipCandidate(t) ==
  LET r == route[t] IN
  /\ r.at = "choose"
  /\ ~Eligible(r.policy, Candidates[r.next]) \/ ~Affordable(Candidates[r.next])
  /\ route' = [route EXCEPT ![t] = At(r, r.next + 1)]
  /\ UNCHANGED <<spent, charges>>

InvokeCandidate(t) ==
  LET r == route[t] IN
  /\ r.at = "choose"
  /\ Eligible(r.policy, Candidates[r.next]) /\ Affordable(Candidates[r.next])
  /\ route' = [route EXCEPT ![t].at = "invoking"]
  /\ UNCHANGED <<spent, charges>>

\* No adapter, a capability it lacks, an error of the provider, or the timeout,
\* after which the provider may have charged what the ledger never hears of.
CandidateFails(t) ==
  /\ route[t].at = "invoking"
  /\ route' = [route EXCEPT ![t] = At(@, @.next + 1)]
  /\ UNCHANGED <<spent, charges>>

\* What the answer cost, or the estimate when it does not say.
CostOf(answer, candidate) ==
  IF answer.amount > 0 \/ ~answer.isEstimate THEN answer.amount ELSE candidate.est

CandidateAnswers(t, answer) ==
  LET r == route[t]
      cost == CostOf(answer, Candidates[r.next])
      given == [candidate |-> r.next, confidence |-> Confidence(answer.finish)]
      better == r.best = NoAnswer \/ given.confidence > r.best.confidence IN
  /\ r.at = "invoking"
  /\ spent' = [daily |-> spent.daily + cost, monthly |-> spent.monthly + cost]
  /\ route' = [route EXCEPT ![t] =
       IF given.confidence >= r.policy.confidence
       THEN [r EXCEPT !.best = given, !.at = "answered"]
       ELSE At([r EXCEPT !.best = IF better THEN given ELSE @], NextTier(r.next))]
  /\ charges' = [charges EXCEPT ![t] = Append(@, given)]

\* The decision is returned: best, or nothing when no candidate answered.
ReturnRoute(t) ==
  /\ route[t].at = "answered"
  /\ route' = [route EXCEPT ![t] = NoRoute]
  /\ charges' = [charges EXCEPT ![t] = << >>]
  /\ UNCHANGED spent

\* rollPeriodsIfNeeded, which every reading and record of the ledger begins with.
DayEnds ==
  /\ spent.daily > 0
  /\ spent' = [spent EXCEPT !.daily = 0]
  /\ UNCHANGED <<route, charges>>
MonthEnds ==
  /\ spent.monthly > 0
  /\ spent' = [daily |-> 0, monthly |-> 0]
  /\ UNCHANGED <<route, charges>>

RouterNext ==
  \/ \E t \in Tasks :
       \/ \E policy \in Policies : BeginRoute(t, policy)
       \/ SkipCandidate(t) \/ InvokeCandidate(t) \/ CandidateFails(t) \/ ReturnRoute(t)
       \/ \E answer \in Answers : CandidateAnswers(t, answer)
  \/ DayEnds \/ MonthEnds

RouterSpec == RouterInit /\ [][RouterNext]_routerVars

-----------------------------------------------------------------------------
(* Properties.                                                             *)

RouterTypeOK ==
  /\ spent \in [daily : Nat, monthly : Nat]
  /\ route \in [Tasks -> [at : {"idle", "choose", "invoking", "answered"},
                         policy : Policies \cup {NoPolicy}, next : Nat,
                         best : [candidate : Nat, confidence : 0..10]]]
  /\ charges \in [Tasks -> Seq([candidate : DOMAIN Candidates, confidence : 0..10])]
  /\ \A t \in Tasks :
       /\ route[t].at \in {"choose", "invoking"} => route[t].next \in DOMAIN Candidates
       /\ route[t].best.candidate \in DOMAIN Candidates \cup {0}

\* What an answer may cost at most, and the least that any estimate says.
Dearest ==
  LET costs == {CostOf(a, Candidates[i]) : a \in Answers, i \in DOMAIN Candidates} IN
  CHOOSE c \in costs : \A d \in costs : d <= c
Cheapest ==
  LET ests == {Candidates[i].est : i \in DOMAIN Candidates} IN
  CHOOSE e \in ests : \A d \in ests : e <= d

WithinOverrun(amount, limit) ==
  amount > 0 => amount <= limit + Cardinality(Tasks) * Dearest - Cheapest

\* A period is overdrawn by calls that were under way together and by answers
\* dearer than their estimate, never by more: one such call for every task, the
\* one that was checked last with its estimate inside the limit.  And a task
\* that was charged returns the best answer it paid for: one per tier at most,
\* each from a model its class allows, none dropped on the way to a later tier.
SpendingIsBoundedAndAnswered ==
  /\ WithinOverrun(spent.daily, DailyLimit)
  /\ WithinOverrun(spent.monthly, MonthlyLimit)
  /\ spent.daily <= spent.monthly
  /\ \A t \in Tasks : route[t].at = "answered" =>
       /\ route[t].best = NoAnswer <=> charges[t] = << >>
       /\ \A i \in DOMAIN charges[t] :
            /\ Eligible(route[t].policy, Candidates[charges[t][i].candidate])
            /\ charges[t][i].confidence <= route[t].best.confidence
            /\ \A j \in DOMAIN charges[t] : i # j =>
                 Candidates[charges[t][i].candidate].tier # Candidates[charges[t][j].candidate].tier
=============================================================================

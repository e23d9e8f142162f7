--------------------------- MODULE Browser_proofs ---------------------------
(* What the browser workers and the skill runner tell is what they did, for *)
(* all scenarios, tasks, skills and approvals and every number of runs.     *)
EXTENDS BrowserWorkers, OrderLemmas, SequenceTheorems, FiniteSetTheorems, TLAPS

-----------------------------------------------------------------------------
(* The types.                                                               *)

WorkIds == {given.id : given \in Works}
Checkpoints == [of : WorkIds \cup {""}, step : Nat]
StepErrors ==
  {"none", "RHIA_WORKFLOW_TIMEOUT", "RHIA_BROWSER_SELECTOR_NOT_FOUND",
   "RHIA_BROWSER_SESSION_EXPIRED", "RHIA_BROWSER_UNEXPECTED_FAILURE",
   "RHIA_BROWSER_DOMAIN_FORBIDDEN", "RHIA_BROWSER_ASSERTION_FAILED",
   "RHIA_BROWSER_SECRET_UNAVAILABLE", "RHIA_COMPUTER_USE_UNEXPECTED_FAILURE",
   "RHIA_COMPUTER_USE_DOMAIN_FORBIDDEN"}
Entries ==
  [step : Nat, outcome : {"SUCCEEDED", "FAILED"}, attempts : Nat, error : StepErrors]
  \cup [step : Nat, outcome : {"EXECUTED", "BLOCKED", "FAILED"}, error : StepErrors]
Actions == [of : WorkIds, step : Nat, ok : BOOLEAN, undoing : BOOLEAN]
Runs ==
  [worker : {"none", "PLAYWRIGHT", "COMPUTER_USE"},
   at : {"idle", "step", "resolve", "call", "observe", "act", "after", "close", "return"},
   step : Nat, tries : Nat, checkpoint : Checkpoints, log : Seq(Entries),
   proofs : SUBSET ApprovalProofs, now : Nat,
   result : {"none", "COMPLETED", "FAILED", "REJECTED", "ESCALATED_TO_HUMAN"}]
SkillRuns ==
  [at : {"idle", "preconditions", "procedure", "rollback", "rolling", "validations", "ended"},
   of : Skills \cup {<< >>}, item : Nat, workers : SUBSET {"PLAYWRIGHT", "COMPUTER_USE"},
   procedure : {"none", "COMPLETED", "FAILED", "REJECTED", "ESCALATED_TO_HUMAN"},
   rollback : {"none", "COMPLETED", "FAILED", "REJECTED", "ESCALATED_TO_HUMAN"},
   outcome : {"none", "REJECTED", "STALE", "PRECONDITION_FAILED", "UNEXPECTED_FAILURE",
              "PROCEDURE_FAILED", "VALIDATION_FAILED", "COMPLETED"}]

TypesHold ==
  /\ work \in Works \cup {NoWork}
  /\ run \in Runs /\ skill \in SkillRuns /\ held \in Checkpoints
  /\ acted \in Seq(Actions) /\ runs \in 0..MaxRuns /\ lost \in Nat

-----------------------------------------------------------------------------
(* Where a run is, and for whom.                                            *)

OfScenario == run.worker = "PLAYWRIGHT"
OfTask == run.worker = "COMPUTER_USE"
Underway == OfScenario \/ OfTask

\* A run of a scenario is at one of its steps, or past the last of them.
ScenarioPlace ==
  OfScenario =>
    /\ work \in Scenarios /\ ValidScenario(work)
    /\ run.at \in {"step", "resolve", "call", "close"}
    /\ run.step \in 1..Len(work.steps) + 1 /\ run.proofs = {}
    /\ run.at \in {"resolve", "call"} =>
         run.step <= Len(work.steps) /\ Step.kind \notin {"NAVIGATE", "WAIT_FOR"}
    /\ run.at = "close" => run.result \in {"COMPLETED", "FAILED"}
    /\ run.at = "close" => (run.result = "COMPLETED" <=> run.step > Len(work.steps))

\* So is one of computer use.
TaskPlace ==
  OfTask =>
    /\ work \in ComputerTasks /\ ValidTask(work)
    /\ run.at \in {"observe", "resolve", "act", "after", "close"}
    /\ run.step \in 1..Len(work.steps) + 1
    /\ run.at \in {"resolve", "act", "after"} => run.step <= Len(work.steps)
    /\ run.at = "close" => run.result \in {"COMPLETED", "FAILED", "ESCALATED_TO_HUMAN"}
    /\ run.at = "close" => (run.result = "COMPLETED" <=> run.step > Len(work.steps))

RunPlace ==
  /\ ~Underway => run = NoRun \/ run = [NoRun EXCEPT !.at = "return", !.result = "REJECTED"]
  /\ run.at = "return" => ByCaller /\ acted = << >> /\ held = NoCheckpoint /\ work = NoWork
  /\ Underway => (run.at # "close" => run.result = "none")
  /\ ScenarioPlace /\ TaskPlace

\* What is run for a skill is what its manifest says.
SkillPlace ==
  /\ skill.at = "idle" => skill = NoSkill
  /\ skill.at \in {"preconditions", "rollback", "validations", "ended"} => run = NoRun
  /\ skill.at \in {"procedure", "rolling"} => Underway
  /\ ~ByCaller => held = NoCheckpoint /\ runs = 0
  /\ skill.at \notin {"idle", "ended"} =>
       skill.of \in Skills /\ ValidSkill(skill.of) /\ skill.outcome = "none"
  /\ skill.at \in {"preconditions", "procedure"} => skill.procedure = "none"
  /\ skill.at = "procedure" =>
       run.worker = skill.of.procedure.kind /\ work = skill.of.procedure.work
  /\ skill.at \in {"rollback", "rolling"} =>
       skill.procedure \in {"FAILED", "ESCALATED_TO_HUMAN"} /\ skill.of.rollback # << >>
  /\ skill.at = "ended" => skill.outcome # "none"

\* What is undone is undone after a failure that was told.
UndoingPlace ==
  /\ skill.at = "preconditions" => acted = << >>
  /\ skill.outcome \in {"REJECTED", "STALE", "PRECONDITION_FAILED"} => acted = << >>
  /\ (\E i \in DOMAIN acted : acted[i].undoing) =>
       /\ skill.at \in {"rolling", "ended"}
       /\ skill.procedure \in {"FAILED", "ESCALATED_TO_HUMAN"}
       /\ skill.at = "ended" => skill.outcome = "PROCEDURE_FAILED"

\* The checkpoint of a run is that of the steps it has completed, or one of another
\* scenario, which it does not resume from.
CheckpointPlace ==
  /\ OfScenario =>
       /\ IF run.checkpoint.of = work.id THEN run.step = run.checkpoint.step + 1
          ELSE run.step = 1 /\ run.checkpoint = held /\ held.of # ""
       /\ held.of = work.id => run.checkpoint.of = work.id /\ held.step < run.step
  /\ \/ held = NoCheckpoint
     \/ \E scenario \in Scenarios :
          held.of = scenario.id /\ held.of # "" /\ held.step <= Len(scenario.steps)

\* What is lost is lost by a run, at its start or at its end.
LossesAreOfRuns ==
  /\ ByCaller =>
       /\ OfScenario => runs >= 1 /\ lost + 1 <= 2 * runs
       /\ OfTask => runs = 0 /\ lost = 0
       /\ ~Underway => lost <= 2 * runs \/ (runs = 0 /\ lost <= 1)
  /\ ~ByCaller => lost <= 1 /\ (lost = 1 => skill.at = "ended")

-----------------------------------------------------------------------------
(* What was done, and how often.                                            *)

\* Whatever was done is a step of something valid, and allowed.
AllowedActions ==
  \A i \in DOMAIN acted : \E given \in Works :
    /\ acted[i].of = given.id /\ acted[i].step \in DOMAIN given.steps
    /\ LET step == given.steps[acted[i].step] IN
         /\ step.kind = "NAVIGATE" => step.host \in given.allowedDomains
         /\ step.kind = "TYPE" /\ step.input.kind = "LITERAL" => ~LooksLikeRawSecret(step.input.value)

\* Between two runs, the caller's checkpoint accounts for what was done, except for
\* what was lost; a checkpoint of another scenario has lost it too, later.
CountsAtRest(scenario, s) ==
  LET known == held.of = scenario.id /\ s <= held.step IN
  /\ known => Succeeded(scenario.id, s) >= 1
  /\ Succeeded(scenario.id, s) <= lost + 1
  /\ ~known /\ held.of \in {"", scenario.id} => Succeeded(scenario.id, s) <= lost
  /\ scenario.steps[s].kind \in {"CLICK", "TYPE"} => Tried(scenario.id, s) <= runs

\* The run that is under way accounts for it by its step: what succeeded, what was
\* lost, the step and another; what was tried and how many runs there were.
Accounted(succeeded, l, k, s) ==
  /\ s < k => succeeded <= l + 1 /\ succeeded >= 1
  /\ s >= k => succeeded <= l
OncePerRun(tried, r, k, s) ==
  /\ tried <= r
  /\ s >= k => tried + 1 <= r
CountsUnderway(scenario, s) ==
  /\ Accounted(Succeeded(scenario.id, s), lost, run.step, s)
  /\ scenario.steps[s].kind \in {"CLICK", "TYPE"} =>
       IF run.at = "close" THEN Tried(scenario.id, s) <= runs
       ELSE OncePerRun(Tried(scenario.id, s), runs, run.step, s)
CountsOfCaller ==
  ByCaller => \A scenario \in Scenarios : \A s \in DOMAIN scenario.steps :
    IF OfScenario /\ scenario = work THEN CountsUnderway(scenario, s) ELSE CountsAtRest(scenario, s)

\* A run from the first step with nothing done before it has done what it is past,
\* once: those of a skill, and those of a task.
Past(s) == s < run.step \/ (s = run.step /\ run.at = "after")
CountsOfSkill ==
  /\ skill.at \in {"procedure", "rolling"} => \A s \in DOMAIN work.steps :
       Succeeded(work.id, s) = IF Past(s) THEN 1 ELSE 0
  /\ skill.at = "validations" \/ skill.outcome \in {"COMPLETED", "VALIDATION_FAILED"} =>
       \A s \in DOMAIN skill.of.procedure.work.steps :
         Succeeded(skill.of.procedure.work.id, s) = 1

\* The evidence of a run is of the steps up to the one it is at.
EvidencePlace ==
  OfScenario =>
    LET n == Len(run.log)
        failed == run.at = "close" /\ run.result = "FAILED"
    IN  /\ \A i \in 1..n :
             /\ run.log[i].step = IF failed THEN run.step - n + i ELSE run.step - n + i - 1
             /\ run.log[i].outcome = IF failed /\ i = n THEN "FAILED" ELSE "SUCCEEDED"
        /\ failed => n >= 1

\* A first run has tried each step no more often than it tells.
FirstAttempts ==
  OfScenario /\ runs <= 1 =>
    /\ \A s \in DOMAIN work.steps : s > run.step => Tried(work.id, s) = 0
    /\ run.at # "close" /\ run.step \in DOMAIN work.steps => Tried(work.id, run.step) <= run.tries
    /\ \A i \in DOMAIN run.log : Tried(work.id, run.log[i].step) <= run.log[i].attempts

ApprovedBySomebodyElse(step) ==
  RequiresApproval(step.riskLevel) => \E proof \in run.proofs :
    /\ proof.stepId = step.id /\ proof.organizationId = work.organizationId
    /\ proof.approvedBy # RequestingHuman

\* The trace of a run of computer use.
TracePlace ==
  OfTask =>
    LET n == Len(run.log)
        stopped == run.at = "close" /\ run.result # "COMPLETED"
    IN  /\ n = IF stopped THEN run.step ELSE run.step - 1
        /\ \A i \in 1..n :
             /\ run.log[i].step = i
             /\ run.log[i].outcome = "EXECUTED" <=> ~(stopped /\ i = n)

\* What it has done, each step once and in their order.
ActionInPlace(k) ==
  /\ acted[k].of = work.id /\ acted[k].step \in DOMAIN work.steps
  /\ acted[k].step <= run.step
  /\ acted[k].step < run.step => acted[k].ok
  /\ acted[k].step = run.step =>
       \/ run.at = "after" /\ acted[k].ok
       \/ /\ run.at = "close" /\ run.result = "FAILED" /\ ~acted[k].ok
          /\ run.log[run.step].outcome = "FAILED"
  /\ \A j \in OfRun : j < k => acted[j].step < acted[k].step
  /\ ApprovedBySomebodyElse(work.steps[acted[k].step])
ActionsOfTask ==
  OfTask =>
    /\ \A k \in OfRun : ActionInPlace(k)
    /\ \A s \in DOMAIN work.steps : Past(s) => \E k \in OfRun : acted[k].step = s
    /\ run.at \in {"resolve", "act", "after"} => ApprovedBySomebodyElse(Step)

PlacesHold ==
  /\ TypesHold /\ RunPlace /\ SkillPlace /\ UndoingPlace /\ CheckpointPlace /\ LossesAreOfRuns
RecordsHold ==
  /\ AllowedActions /\ CountsOfCaller /\ CountsOfSkill
  /\ EvidencePlace /\ FirstAttempts /\ TracePlace /\ ActionsOfTask
BrowserInv == PlacesHold /\ RecordsHold

-----------------------------------------------------------------------------
(* Facts of the types.                                                      *)

LEMMA WorkFacts ==
  ASSUME NEW given \in Works
  PROVE  Len(given.steps) \in Nat /\ DOMAIN given.steps = 1..Len(given.steps)
<1> DEFINE values == {given.steps[i] : i \in DOMAIN given.steps}
<1>1. given.steps \in Seq(values)
  BY BrowserAssumption DEF BrowserAssumption
<1> HIDE DEF values
<1>. QED  BY <1>1, LenProperties

LEMMA SameId == \A given, other \in Works : given.id = other.id => given = other
BY BrowserAssumption DEF BrowserAssumption

\* A scenario that is valid has a step, and every step of it is valid.
LEMMA ValidScenarioFacts ==
  ASSUME NEW scenario \in Scenarios, ValidScenario(scenario)
  PROVE  /\ scenario \in Works /\ scenario.id \in WorkIds /\ scenario.id # ""
         /\ Len(scenario.steps) \in Nat \ {0}
         /\ DOMAIN scenario.steps = 1..Len(scenario.steps)
         /\ \A i \in 1..Len(scenario.steps) : ValidStep(scenario.steps[i])
<1>1. scenario \in Works
  BY DEF Works
<1>2. Len(scenario.steps) \in Nat /\ DOMAIN scenario.steps = 1..Len(scenario.steps)
  BY <1>1, WorkFacts
<1>3. Len(scenario.steps) # 0
  <2> DEFINE values == {scenario.steps[i] : i \in DOMAIN scenario.steps}
  <2>1. scenario.steps \in Seq(values)
    BY <1>1, BrowserAssumption DEF BrowserAssumption
  <2>2. scenario.steps # << >>
    BY DEF ValidScenario
  <2> HIDE DEF values
  <2>. QED  BY <2>1, <2>2, EmptySeq
<1>. QED  BY <1>1, <1>2, <1>3 DEF ValidScenario, WorkIds

LEMMA ValidTaskFacts ==
  ASSUME NEW task \in ComputerTasks, ValidTask(task)
  PROVE  /\ task \in Works /\ task.id \in WorkIds /\ task.id # ""
         /\ Len(task.steps) \in Nat \ {0}
         /\ DOMAIN task.steps = 1..Len(task.steps)
         /\ \A i \in 1..Len(task.steps) : ValidTaskStep(task.steps[i])
<1>1. task \in Works
  BY DEF Works
<1>2. Len(task.steps) \in Nat /\ DOMAIN task.steps = 1..Len(task.steps)
  BY <1>1, WorkFacts
<1>3. Len(task.steps) \in 1..task.maxSteps
  BY DEF ValidTask
<1>4. Len(task.steps) # 0
  BY <1>2, <1>3
<1>. QED  BY <1>1, <1>2, <1>4 DEF ValidTask, WorkIds

\* The fields of the state.
LEMMA StateFacts ==
  ASSUME TypesHold
  PROVE  /\ run.step \in Nat /\ run.tries \in Nat /\ run.checkpoint \in Checkpoints
         /\ run.checkpoint.of \in WorkIds \cup {""} /\ run.checkpoint.step \in Nat
         /\ run.log \in Seq(Entries) /\ Len(run.log) \in Nat /\ DOMAIN run.log = 1..Len(run.log)
         /\ \A i \in 1..Len(run.log) : run.log[i] \in Entries
         /\ held.of \in WorkIds \cup {""} /\ held.step \in Nat
         /\ acted \in Seq(Actions) /\ Len(acted) \in Nat /\ DOMAIN acted = 1..Len(acted)
         /\ \A i \in 1..Len(acted) : acted[i] \in Actions
         /\ runs \in Nat /\ runs <= MaxRuns /\ lost \in Nat
         /\ MaxRuns \in Nat \ {0}
<1>1. run \in Runs /\ held \in Checkpoints /\ acted \in Seq(Actions)
  BY DEF TypesHold
<1>2. /\ run.step \in Nat /\ run.tries \in Nat /\ run.checkpoint \in Checkpoints
      /\ run.log \in Seq(Entries)
  BY <1>1 DEF Runs
<1>3. Len(run.log) \in Nat /\ DOMAIN run.log = 1..Len(run.log)
  BY <1>2, LenProperties
<1>4. \A i \in 1..Len(run.log) : run.log[i] \in Entries
  BY <1>2, ElementOfSeq
<1>5. Len(acted) \in Nat /\ DOMAIN acted = 1..Len(acted)
  BY <1>1, LenProperties
<1>6. \A i \in 1..Len(acted) : acted[i] \in Actions
  BY <1>1, ElementOfSeq
<1>7. MaxRuns \in Nat \ {0}
  BY BrowserAssumption DEF BrowserAssumption
<1>8. runs \in Nat /\ runs <= MaxRuns /\ lost \in Nat
  BY <1>7 DEF TypesHold
<1>9. /\ run.checkpoint.of \in WorkIds \cup {""} /\ run.checkpoint.step \in Nat
      /\ held.of \in WorkIds \cup {""} /\ held.step \in Nat
  BY <1>1, <1>2 DEF Checkpoints
<1>. QED  BY <1>1, <1>2, <1>3, <1>4, <1>5, <1>6, <1>7, <1>8, <1>9

-----------------------------------------------------------------------------
(* Counting what was done.                                                  *)

\* The actions on a step are finitely many, and so are those that succeeded.
LEMMA CountFacts ==
  ASSUME TypesHold, NEW id, NEW s
  PROVE  /\ Tried(id, s) \in Nat /\ Succeeded(id, s) \in Nat
         /\ ActionsOn(id, s) \subseteq DOMAIN acted
         /\ IsFiniteSet(ActionsOn(id, s))
         /\ IsFiniteSet({i \in ActionsOn(id, s) : acted[i].ok})
<1>1. DOMAIN acted = 1..Len(acted) /\ Len(acted) \in Nat
  BY StateFacts
<1>2. IsFiniteSet(1..Len(acted))
  BY <1>1, FS_Interval
<1>3. ActionsOn(id, s) \subseteq 1..Len(acted)
  BY <1>1 DEF ActionsOn
<1>4. IsFiniteSet(ActionsOn(id, s)) /\ IsFiniteSet({i \in ActionsOn(id, s) : acted[i].ok})
  BY <1>2, <1>3, FS_Subset
<1>. QED  BY <1>1, <1>3, <1>4, FS_CardinalityType DEF Tried, Succeeded

\* Nothing of a step was done when none of the actions is on it.
LEMMA NothingDone ==
  ASSUME NEW id, NEW s, ActionsOn(id, s) = {}
  PROVE  Tried(id, s) = 0 /\ Succeeded(id, s) = 0
<1>1. {i \in ActionsOn(id, s) : acted[i].ok} = {}
  OBVIOUS
<1>. QED  BY <1>1, FS_EmptySet DEF Tried, Succeeded

LEMMA NothingDoneYet ==
  ASSUME acted = << >>
  PROVE  \A id, s : Tried(id, s) = 0 /\ Succeeded(id, s) = 0
<1> SUFFICES ASSUME NEW id, NEW s
             PROVE  Tried(id, s) = 0 /\ Succeeded(id, s) = 0
  OBVIOUS
<1>1. ActionsOn(id, s) = {}
  BY DEF ActionsOn
<1>. QED  BY <1>1, NothingDone

\* What succeeds has been tried.
LEMMA SucceededWasTried ==
  ASSUME TypesHold, NEW id, NEW s
  PROVE  Succeeded(id, s) <= Tried(id, s)
<1>1. {i \in ActionsOn(id, s) : acted[i].ok} \subseteq ActionsOn(id, s)
  OBVIOUS
<1>. QED  BY <1>1, CountFacts, FS_Subset DEF Tried, Succeeded

\* What was counted stays while nothing is done.
LEMMA CountsStay ==
  ASSUME acted' = acted, Undoing' = Undoing
  PROVE  \A id, s : Tried(id, s)' = Tried(id, s) /\ Succeeded(id, s)' = Succeeded(id, s)
BY DEF Tried, Succeeded, ActionsOn

\* An action is appended.
LEMMA TryAppends ==
  ASSUME TypesHold, NEW ok \in BOOLEAN, Try(ok), work.id \in WorkIds
  PROVE  /\ acted' \in Seq(Actions) /\ DOMAIN acted' = 1..Len(acted) + 1
         /\ \A i \in DOMAIN acted : acted'[i] = acted[i]
         /\ acted'[Len(acted) + 1]
              = [of |-> work.id, step |-> run.step, ok |-> ok, undoing |-> Undoing]
<1> DEFINE entry == [of |-> work.id, step |-> run.step, ok |-> ok, undoing |-> Undoing]
<1>1. entry \in Actions
  BY StateFacts DEF Actions, Undoing
<1>2. acted' = Append(acted, entry)
  BY DEF Try
<1> HIDE DEF entry
<1>3. acted \in Seq(Actions) /\ DOMAIN acted = 1..Len(acted) /\ Len(acted) \in Nat
  BY StateFacts
<1>4. /\ Append(acted, entry) \in Seq(Actions)
      /\ Len(Append(acted, entry)) = Len(acted) + 1
      /\ \A i \in 1..Len(acted) : Append(acted, entry)[i] = acted[i]
      /\ Append(acted, entry)[Len(acted) + 1] = entry
  BY <1>1, <1>3, AppendProperties
<1>5. DOMAIN acted' = 1..Len(acted) + 1
  BY <1>2, <1>4, LenProperties
<1>. QED  BY <1>2, <1>3, <1>4, <1>5 DEF entry

\* It counts for its step, and for no other.
LEMMA TryCounts ==
  ASSUME TypesHold, NEW ok \in BOOLEAN, Try(ok), work.id \in WorkIds, skill' = skill
  PROVE  \A id, s :
           /\ ~(id = work.id /\ s = run.step) =>
                Tried(id, s)' = Tried(id, s) /\ Succeeded(id, s)' = Succeeded(id, s)
           /\ id = work.id /\ s = run.step =>
                /\ Tried(id, s)' = Tried(id, s) + 1
                /\ Succeeded(id, s)' = IF ok THEN Succeeded(id, s) + 1 ELSE Succeeded(id, s)
<1> SUFFICES ASSUME NEW id, NEW s
             PROVE  /\ ~(id = work.id /\ s = run.step) =>
                         Tried(id, s)' = Tried(id, s) /\ Succeeded(id, s)' = Succeeded(id, s)
                    /\ id = work.id /\ s = run.step =>
                         /\ Tried(id, s)' = Tried(id, s) + 1
                         /\ Succeeded(id, s)' = IF ok THEN Succeeded(id, s) + 1 ELSE Succeeded(id, s)
  OBVIOUS
<1> DEFINE here == id = work.id /\ s = run.step
           n == Len(acted)
           on == ActionsOn(id, s)
           done == {i \in ActionsOn(id, s) : acted[i].ok}
           newDone == {i \in ActionsOn(id, s)' : acted'[i].ok}
<1>1. /\ DOMAIN acted = 1..n /\ n \in Nat /\ DOMAIN acted' = 1..n + 1
      /\ \A i \in 1..n : acted'[i] = acted[i]
      /\ acted'[n + 1].of = work.id /\ acted'[n + 1].step = run.step
      /\ acted'[n + 1].ok = ok /\ acted'[n + 1].undoing = Undoing
  <2>1. /\ DOMAIN acted' = 1..n + 1 /\ \A i \in DOMAIN acted : acted'[i] = acted[i]
        /\ acted'[n + 1] = [of |-> work.id, step |-> run.step, ok |-> ok, undoing |-> Undoing]
    BY TryAppends
  <2>2. DOMAIN acted = 1..n /\ n \in Nat
    BY StateFacts
  <2>. QED  BY <2>1, <2>2
<1>2. Undoing' = Undoing
  BY DEF Undoing
<1>3. on \subseteq 1..n /\ done \subseteq 1..n /\ n + 1 \notin 1..n
  BY <1>1 DEF ActionsOn
<1>4. ActionsOn(id, s)' = IF here THEN on \cup {n + 1} ELSE on
  BY <1>1, <1>2 DEF ActionsOn
<1>5. newDone = IF here /\ ok THEN done \cup {n + 1} ELSE done
  BY <1>1, <1>3, <1>4
<1>6. /\ IsFiniteSet(on) /\ IsFiniteSet(done)
      /\ Cardinality(on) \in Nat /\ Cardinality(done) \in Nat
  BY CountFacts, FS_CardinalityType
<1>7. /\ Tried(id, s) = Cardinality(on) /\ Tried(id, s)' = Cardinality(ActionsOn(id, s)')
      /\ Succeeded(id, s) = Cardinality(done) /\ Succeeded(id, s)' = Cardinality(newDone)
  BY DEF Tried, Succeeded
<1> HIDE DEF on, done, newDone
<1>8. /\ Cardinality(on \cup {n + 1}) = Cardinality(on) + 1
      /\ Cardinality(done \cup {n + 1}) = Cardinality(done) + 1
  BY <1>3, <1>6, FS_AddElement
<1>. QED  BY <1>4, <1>5, <1>7, <1>8

-----------------------------------------------------------------------------
(* The steps of the workers, by what they do.                               *)

\* Who uses the browser, for whom, stays the same.
SameRun == UNCHANGED <<work, skill, held, runs, lost>>

\* A scenario: a step is prepared, succeeds, is tried again, fails, or none is left.
Acting == OfScenario /\ run.at \in {"step", "resolve", "call"} /\ run.step <= Len(work.steps)
Prepares ==
  /\ Acting /\ SameRun /\ acted' = acted
  /\ Step.kind \notin {"NAVIGATE", "WAIT_FOR"}
  /\ \E at \in {"resolve", "call"} : run' = [run EXCEPT !.at = at]
Completes == Acting /\ SameRun /\ ~Forbidden /\ Try(TRUE) /\ StepSucceeds
TriesAgain ==
  /\ Acting /\ SameRun
  /\ acted' = acted \/ (~Forbidden /\ Try(FALSE) /\ Step.kind \notin {"CLICK", "TYPE"})
  /\ run' = [run EXCEPT !.at = "step", !.tries = @ + 1]
GivesUp ==
  /\ Acting /\ SameRun
  /\ acted' = acted \/ (~Forbidden /\ Try(FALSE))
  /\ \E error \in StepErrors : StepFails(error)

\* A task: likewise, except that nothing is tried again.
TaskPrepares ==
  /\ OfTask /\ SameRun /\ acted' = acted
  /\ run.at \in {"observe", "resolve"} /\ run.step <= Len(work.steps)
  /\ run.at = "observe" => ApprovedBySomebodyElse(Step)
  /\ \E at \in {"resolve", "act"} : run' = [run EXCEPT !.at = at]
TaskStops ==
  /\ OfTask /\ SameRun /\ acted' = acted
  /\ run.at \in {"observe", "resolve"} /\ run.step <= Len(work.steps)
  /\ \E error \in StepErrors :
       \/ EndRun("ESCALATED_TO_HUMAN", Trace("BLOCKED", error))
       \/ EndRun("FAILED", Trace("FAILED", error))
TaskActionFails ==
  /\ OfTask /\ SameRun /\ Try(FALSE) /\ run.at = "act"
  /\ \E error \in StepErrors : EndRun("FAILED", Trace("FAILED", error))

\* A run starts: with or without a checkpoint, of a caller, or of a skill that does
\* not act on what the caller has.
StartsProcedure(procedure) ==
  /\ RunsOneOfThem(procedure) /\ ValidProcedure(procedure)
  /\ StartProcedure(procedure)
  /\ UNCHANGED <<held, acted, runs, lost>>
SkillStarts ==
  \/ /\ skill.at = "preconditions" /\ skill' = [skill EXCEPT !.at = "procedure"]
     /\ StartsProcedure(skill.of.procedure)
  \/ /\ skill.at = "rollback" /\ skill' = [skill EXCEPT !.at = "rolling"]
     /\ StartsProcedure(skill.of.rollback[1])
CallerStarts ==
  /\ ByCaller /\ run.at = "idle" /\ UNCHANGED skill
  /\ \/ \E scenario \in Scenarios :
          ValidScenario(scenario) /\ StartScenario(scenario, NoCheckpoint) /\ FirstRun
     \/ \E task \in ComputerTasks, proof \in ApprovalProofs : \E proofs \in {{proof}, {}} :
          /\ ValidTask(task) /\ StartTask(task, proofs)
          /\ held' = NoCheckpoint /\ acted' = << >> /\ History(0, 0)
CallerResumes ==
  \E scenario \in Scenarios : ResumeScenario(scenario)
IsRefused ==
  /\ ByCaller /\ run.at = "idle" /\ UNCHANGED skill /\ Rejected /\ work' = NoWork
  /\ held' = NoCheckpoint /\ acted' = << >> /\ \E r \in {0, 1} : History(r, 0)

\* A run ends: its result is told, or is not.
CallerIsTold ==
  /\ ByCaller /\ Underway /\ run.at = "close" /\ run' = NoRun
  /\ held' = IF OfScenario THEN run.checkpoint ELSE held
  /\ UNCHANGED <<work, skill, acted, runs, lost>>
CallerIsNotTold ==
  /\ ByCaller /\ Underway /\ run' = NoRun
  /\ History(runs, lost + 1) /\ UNCHANGED <<work, skill, held, acted>>
SkillIsTold ==
  /\ ~ByCaller /\ Underway /\ run.at = "close" /\ run' = NoRun
  /\ ToSkill(run.result) /\ UNCHANGED <<work, held, acted, runs, lost>>
SkillIsNotTold ==
  /\ ~ByCaller /\ Underway /\ run' = NoRun
  /\ IF skill.at = "rolling" THEN EndSkill("PROCEDURE_FAILED") ELSE EndSkill("UNEXPECTED_FAILURE")
  /\ History(runs, lost + 1) /\ UNCHANGED <<work, held, acted>>

\* The skill goes on, or ends without a run; or nothing is left of what was done.
SkillChecks ==
  /\ UNCHANGED <<work, run, held, acted, runs, lost>>
  /\ \/ skill.at \in {"preconditions", "validations"} /\ skill' = [skill EXCEPT !.item = @ + 1]
     \/ skill.at = "preconditions" /\ EndSkill("PRECONDITION_FAILED")
     \/ skill.at = "preconditions" /\ EndSkill("UNEXPECTED_FAILURE")
     \/ skill.at = "rollback" /\ EndSkill("PROCEDURE_FAILED")
     \/ skill.at = "validations" /\ \E outcome \in {"VALIDATION_FAILED", "COMPLETED"} : EndSkill(outcome)
Forgets ==
  /\ run' = NoRun /\ skill' = NoSkill /\ work' = NoWork
  /\ held' = NoCheckpoint /\ acted' = << >> /\ History(0, 0)
SkillIsAsked ==
  \E manifest \in Skills, tool \in ToolManifests :
    \E workers \in {{"COMPUTER_USE"}, {"PLAYWRIGHT", "COMPUTER_USE"}} : RunSkill(manifest, tool, workers)

ScenarioMoves == Prepares \/ Completes \/ TriesAgain \/ GivesUp \/ (OfScenario /\ ScenarioEnds)
ComputerMoves ==
  \/ TaskPrepares \/ TaskStops \/ TaskActionFails
  \/ OfTask /\ (ActionSucceeds \/ ObserveAfter \/ TaskEnds \/ ProofsAge)
CallerMoves == CallerStarts \/ CallerResumes \/ IsRefused \/ CallerIsTold \/ CallerIsNotTold
SkillMoves ==
  SkillStarts \/ SkillIsTold \/ SkillIsNotTold \/ SkillChecks \/ SkillIsAsked \/ Forgets
BrowserMoves == ScenarioMoves \/ ComputerMoves \/ CallerMoves \/ SkillMoves

LEMMA ErrorsAreKnown ==
  /\ \A thrown \in {"AbortError", "BrowserSelectorNotFoundError", "BrowserSessionExpiredError",
                    "Error", "NoResolver"} :
       ClassifyStepError(thrown) \in StepErrors /\ ClassifyTaskError(thrown) \in StepErrors
  /\ {"none", "RHIA_BROWSER_DOMAIN_FORBIDDEN", "RHIA_BROWSER_ASSERTION_FAILED",
      "RHIA_BROWSER_SECRET_UNAVAILABLE", "RHIA_COMPUTER_USE_DOMAIN_FORBIDDEN"} \subseteq StepErrors
BY DEF ClassifyStepError, ClassifyTaskError, StepErrors

\* Where the worker is says whose run it is.
LEMMA WhoseRun ==
  ASSUME PlacesHold
  PROVE  /\ run.at \in {"step", "call"} => OfScenario
         /\ run.at \in {"observe", "act", "after"} => OfTask
         /\ run.at \in {"resolve", "close"} => Underway
         /\ run.at \notin {"idle", "return"} => Underway
         /\ run.at = "idle" => run = NoRun /\ ~Underway
         /\ run.proofs # {} => OfTask
         /\ ~(OfScenario /\ OfTask)
         /\ OfScenario => run.at \in {"step", "resolve", "call", "close"}
         /\ OfTask => run.at \in {"observe", "resolve", "act", "after", "close"}
         /\ run.at = "return" => run = [NoRun EXCEPT !.at = "return", !.result = "REJECTED"]
<1> DEFINE refused == [NoRun EXCEPT !.at = "return", !.result = "REJECTED"]
<1>1. /\ NoRun.worker = "none" /\ NoRun.at = "idle" /\ NoRun.proofs = {}
      /\ refused.worker = "none" /\ refused.at = "return" /\ refused.proofs = {}
  BY DEF NoRun
<1>2. ~Underway => run = NoRun \/ run = refused
  BY DEF PlacesHold, RunPlace
<1> HIDE DEF refused
<1>3. CASE OfScenario
  <2>1. run.at \in {"step", "resolve", "call", "close"} /\ run.proofs = {}
    BY <1>3 DEF PlacesHold, RunPlace, ScenarioPlace
  <2>. QED  BY <1>3, <2>1 DEF Underway, OfScenario, OfTask
<1>4. CASE OfTask
  <2>1. run.at \in {"observe", "resolve", "act", "after", "close"}
    BY <1>4 DEF PlacesHold, RunPlace, TaskPlace
  <2>. QED  BY <1>4, <2>1 DEF Underway, OfScenario, OfTask
<1>5. CASE ~Underway
  <2>1. ~OfScenario /\ ~OfTask
    BY <1>5 DEF Underway
  <2>2. CASE run = NoRun
    BY <1>1, <1>5, <2>1, <2>2
  <2>3. CASE run = refused
    BY <1>1, <1>5, <2>1, <2>3 DEF refused
  <2>. QED  BY <1>2, <1>5, <2>2, <2>3
<1>. QED  BY <1>3, <1>4, <1>5 DEF Underway

\* An attempt that fails is followed by another only when it may be repeated.
LEMMA AttemptFailsMoves ==
  ASSUME PlacesHold, Acting, SameRun, NEW error \in StepErrors, AttemptFails(error),
         acted' = acted \/ (~Forbidden /\ Try(FALSE))
  PROVE  TriesAgain \/ GivesUp
<1>1. CASE error = "RHIA_BROWSER_SESSION_EXPIRED" \/ run.tries + 1 >= MaxAttempts(Step)
  BY <1>1 DEF AttemptFails, GivesUp
<1>2. CASE ~(error = "RHIA_BROWSER_SESSION_EXPIRED" \/ run.tries + 1 >= MaxAttempts(Step))
  <2>1. run' = [run EXCEPT !.at = "step", !.tries = @ + 1]
    BY <1>2 DEF AttemptFails
  <2>2. Step.kind \notin {"CLICK", "TYPE"}
    <3> SUFFICES ASSUME Step.kind \in {"CLICK", "TYPE"}
                 PROVE  FALSE
      OBVIOUS
    <3>1. MaxAttempts(Step) = 1
      BY DEF MaxAttempts, IsSafelyRetryableAction
    <3>2. run.tries \in Nat
      BY StateFacts DEF PlacesHold
    <3>. QED  BY <1>2, <3>1, <3>2
  <2>. QED  BY <2>1, <2>2 DEF TriesAgain
<1>. QED  BY <1>1, <1>2

LEMMA ScenarioActionsMove ==
  ASSUME PlacesHold
  PROVE  /\ NavigateForbidden \/ FindElement \/ CallSucceeds \/ AssertionFails => ScenarioMoves
         /\ \A thrown \in {"AbortError", "BrowserSelectorNotFoundError", "BrowserSessionExpiredError"} :
              FindFails(thrown) => ScenarioMoves
         /\ \A thrown \in {"Error", "BrowserSessionExpiredError"} : CallFails(thrown) => ScenarioMoves
<1>1. Attempting => Acting
  BY DEF Attempting, Acting, OfScenario
<1>2. Calling => Acting /\ ~Forbidden
  <2>1. CASE run.worker = "PLAYWRIGHT" /\ run.at = "call"
    BY <2>1 DEF PlacesHold, RunPlace, ScenarioPlace, OfScenario, Acting, Forbidden
  <2>2. CASE Attempting /\ ~Forbidden
    BY <1>1, <2>2
  <2>. QED  BY <2>1, <2>2 DEF Calling
<1>3. NavigateForbidden => GivesUp
  BY <1>1, ErrorsAreKnown DEF NavigateForbidden, GivesUp, SameRun
<1>4. ASSUME FindElement
      PROVE  ScenarioMoves
  <2>1. Acting /\ SameRun /\ Step.kind # "NAVIGATE"
    BY <1>1, <1>4 DEF FindElement, SameRun
  <2>2. CASE Step.kind = "WAIT_FOR"
    <3>1. Completes
      BY <1>4, <2>1, <2>2 DEF FindElement, Completes, Forbidden
    <3>. QED  BY <3>1 DEF ScenarioMoves
  <2>3. CASE Step.kind # "WAIT_FOR"
    <3>1. acted' = acted /\ \E at \in {"resolve", "call"} : run' = [run EXCEPT !.at = at]
      BY <1>4, <2>3 DEF FindElement
    <3>2. Prepares
      BY <2>1, <2>3, <3>1 DEF Prepares
    <3>. QED  BY <3>2 DEF ScenarioMoves
  <2>. QED  BY <2>2, <2>3
<1>5. CallSucceeds => Completes
  BY <1>2 DEF CallSucceeds, Completes, SameRun
<1>6. AssertionFails => TriesAgain \/ GivesUp
  <2> SUFFICES ASSUME AssertionFails
               PROVE  TriesAgain \/ GivesUp
    OBVIOUS
  <2>1. Acting /\ ~Forbidden /\ SameRun /\ Try(FALSE) /\ AttemptFails("RHIA_BROWSER_ASSERTION_FAILED")
    BY <1>2 DEF AssertionFails, SameRun
  <2>. QED  BY <2>1, AttemptFailsMoves, ErrorsAreKnown
<1>7. ASSUME NEW thrown \in {"AbortError", "BrowserSelectorNotFoundError", "BrowserSessionExpiredError"},
             FindFails(thrown)
      PROVE  ScenarioMoves
  <2>1. Acting /\ SameRun /\ acted' = acted /\ AttemptFails(ClassifyStepError(thrown))
    BY <1>1, <1>7 DEF FindFails, SameRun
  <2>2. ClassifyStepError(thrown) \in StepErrors
    BY ErrorsAreKnown
  <2>. QED  BY <2>1, <2>2, AttemptFailsMoves DEF ScenarioMoves
<1>8. ASSUME NEW thrown \in {"Error", "BrowserSessionExpiredError"}, CallFails(thrown)
      PROVE  ScenarioMoves
  <2>1. Acting /\ ~Forbidden /\ SameRun /\ Try(FALSE) /\ AttemptFails(ClassifyStepError(thrown))
    BY <1>2, <1>8 DEF CallFails, SameRun
  <2>2. ClassifyStepError(thrown) \in StepErrors
    BY ErrorsAreKnown
  <2>. QED  BY <2>1, <2>2, AttemptFailsMoves DEF ScenarioMoves
<1>. QED  BY <1>3, <1>4, <1>5, <1>6, <1>7, <1>8 DEF ScenarioMoves

\* A step of a high risk is done only with the approval of somebody else.
LEMMA ScreenMoves ==
  ASSUME PlacesHold, NEW host, ScreenIsExpected(host)
  PROVE  TaskPrepares
<1>1. OfTask /\ SameRun /\ acted' = acted /\ run.at = "observe" /\ run.step <= Len(work.steps)
  BY WhoseRun DEF ScreenIsExpected, Observing, SameRun
<1>2. ApprovedBySomebodyElse(Step)
  BY DEF ScreenIsExpected, ApprovedBySomebodyElse, Approved, ValidApproval
<1>3. \E at \in {"resolve", "act"} : run' = [run EXCEPT !.at = at]
  BY DEF ScreenIsExpected
<1>. QED  BY <1>1, <1>2, <1>3 DEF TaskPrepares

\* The steps of computer use, and the secrets of both workers.
LEMMA TaskActionsMove ==
  ASSUME PlacesHold
  PROVE  /\ \A modal \in BOOLEAN, host \in Hosts : ScreenBlocks(modal, host) => TaskStops
         /\ \A host \in Hosts : WrongPage(host) => TaskStops
         /\ \A host \in Hosts : ScreenIsExpected(host) => TaskPrepares
         /\ \A thrown \in {"AbortError", "Error"} : ActionFails(thrown) => TaskActionFails
         /\ ActionSucceeds \/ ObserveAfter \/ TaskEnds \/ ProofsAge => OfTask
         /\ ResolveSecret => Prepares \/ TaskPrepares
         /\ \A thrown \in {"NoResolver", "AbortError"} :
              ResolveFails(thrown) => TriesAgain \/ GivesUp \/ TaskStops
<1>1. Observing => OfTask /\ run.at = "observe" /\ run.step <= Len(work.steps)
  BY WhoseRun DEF Observing
<1>2. ASSUME NEW modal \in BOOLEAN, NEW host \in Hosts, ScreenBlocks(modal, host)
      PROVE  TaskStops
  <2>1. OfTask /\ SameRun /\ acted' = acted /\ run.at = "observe" /\ run.step <= Len(work.steps)
    BY <1>1, <1>2 DEF ScreenBlocks, SameRun
  <2>2. EndRun("ESCALATED_TO_HUMAN", Trace("BLOCKED", "none"))
    BY <1>2 DEF ScreenBlocks
  <2>. QED  BY <2>1, <2>2, ErrorsAreKnown DEF TaskStops
<1>3. ASSUME NEW host \in Hosts, WrongPage(host)
      PROVE  TaskStops
  <2>1. OfTask /\ SameRun /\ acted' = acted /\ run.at = "observe" /\ run.step <= Len(work.steps)
    BY <1>1, <1>3 DEF WrongPage, SameRun
  <2>2. EndRun("FAILED", Trace("FAILED", "RHIA_COMPUTER_USE_DOMAIN_FORBIDDEN"))
    BY <1>3 DEF WrongPage
  <2>. QED  BY <2>1, <2>2, ErrorsAreKnown DEF TaskStops
<1>4. ASSUME NEW thrown \in {"AbortError", "Error"}, ActionFails(thrown)
      PROVE  TaskActionFails
  <2>1. OfTask /\ SameRun /\ Try(FALSE) /\ run.at = "act"
    BY <1>4, WhoseRun DEF ActionFails, SameRun
  <2>2. EndRun("FAILED", Trace("FAILED", ClassifyTaskError(thrown)))
    BY <1>4 DEF ActionFails
  <2>. QED  BY <2>1, <2>2, ErrorsAreKnown DEF TaskActionFails
<1>5. ActionSucceeds \/ ObserveAfter \/ TaskEnds \/ ProofsAge => OfTask
  BY WhoseRun DEF ActionSucceeds, ObserveAfter, TaskEnds, ProofsAge
<1>6. run.at = "resolve" => \/ Acting /\ Step.kind \notin {"NAVIGATE", "WAIT_FOR"}
                            \/ OfTask /\ run.worker # "PLAYWRIGHT" /\ run.step <= Len(work.steps)
  <2> SUFFICES ASSUME run.at = "resolve"
               PROVE  \/ Acting /\ Step.kind \notin {"NAVIGATE", "WAIT_FOR"}
                      \/ OfTask /\ run.worker # "PLAYWRIGHT" /\ run.step <= Len(work.steps)
    OBVIOUS
  <2>1. CASE OfScenario
    BY <2>1 DEF PlacesHold, RunPlace, ScenarioPlace, Acting
  <2>2. CASE OfTask
    BY <2>2 DEF PlacesHold, RunPlace, TaskPlace, OfTask
  <2>. QED  BY <2>1, <2>2, WhoseRun DEF Underway
<1>7. ASSUME ResolveSecret
      PROVE  Prepares \/ TaskPrepares
  <2>1. SameRun /\ acted' = acted /\ run.at = "resolve"
    BY <1>7 DEF ResolveSecret, SameRun
  <2>2. CASE Acting /\ Step.kind \notin {"NAVIGATE", "WAIT_FOR"}
    <3>1. run' = [run EXCEPT !.at = "call"]
      BY <1>7, <2>2 DEF ResolveSecret, Acting, OfScenario
    <3>. QED  BY <2>1, <2>2, <3>1 DEF Prepares
  <2>3. CASE OfTask /\ run.worker # "PLAYWRIGHT" /\ run.step <= Len(work.steps)
    <3>1. run' = [run EXCEPT !.at = "act"]
      BY <1>7, <2>3 DEF ResolveSecret
    <3>. QED  BY <2>1, <2>3, <3>1 DEF TaskPrepares
  <2>. QED  BY <1>6, <2>1, <2>2, <2>3
<1>8. ASSUME NEW thrown \in {"NoResolver", "AbortError"}, ResolveFails(thrown)
      PROVE  TriesAgain \/ GivesUp \/ TaskStops
  <2>1. SameRun /\ acted' = acted /\ run.at = "resolve"
    BY <1>8 DEF ResolveFails, SameRun
  <2>2. CASE Acting
    <3>1. \E error \in StepErrors : AttemptFails(error)
      <4>1. CASE thrown = "NoResolver"
        BY <1>8, <2>2, <4>1, ErrorsAreKnown DEF ResolveFails, Acting, OfScenario
      <4>2. CASE thrown # "NoResolver"
        <5>1. AttemptFails(ClassifyStepError(thrown))
          BY <1>8, <2>2, <4>2 DEF ResolveFails, Acting, OfScenario
        <5>. QED  BY <5>1, ErrorsAreKnown
      <4>. QED  BY <4>1, <4>2
    <3>. QED  BY <2>1, <2>2, <3>1, AttemptFailsMoves
  <2>3. CASE OfTask /\ run.worker # "PLAYWRIGHT" /\ run.step <= Len(work.steps)
    <3>1. EndRun("FAILED", Trace("FAILED", ClassifyTaskError(thrown)))
      BY <1>8, <2>3 DEF ResolveFails
    <3>2. ClassifyTaskError(thrown) \in StepErrors
      BY ErrorsAreKnown
    <3>. QED  BY <2>1, <2>3, <3>1, <3>2 DEF TaskStops
  <2>. QED  BY <1>6, <2>1, <2>2, <2>3
<1>. QED  BY <1>2, <1>3, <1>4, <1>5, <1>7, <1>8, ScreenMoves

LEMMA CallerActionsMove ==
  ASSUME PlacesHold
  PROVE  /\ \A scenario \in Scenarios :
              RunScenario(scenario) \/ ResumeScenario(scenario) => CallerMoves
         /\ \A task \in ComputerTasks, proof \in ApprovalProofs :
              RunTask(task, {proof}) \/ RunTask(task, {}) => CallerMoves
         /\ ReturnRejected => Forgets
<1>1. ASSUME NEW scenario \in Scenarios, RunScenario(scenario)
      PROVE  CallerMoves
  <2>1. ByCaller /\ run.at = "idle" /\ UNCHANGED skill /\ FirstRun
    BY <1>1 DEF RunScenario
  <2>2. CASE ValidScenario(scenario)
    <3>1. StartScenario(scenario, NoCheckpoint)
      BY <1>1, <2>2 DEF RunScenario
    <3>2. CallerStarts
      BY <2>1, <2>2, <3>1 DEF CallerStarts
    <3>. QED  BY <3>2 DEF CallerMoves
  <2>3. CASE ~ValidScenario(scenario)
    <3>1. Rejected /\ work' = NoWork
      BY <1>1, <2>3 DEF RunScenario
    <3>2. held' = NoCheckpoint /\ acted' = << >> /\ History(1, 0)
      BY <2>1 DEF FirstRun
    <3>3. IsRefused
      BY <2>1, <3>1, <3>2 DEF IsRefused
    <3>. QED  BY <3>3 DEF CallerMoves
  <2>. QED  BY <2>2, <2>3
<1>2. ASSUME NEW scenario \in Scenarios, ResumeScenario(scenario)
      PROVE  CallerMoves
  BY <1>2 DEF CallerMoves, CallerResumes
<1>3. ASSUME NEW task \in ComputerTasks, NEW proof \in ApprovalProofs, NEW proofs \in {{proof}, {}},
             RunTask(task, proofs)
      PROVE  CallerMoves
  <2>1. /\ ByCaller /\ run.at = "idle" /\ UNCHANGED skill
        /\ held' = NoCheckpoint /\ acted' = << >> /\ History(0, 0)
    BY <1>3 DEF RunTask
  <2>2. CASE ValidTask(task)
    <3>1. StartTask(task, proofs)
      BY <1>3, <2>2 DEF RunTask
    <3>2. CallerStarts
      BY <2>1, <2>2, <3>1 DEF CallerStarts
    <3>. QED  BY <3>2 DEF CallerMoves
  <2>3. CASE ~ValidTask(task)
    <3>1. Rejected /\ work' = NoWork
      BY <1>3, <2>3 DEF RunTask
    <3>2. IsRefused
      BY <2>1, <3>1 DEF IsRefused
    <3>. QED  BY <3>2 DEF CallerMoves
  <2>. QED  BY <2>2, <2>3
<1>4. ASSUME ReturnRejected
      PROVE  Forgets
  <2>1. run.at = "return" /\ run' = NoRun /\ History(0, 0) /\ UNCHANGED <<work, skill, held, acted>>
    BY <1>4 DEF ReturnRejected
  <2>2. ByCaller /\ acted = << >> /\ held = NoCheckpoint /\ work = NoWork
    BY <2>1 DEF PlacesHold, RunPlace
  <2>3. skill = NoSkill
    BY <2>2 DEF PlacesHold, SkillPlace, ByCaller
  <2>. QED  BY <2>1, <2>2, <2>3 DEF Forgets
<1>. QED  BY <1>1, <1>2, <1>3, <1>4

LEMMA SkillActionsMove ==
  ASSUME PlacesHold
  PROVE  /\ \A ok \in BOOLEAN : CheckPrecondition(ok) \/ CheckValidation(ok) => SkillChecks
         /\ RunProcedure \/ RunRollback => SkillStarts \/ SkillChecks
         /\ ReturnSkill => Forgets
<1>1. ASSUME NEW ok \in BOOLEAN, CheckPrecondition(ok)
      PROVE  SkillChecks
  BY <1>1 DEF CheckPrecondition, SkillChecks
<1>2. ASSUME NEW ok \in BOOLEAN, CheckValidation(ok)
      PROVE  SkillChecks
  <2>1. skill.at = "validations" /\ UNCHANGED <<work, run, held, acted, runs, lost>>
    BY <1>2 DEF CheckValidation
  <2>2. \/ skill' = [skill EXCEPT !.item = @ + 1]
        \/ \E outcome \in {"VALIDATION_FAILED", "COMPLETED"} : EndSkill(outcome)
    BY <1>2 DEF CheckValidation
  <2>. QED  BY <2>1, <2>2 DEF SkillChecks
<1>3. ASSUME RunProcedure
      PROVE  SkillStarts \/ SkillChecks
  <2>1. skill.at = "preconditions" /\ UNCHANGED <<held, acted, runs, lost>>
    BY <1>3 DEF RunProcedure
  <2>2. CASE skill.of.procedure.kind \in skill.workers
    <3>1. skill' = [skill EXCEPT !.at = "procedure"] /\ StartProcedure(skill.of.procedure)
      BY <1>3, <2>2 DEF RunProcedure
    <3>2. skill.of \in Skills /\ ValidSkill(skill.of)
      BY <2>1 DEF PlacesHold, SkillPlace
    <3>3. RunsOneOfThem(skill.of.procedure) /\ ValidProcedure(skill.of.procedure)
      BY <3>2, BrowserAssumption DEF BrowserAssumption, ValidSkill
    <3>. QED  BY <2>1, <3>1, <3>3 DEF SkillStarts, StartsProcedure
  <2>3. CASE skill.of.procedure.kind \notin skill.workers
    BY <1>3, <2>1, <2>3 DEF RunProcedure, SkillChecks
  <2>. QED  BY <2>2, <2>3
<1>4. ASSUME RunRollback
      PROVE  SkillStarts \/ SkillChecks
  <2>1. skill.at = "rollback" /\ UNCHANGED <<held, acted, runs, lost>>
    BY <1>4 DEF RunRollback
  <2>2. CASE skill.of.rollback[1].kind \in skill.workers
    <3>1. skill' = [skill EXCEPT !.at = "rolling"] /\ StartProcedure(skill.of.rollback[1])
      BY <1>4, <2>2 DEF RunRollback
    <3>2. skill.of \in Skills /\ ValidSkill(skill.of) /\ skill.of.rollback # << >>
      BY <2>1 DEF PlacesHold, SkillPlace
    <3>3. 1 \in DOMAIN skill.of.rollback /\ RunsOneOfThem(skill.of.rollback[1])
      BY <3>2, BrowserAssumption DEF BrowserAssumption
    <3>4. ValidProcedure(skill.of.rollback[1])
      BY <3>2, <3>3 DEF ValidSkill
    <3>. QED  BY <2>1, <3>1, <3>3, <3>4 DEF SkillStarts, StartsProcedure
  <2>3. CASE skill.of.rollback[1].kind \notin skill.workers
    BY <1>4, <2>1, <2>3 DEF RunRollback, SkillChecks
  <2>. QED  BY <2>2, <2>3
<1>5. ASSUME ReturnSkill
      PROVE  Forgets
  <2>1. skill.at = "ended" /\ run' = run
    BY <1>5 DEF ReturnSkill
  <2>2. run = NoRun
    BY <2>1 DEF PlacesHold, SkillPlace
  <2>. QED  BY <1>5, <2>1, <2>2 DEF ReturnSkill, Forgets
<1>. QED  BY <1>1, <1>2, <1>3, <1>4, <1>5

\* Whether or not somebody is told.
LEMMA EndingsMove ==
  ASSUME PlacesHold
  PROVE  /\ CloseContext => CallerIsTold \/ SkillIsTold
         /\ RunThrows => CallerIsNotTold \/ SkillIsNotTold
         /\ ProcessDies => CallerIsNotTold \/ Forgets
<1>1. ByCaller => skill = NoSkill
  BY DEF PlacesHold, SkillPlace, ByCaller
<1>2. ~ByCaller => held = NoCheckpoint
  BY DEF PlacesHold, SkillPlace
<1>3. ASSUME CloseContext
      PROVE  CallerIsTold \/ SkillIsTold
  <2>1. Underway /\ run.at = "close" /\ run' = NoRun /\ UNCHANGED <<work, acted, runs, lost>>
    BY <1>3, WhoseRun DEF CloseContext
  <2>2. CASE ByCaller
    BY <1>3, <2>1, <2>2 DEF CloseContext, CallerIsTold, OfScenario
  <2>3. CASE ~ByCaller
    BY <1>3, <2>1, <2>3 DEF CloseContext, SkillIsTold
  <2>. QED  BY <2>2, <2>3
<1>4. ASSUME RunThrows
      PROVE  CallerIsNotTold \/ SkillIsNotTold
  <2>1. /\ Underway /\ run' = NoRun /\ History(runs, lost + 1)
        /\ UNCHANGED <<work, held, acted>>
    BY <1>4, WhoseRun DEF RunThrows, Underway
  <2>2. CASE ByCaller
    BY <1>4, <2>1, <2>2 DEF RunThrows, CallerIsNotTold
  <2>3. CASE ~ByCaller
    BY <1>4, <2>1, <2>3 DEF RunThrows, SkillIsNotTold
  <2>. QED  BY <2>2, <2>3
<1>5. ASSUME ProcessDies
      PROVE  CallerIsNotTold \/ Forgets
  <2>1. run' = NoRun /\ skill' = NoSkill /\ UNCHANGED held
    BY <1>5 DEF ProcessDies
  <2>2. CASE ByCaller
    <3>1. Underway
      BY <1>5, <2>2, WhoseRun DEF ProcessDies, ByCaller
    <3>. QED  BY <1>1, <1>5, <2>1, <2>2, <3>1 DEF ProcessDies, CallerIsNotTold
  <2>3. CASE ~ByCaller
    BY <1>2, <1>5, <2>1, <2>3 DEF ProcessDies, Forgets
  <2>. QED  BY <2>2, <2>3
<1>. QED  BY <1>3, <1>4, <1>5

\* Every step of the workers is one of these.
LEMMA EveryStepMoves ==
  ASSUME PlacesHold, BrowserNext
  PROVE  BrowserMoves
<1>1. NavigateForbidden \/ FindElement \/ CallSucceeds \/ AssertionFails => ScenarioMoves
  BY ScenarioActionsMove
<1>2. ScenarioEnds => ScenarioMoves
  BY DEF ScenarioEnds, ScenarioMoves, OfScenario
<1>3. ActionSucceeds \/ ObserveAfter \/ TaskEnds \/ ProofsAge => ComputerMoves
  BY TaskActionsMove DEF ComputerMoves
<1>4. ResolveSecret => ScenarioMoves \/ ComputerMoves
  BY TaskActionsMove DEF ComputerMoves, ScenarioMoves
<1>5. RunProcedure \/ RunRollback \/ ReturnSkill => SkillMoves
  BY SkillActionsMove DEF SkillMoves
<1>6. CloseContext \/ ReturnRejected \/ RunThrows \/ ProcessDies => CallerMoves \/ SkillMoves
  BY EndingsMove, CallerActionsMove DEF CallerMoves, SkillMoves
<1>7. CASE \E scenario \in Scenarios : RunScenario(scenario) \/ ResumeScenario(scenario)
  BY <1>7, CallerActionsMove DEF BrowserMoves
<1>8. CASE \E thrown \in {"AbortError", "BrowserSelectorNotFoundError", "BrowserSessionExpiredError"} :
             FindFails(thrown)
  BY <1>8, ScenarioActionsMove DEF BrowserMoves
<1>9. CASE \E thrown \in {"Error", "BrowserSessionExpiredError"} : CallFails(thrown)
  BY <1>9, ScenarioActionsMove DEF BrowserMoves
<1>10. CASE \E task \in ComputerTasks : \E proof \in ApprovalProofs :
              RunTask(task, {proof}) \/ RunTask(task, {})
  BY <1>10, CallerActionsMove DEF BrowserMoves
<1>11. CASE \E modal \in BOOLEAN, host \in Hosts : ScreenBlocks(modal, host)
  BY <1>11, TaskActionsMove DEF BrowserMoves, ComputerMoves
<1>12. CASE \E host \in Hosts : WrongPage(host) \/ ScreenIsExpected(host)
  BY <1>12, TaskActionsMove DEF BrowserMoves, ComputerMoves
<1>13. CASE \E thrown \in {"AbortError", "Error"} : ActionFails(thrown)
  BY <1>13, TaskActionsMove DEF BrowserMoves, ComputerMoves
<1>14. CASE \E thrown \in {"NoResolver", "AbortError"} : ResolveFails(thrown)
  BY <1>14, TaskActionsMove DEF BrowserMoves, ComputerMoves, ScenarioMoves
<1>15. CASE \E manifest \in Skills, tool \in ToolManifests :
              \E workers \in {{"COMPUTER_USE"}, {"PLAYWRIGHT", "COMPUTER_USE"}} :
                RunSkill(manifest, tool, workers)
  BY <1>15 DEF BrowserMoves, SkillMoves, SkillIsAsked
<1>16. CASE \E ok \in BOOLEAN : CheckPrecondition(ok) \/ CheckValidation(ok)
  BY <1>16, SkillActionsMove DEF BrowserMoves, SkillMoves
<1>. QED
  BY <1>1, <1>2, <1>3, <1>4, <1>5, <1>6, <1>7, <1>8, <1>9, <1>10, <1>11, <1>12, <1>13, <1>14,
     <1>15, <1>16
     DEF BrowserNext, BrowserMoves

-----------------------------------------------------------------------------
(* What a step leaves of a run.                                             *)

\* The rest of a run: everything but where it is.
Unmoved == /\ run'.worker = run.worker /\ run'.proofs = run.proofs
           /\ run' \in Runs
LogStays == run'.log = run.log
LogGrowsBy(entry) ==
  /\ run'.log = Append(run.log, entry)
  /\ Len(run'.log) = Len(run.log) + 1
  /\ \A i \in 1..Len(run.log) : run'.log[i] = run.log[i]
  /\ run'.log[Len(run.log) + 1] = entry

LEMMA LogGrows ==
  ASSUME TypesHold, NEW entry \in Entries, run'.log = Append(run.log, entry)
  PROVE  LogGrowsBy(entry) /\ Append(run.log, entry) \in Seq(Entries)
<1>1. run.log \in Seq(Entries)
  BY StateFacts
<1>. QED  BY <1>1, AppendProperties DEF LogGrowsBy

LEMMA EntriesAreTyped ==
  ASSUME TypesHold, NEW error \in StepErrors
  PROVE  /\ \A outcome \in {"SUCCEEDED", "FAILED"} : Evidence(outcome, error) \in Entries
         /\ \A outcome \in {"EXECUTED", "BLOCKED", "FAILED"} : Trace(outcome, error) \in Entries
<1>1. run.step \in Nat /\ run.tries + 1 \in Nat
  <2>1. run.step \in Nat /\ run.tries \in Nat
    BY StateFacts
  <2>. QED  BY <2>1
<1>2. ASSUME NEW outcome \in {"SUCCEEDED", "FAILED"}
      PROVE  Evidence(outcome, error) \in Entries
  <2>1. Evidence(outcome, error)
          \in [step : Nat, outcome : {"SUCCEEDED", "FAILED"}, attempts : Nat, error : StepErrors]
    BY <1>1 DEF Evidence
  <2>. QED  BY <2>1 DEF Entries
<1>3. ASSUME NEW outcome \in {"EXECUTED", "BLOCKED", "FAILED"}
      PROVE  Trace(outcome, error) \in Entries
  <2>1. Trace(outcome, error)
          \in [step : Nat, outcome : {"EXECUTED", "BLOCKED", "FAILED"}, error : StepErrors]
    BY <1>1 DEF Trace
  <2>. QED  BY <2>1 DEF Entries
<1>. QED  BY <1>2, <1>3

LEMMA PreparesFields ==
  ASSUME PlacesHold, Prepares
  PROVE  /\ Unmoved /\ LogStays /\ run'.at \in {"resolve", "call"} /\ run'.step = run.step
         /\ run'.tries = run.tries /\ run'.checkpoint = run.checkpoint /\ run'.result = run.result
<1>1. run \in Runs
  BY DEF PlacesHold, TypesHold
<1>. QED  BY <1>1 DEF Prepares, Unmoved, LogStays, Runs

LEMMA CompletesFields ==
  ASSUME PlacesHold, Completes
  PROVE  /\ Unmoved /\ LogGrowsBy(Evidence("SUCCEEDED", "none"))
         /\ run'.at = "step" /\ run'.step = run.step + 1
         /\ run'.tries = 0 /\ run'.checkpoint.of = work.id /\ run'.checkpoint.step = run.step
         /\ run'.result = run.result
<1> DEFINE entry == Evidence("SUCCEEDED", "none")
           point == [of |-> work.id, step |-> run.step]
<1>1. run \in Runs /\ run.step \in Nat /\ TypesHold
  BY StateFacts DEF PlacesHold, TypesHold
<1>2. entry \in Entries
  BY <1>1, EntriesAreTyped, ErrorsAreKnown
<1>3. point \in Checkpoints
  <2>1. work.id \in WorkIds
    BY ValidScenarioFacts DEF Completes, Acting, PlacesHold, RunPlace, ScenarioPlace
  <2>. QED  BY <1>1, <2>1 DEF Checkpoints
<1>4. run' = [run EXCEPT !.at = "step", !.step = @ + 1, !.tries = 0, !.checkpoint = point,
                         !.log = Append(@, entry)]
  BY DEF Completes, StepSucceeds
<1> HIDE DEF entry
<1>5. run'.log = Append(run.log, entry)
  BY <1>1, <1>4 DEF Runs
<1>6. LogGrowsBy(entry) /\ Append(run.log, entry) \in Seq(Entries)
  BY <1>1, <1>2, <1>5, LogGrows
<1>7. /\ run'.at = "step" /\ run'.step = run.step + 1 /\ run'.tries = 0
      /\ run'.checkpoint = point /\ run'.result = run.result
      /\ run'.worker = run.worker /\ run'.proofs = run.proofs
  BY <1>1, <1>4 DEF Runs
<1>8. run' \in Runs
  <2> DEFINE log == Append(run.log, entry)
             next == run.step + 1
  <2>1. next \in Nat /\ 0 \in Nat /\ log \in Seq(Entries)
    BY <1>1, <1>6
  <2>2. run' = [run EXCEPT !.at = "step", !.step = next, !.tries = 0, !.checkpoint = point,
                           !.log = log]
    BY <1>1, <1>4 DEF Runs
  <2> HIDE DEF point, log, next
  <2>. QED  BY <1>1, <1>3, <2>1, <2>2 DEF Runs
<1>. QED  BY <1>6, <1>7, <1>8 DEF Unmoved, entry

LEMMA TriesAgainFields ==
  ASSUME PlacesHold, TriesAgain
  PROVE  /\ Unmoved /\ LogStays /\ run'.at = "step" /\ run'.step = run.step
         /\ run'.tries = run.tries + 1 /\ run'.checkpoint = run.checkpoint
         /\ run'.result = run.result
<1>1. run \in Runs /\ run.tries + 1 \in Nat
  <2>1. TypesHold /\ run \in Runs
    BY DEF PlacesHold, TypesHold
  <2>2. run.tries \in Nat
    BY <2>1, StateFacts
  <2>. QED  BY <2>1, <2>2
<1>2. run' = [run EXCEPT !.at = "step", !.tries = @ + 1]
  BY DEF TriesAgain
<1>. QED  BY <1>1, <1>2 DEF Unmoved, LogStays, Runs

\* A run that stops, of either worker.
LEMMA StopFields ==
  ASSUME TypesHold, NEW result \in {"FAILED", "ESCALATED_TO_HUMAN"}, NEW entry \in Entries,
         EndRun(result, entry)
  PROVE  /\ Unmoved /\ LogGrowsBy(entry) /\ run'.at = "close" /\ run'.result = result
         /\ run'.step = run.step /\ run'.tries = run.tries /\ run'.checkpoint = run.checkpoint
<1>1. run \in Runs
  BY DEF TypesHold
<1>2. run' = [run EXCEPT !.at = "close", !.result = result, !.log = Append(@, entry)]
  BY DEF EndRun
<1>3. run'.log = Append(run.log, entry)
  BY <1>1, <1>2 DEF Runs
<1>4. LogGrowsBy(entry) /\ Append(run.log, entry) \in Seq(Entries)
  BY <1>3, LogGrows
<1>5. /\ run'.at = "close" /\ run'.result = result /\ run'.step = run.step
      /\ run'.tries = run.tries /\ run'.checkpoint = run.checkpoint
      /\ run'.worker = run.worker /\ run'.proofs = run.proofs
  BY <1>1, <1>2 DEF Runs
<1>6. run' \in Runs
  BY <1>1, <1>2, <1>4 DEF Runs
<1>. QED  BY <1>4, <1>5, <1>6 DEF Unmoved

LEMMA GivesUpFields ==
  ASSUME PlacesHold, GivesUp
  PROVE  \E error \in StepErrors :
           /\ Unmoved /\ LogGrowsBy(Evidence("FAILED", error))
           /\ run'.at = "close" /\ run'.result = "FAILED"
           /\ run'.step = run.step /\ run'.tries = run.tries /\ run'.checkpoint = run.checkpoint
<1>1. PICK error \in StepErrors : StepFails(error)
  BY DEF GivesUp
<1>2. TypesHold
  BY DEF PlacesHold
<1>3. Evidence("FAILED", error) \in Entries
  BY <1>2, EntriesAreTyped
<1>4. EndRun("FAILED", Evidence("FAILED", error))
  BY <1>1 DEF StepFails
<1>. QED  BY <1>2, <1>3, <1>4, StopFields

LEMMA ScenarioEndsFields ==
  ASSUME PlacesHold, OfScenario, ScenarioEnds
  PROVE  /\ Unmoved /\ LogStays /\ SameRun /\ acted' = acted
         /\ run.at = "step" /\ run.step > Len(work.steps)
         /\ run'.at = "close" /\ run'.result = "COMPLETED"
         /\ run'.step = run.step /\ run'.tries = run.tries /\ run'.checkpoint = run.checkpoint
<1>1. run \in Runs
  BY DEF PlacesHold, TypesHold
<1>. QED  BY <1>1 DEF ScenarioEnds, Unmoved, LogStays, Runs, SameRun

LEMMA TaskPreparesFields ==
  ASSUME PlacesHold, TaskPrepares
  PROVE  /\ Unmoved /\ LogStays /\ run'.at \in {"resolve", "act"} /\ run'.step = run.step
         /\ run'.checkpoint = run.checkpoint /\ run'.result = run.result
<1>1. run \in Runs
  BY DEF PlacesHold, TypesHold
<1>. QED  BY <1>1 DEF TaskPrepares, Unmoved, LogStays, Runs

LEMMA TaskStopsFields ==
  ASSUME PlacesHold, TaskStops \/ TaskActionFails
  PROVE  \E error \in StepErrors, result \in {"FAILED", "ESCALATED_TO_HUMAN"} :
           /\ Unmoved
           /\ LogGrowsBy(Trace(IF result = "FAILED" THEN "FAILED" ELSE "BLOCKED", error))
           /\ run'.at = "close" /\ run'.result = result
           /\ TaskActionFails => result = "FAILED"
           /\ run'.step = run.step /\ run'.checkpoint = run.checkpoint
<1>1. TypesHold
  BY DEF PlacesHold
<1>2. CASE \E error \in StepErrors : EndRun("FAILED", Trace("FAILED", error))
  <2>1. PICK error \in StepErrors : EndRun("FAILED", Trace("FAILED", error))
    BY <1>2
  <2>2. Trace("FAILED", error) \in Entries
    BY <1>1, EntriesAreTyped
  <2>. QED  BY <1>1, <2>1, <2>2, StopFields
<1>3. CASE ~TaskActionFails /\ \E error \in StepErrors :
             EndRun("ESCALATED_TO_HUMAN", Trace("BLOCKED", error))
  <2>1. PICK error \in StepErrors : EndRun("ESCALATED_TO_HUMAN", Trace("BLOCKED", error))
    BY <1>3
  <2>2. Trace("BLOCKED", error) \in Entries
    BY <1>1, EntriesAreTyped
  <2>. QED  BY <1>1, <1>3, <2>1, <2>2, StopFields
<1>. QED  BY <1>2, <1>3 DEF TaskStops, TaskActionFails

LEMMA TaskStepFields ==
  ASSUME PlacesHold, OfTask
  PROVE  /\ ActionSucceeds =>
              /\ Unmoved /\ LogStays /\ SameRun /\ run.at = "act" /\ run'.at = "after"
              /\ run'.step = run.step /\ run'.checkpoint = run.checkpoint
              /\ run'.result = run.result
         /\ ObserveAfter =>
              /\ Unmoved /\ LogGrowsBy(Trace("EXECUTED", "none")) /\ SameRun /\ acted' = acted
              /\ run.at = "after" /\ run'.at = "observe" /\ run'.step = run.step + 1
              /\ run'.checkpoint = run.checkpoint /\ run'.result = run.result
         /\ TaskEnds =>
              /\ Unmoved /\ LogStays /\ SameRun /\ acted' = acted
              /\ run.at = "observe" /\ run.step > Len(work.steps)
              /\ run'.at = "close" /\ run'.step = run.step /\ run'.result = "COMPLETED"
              /\ run'.checkpoint = run.checkpoint
         /\ ProofsAge =>
              /\ Unmoved /\ LogStays /\ SameRun /\ acted' = acted
              /\ run'.at = run.at /\ run'.step = run.step
              /\ run'.checkpoint = run.checkpoint /\ run'.result = run.result
<1>1. run \in Runs /\ TypesHold /\ run.step \in Nat
  BY StateFacts DEF PlacesHold, TypesHold
<1>2. ASSUME ActionSucceeds
      PROVE  /\ Unmoved /\ LogStays /\ SameRun /\ run.at = "act" /\ run'.at = "after"
             /\ run'.step = run.step /\ run'.checkpoint = run.checkpoint
             /\ run'.result = run.result
  BY <1>1, <1>2 DEF ActionSucceeds, Unmoved, LogStays, SameRun, Runs
<1>3. ASSUME ObserveAfter
      PROVE  /\ Unmoved /\ LogGrowsBy(Trace("EXECUTED", "none")) /\ SameRun /\ acted' = acted
             /\ run.at = "after" /\ run'.at = "observe" /\ run'.step = run.step + 1
             /\ run'.checkpoint = run.checkpoint /\ run'.result = run.result
  <2> DEFINE entry == Trace("EXECUTED", "none")
  <2>1. run' = [run EXCEPT !.at = "observe", !.step = @ + 1, !.log = Append(@, entry)]
    BY <1>3 DEF ObserveAfter
  <2>2. entry \in Entries
    BY <1>1, EntriesAreTyped, ErrorsAreKnown
  <2> HIDE DEF entry
  <2>3. run'.log = Append(run.log, entry)
    BY <1>1, <2>1 DEF Runs
  <2>4. LogGrowsBy(entry) /\ Append(run.log, entry) \in Seq(Entries)
    BY <1>1, <2>2, <2>3, LogGrows
  <2>5. /\ run'.at = "observe" /\ run'.step = run.step + 1
        /\ run'.checkpoint = run.checkpoint /\ run'.result = run.result
        /\ run'.worker = run.worker /\ run'.proofs = run.proofs
    BY <1>1, <2>1 DEF Runs
  <2>6. run' \in Runs
    <3> DEFINE log == Append(run.log, entry)
               next == run.step + 1
    <3>1. next \in Nat /\ log \in Seq(Entries)
      BY <1>1, <2>4
    <3>2. run' = [run EXCEPT !.at = "observe", !.step = next, !.log = log]
      BY <1>1, <2>1 DEF Runs
    <3> HIDE DEF log, next
    <3>. QED  BY <1>1, <3>1, <3>2 DEF Runs
  <2>7. SameRun /\ acted' = acted /\ run.at = "after"
    BY <1>3 DEF ObserveAfter, SameRun
  <2>. QED  BY <2>4, <2>5, <2>6, <2>7 DEF Unmoved, entry
<1>4. ASSUME TaskEnds
      PROVE  /\ Unmoved /\ LogStays /\ SameRun /\ acted' = acted
             /\ run.at = "observe" /\ run.step > Len(work.steps)
             /\ run'.at = "close" /\ run'.step = run.step /\ run'.result = "COMPLETED"
             /\ run'.checkpoint = run.checkpoint
  BY <1>1, <1>4 DEF TaskEnds, Unmoved, LogStays, SameRun, Runs
<1>5. ASSUME ProofsAge
      PROVE  /\ Unmoved /\ LogStays /\ SameRun /\ acted' = acted
             /\ run'.at = run.at /\ run'.step = run.step
             /\ run'.checkpoint = run.checkpoint /\ run'.result = run.result
  <2>1. run.now + 1 \in Nat
    BY <1>1 DEF Runs
  <2>. QED  BY <1>1, <1>5, <2>1 DEF ProofsAge, Unmoved, LogStays, SameRun, Runs
<1>. QED  BY <1>2, <1>3, <1>4, <1>5

-----------------------------------------------------------------------------
(* The places are kept.                                                     *)

\* While a run goes on, for whom it is and what was lost stays.
LEMMA RunGoesOn ==
  ASSUME PlacesHold, Underway, SameRun, Unmoved,
         acted' = acted \/ \E ok \in BOOLEAN : Try(ok),
         run'.at \notin {"idle", "return"}, run'.at # "close" => run'.result = "none",
         ScenarioPlace', TaskPlace', CheckpointPlace'
  PROVE  PlacesHold'
<1>1. /\ work' = work /\ skill' = skill /\ held' = held /\ runs' = runs /\ lost' = lost
      /\ run'.worker = run.worker /\ run' \in Runs
  BY DEF SameRun, Unmoved
<1>2. Underway' /\ (OfScenario' <=> OfScenario) /\ (OfTask' <=> OfTask) /\ (ByCaller' <=> ByCaller)
  BY <1>1 DEF Underway, OfScenario, OfTask, ByCaller
<1>3. skill.at \in {"idle", "procedure", "rolling"}
  <2>1. skill.at \notin {"preconditions", "rollback", "validations", "ended"}
    <3>1. NoRun.worker = "none"
      BY DEF NoRun
    <3>. QED  BY <3>1 DEF PlacesHold, SkillPlace, Underway, OfScenario, OfTask
  <2>. QED  BY <2>1 DEF PlacesHold, TypesHold, SkillRuns
<1>4. work.id \in WorkIds
  BY ValidScenarioFacts, ValidTaskFacts
     DEF PlacesHold, RunPlace, ScenarioPlace, TaskPlace, Underway
<1>5. TypesHold'
  <2>1. acted' \in Seq(Actions)
    BY <1>4, TryAppends DEF PlacesHold, TypesHold
  <2>. QED  BY <1>1, <2>1 DEF PlacesHold, TypesHold
<1>6. RunPlace'
  BY <1>2 DEF RunPlace
<1>7. SkillPlace'
  BY <1>1, <1>2, <1>3 DEF PlacesHold, SkillPlace
<1>8. UndoingPlace'
  <2>1. skill.outcome = "none"
    BY <1>3 DEF PlacesHold, SkillPlace, NoSkill
  <2>2. CASE acted' = acted
    BY <1>1, <2>2 DEF PlacesHold, UndoingPlace
  <2>3. CASE \E ok \in BOOLEAN : Try(ok)
    <3>1. PICK ok \in BOOLEAN : Try(ok)
      BY <2>3
    <3>2. TypesHold /\ DOMAIN acted = 1..Len(acted) /\ Len(acted) \in Nat
      BY StateFacts DEF PlacesHold
    <3>3. \A i \in DOMAIN acted' : acted'[i].undoing =>
            \/ \E j \in DOMAIN acted : acted[j].undoing
            \/ skill.at = "rolling"
      <4> SUFFICES ASSUME NEW i \in DOMAIN acted', acted'[i].undoing
                   PROVE  \/ \E j \in DOMAIN acted : acted[j].undoing
                          \/ skill.at = "rolling"
        OBVIOUS
      <4>1. DOMAIN acted' = 1..Len(acted) + 1
        BY <1>4, <3>1, <3>2, TryAppends
      <4>2. CASE i \in DOMAIN acted
        <5>1. acted'[i] = acted[i]
          BY <1>4, <3>1, <3>2, <4>2, TryAppends
        <5>. QED  BY <4>2, <5>1
      <4>3. CASE i \notin DOMAIN acted
        <5>1. i = Len(acted) + 1
          BY <3>2, <4>1, <4>3
        <5>2. acted'[Len(acted) + 1]
                = [of |-> work.id, step |-> run.step, ok |-> ok, undoing |-> Undoing]
          BY <1>4, <3>1, <3>2, TryAppends
        <5>3. acted'[i].undoing = Undoing
          BY <5>1, <5>2
        <5>. QED  BY <5>3 DEF Undoing
      <4>. QED  BY <4>2, <4>3
    <3>4. skill.at = "rolling" => skill.procedure \in {"FAILED", "ESCALATED_TO_HUMAN"}
      BY DEF PlacesHold, SkillPlace
    <3>5. (\E j \in DOMAIN acted : acted[j].undoing) =>
            /\ skill.at \in {"rolling", "ended"}
            /\ skill.procedure \in {"FAILED", "ESCALATED_TO_HUMAN"}
      BY DEF PlacesHold, UndoingPlace
    <3>. QED  BY <1>1, <1>3, <2>1, <3>3, <3>4, <3>5 DEF UndoingPlace
  <2>. QED  BY <2>2, <2>3
<1>9. LossesAreOfRuns'
  BY <1>1, <1>2, <1>3 DEF PlacesHold, LossesAreOfRuns
<1>. QED  BY <1>5, <1>6, <1>7, <1>8, <1>9 DEF PlacesHold

\* The checkpoint stays with the step it is for.
LEMMA CheckpointStays ==
  ASSUME PlacesHold, SameRun, Unmoved, run'.checkpoint = run.checkpoint, run'.step = run.step
  PROVE  CheckpointPlace'
BY DEF PlacesHold, CheckpointPlace, SameRun, Unmoved, OfScenario

LEMMA ScenarioFacts ==
  ASSUME PlacesHold, OfScenario
  PROVE  /\ work \in Scenarios /\ ValidScenario(work) /\ work.id \in WorkIds /\ work.id # ""
         /\ Len(work.steps) \in Nat \ {0} /\ DOMAIN work.steps = 1..Len(work.steps)
         /\ run.step \in 1..Len(work.steps) + 1 /\ run.step \in Nat /\ run.tries \in Nat
         /\ TypesHold /\ Underway
<1>1. work \in Scenarios /\ ValidScenario(work) /\ run.step \in 1..Len(work.steps) + 1
  BY DEF PlacesHold, RunPlace, ScenarioPlace
<1>2. TypesHold
  BY DEF PlacesHold
<1>. QED  BY <1>1, <1>2, ValidScenarioFacts, StateFacts DEF Underway

LEMMA TaskFacts ==
  ASSUME PlacesHold, OfTask
  PROVE  /\ work \in ComputerTasks /\ ValidTask(work) /\ work.id \in WorkIds /\ work.id # ""
         /\ Len(work.steps) \in Nat \ {0} /\ DOMAIN work.steps = 1..Len(work.steps)
         /\ run.step \in 1..Len(work.steps) + 1 /\ run.step \in Nat
         /\ TypesHold /\ Underway
<1>1. work \in ComputerTasks /\ ValidTask(work) /\ run.step \in 1..Len(work.steps) + 1
  BY DEF PlacesHold, RunPlace, TaskPlace
<1>2. TypesHold
  BY DEF PlacesHold
<1>. QED  BY <1>1, <1>2, ValidTaskFacts, StateFacts DEF Underway

LEMMA ScenarioMovesKeepPlaces ==
  ASSUME PlacesHold, ScenarioMoves
  PROVE  PlacesHold'
<1>1. OfScenario
  BY DEF ScenarioMoves, Prepares, Completes, TriesAgain, GivesUp, Acting
<1>2. /\ work \in Scenarios /\ ValidScenario(work) /\ Len(work.steps) \in Nat \ {0}
      /\ run.step \in 1..Len(work.steps) + 1 /\ run.step \in Nat /\ Underway
  BY <1>1, ScenarioFacts
<1>3. ~OfTask /\ run.proofs = {} /\ (run.at # "close" => run.result = "none")
  BY <1>1, <1>2, WhoseRun DEF PlacesHold, RunPlace, ScenarioPlace
<1>4. Unmoved => OfScenario' /\ ~OfTask' /\ TaskPlace'
  BY <1>1, <1>3 DEF Unmoved, OfScenario, OfTask, TaskPlace
<1>5. CASE Prepares
  <2>1. /\ Unmoved /\ run'.at \in {"resolve", "call"} /\ run'.step = run.step
        /\ run'.checkpoint = run.checkpoint /\ run'.result = run.result /\ work' = work
        /\ SameRun /\ acted' = acted
    BY <1>5, PreparesFields DEF Prepares, SameRun
  <2>2. run.step <= Len(work.steps) /\ Step.kind \notin {"NAVIGATE", "WAIT_FOR"} /\ run.at # "close"
    BY <1>5 DEF Prepares, Acting
  <2>3. Step' = Step
    BY <2>1 DEF Step
  <2>4. ScenarioPlace'
    BY <1>2, <1>3, <2>1, <2>2, <2>3 DEF ScenarioPlace, Unmoved
  <2>. QED  BY <1>2, <1>3, <1>4, <2>1, <2>2, <2>4, CheckpointStays, RunGoesOn
<1>6. CASE Completes
  <2>1. /\ Unmoved /\ run'.at = "step" /\ run'.step = run.step + 1
        /\ run'.checkpoint.of = work.id /\ run'.checkpoint.step = run.step
        /\ run'.result = run.result /\ work' = work /\ held' = held /\ SameRun
        /\ \E ok \in BOOLEAN : Try(ok)
    BY <1>6, CompletesFields DEF Completes, SameRun
  <2>2. run.step <= Len(work.steps) /\ run.at # "close"
    BY <1>6 DEF Completes, Acting
  <2>3. run.step + 1 \in 1..Len(work.steps) + 1
    BY <1>2, <2>2
  <2>4. ScenarioPlace'
    BY <1>2, <1>3, <2>1, <2>3 DEF ScenarioPlace, Unmoved
  <2>5. CheckpointPlace'
    <3>1. held.of = work.id => held.step < run.step + 1
      <4>1. held.step \in Nat
        BY StateFacts DEF PlacesHold
      <4>2. held.of = work.id => held.step < run.step
        BY <1>1 DEF PlacesHold, CheckpointPlace
      <4>. QED  BY <1>2, <4>1, <4>2
    <3>. QED  BY <2>1, <3>1 DEF PlacesHold, CheckpointPlace
  <2>. QED  BY <1>2, <1>3, <1>4, <2>1, <2>2, <2>4, <2>5, RunGoesOn
<1>7. CASE TriesAgain
  <2>1. /\ Unmoved /\ run'.at = "step" /\ run'.step = run.step
        /\ run'.checkpoint = run.checkpoint /\ run'.result = run.result /\ work' = work /\ SameRun
        /\ acted' = acted \/ \E ok \in BOOLEAN : Try(ok)
    BY <1>7, TriesAgainFields DEF TriesAgain, SameRun
  <2>2. run.step <= Len(work.steps) /\ run.at # "close"
    BY <1>7 DEF TriesAgain, Acting
  <2>4. ScenarioPlace'
    BY <1>2, <1>3, <2>1, <2>2 DEF ScenarioPlace, Unmoved
  <2>. QED  BY <1>2, <1>3, <1>4, <2>1, <2>2, <2>4, CheckpointStays, RunGoesOn
<1>8. CASE GivesUp
  <2>1. /\ Unmoved /\ run'.at = "close" /\ run'.result = "FAILED" /\ run'.step = run.step
        /\ run'.checkpoint = run.checkpoint /\ work' = work /\ SameRun
        /\ acted' = acted \/ \E ok \in BOOLEAN : Try(ok)
    BY <1>8, GivesUpFields DEF GivesUp, SameRun
  <2>2. run.step <= Len(work.steps)
    BY <1>8 DEF GivesUp, Acting
  <2>3. ~(run.step > Len(work.steps))
    BY <1>2, <2>2
  <2>4. ScenarioPlace'
    BY <1>2, <1>3, <2>1, <2>3 DEF ScenarioPlace, Unmoved
  <2>. QED  BY <1>2, <1>4, <2>1, <2>4, CheckpointStays, RunGoesOn
<1>9. CASE OfScenario /\ ScenarioEnds
  <2>1. /\ Unmoved /\ run'.at = "close" /\ run'.result = "COMPLETED" /\ run'.step = run.step
        /\ run'.checkpoint = run.checkpoint /\ work' = work /\ SameRun /\ acted' = acted
        /\ run.step > Len(work.steps)
    BY <1>9, ScenarioEndsFields DEF SameRun
  <2>4. ScenarioPlace'
    BY <1>2, <1>3, <2>1 DEF ScenarioPlace, Unmoved
  <2>. QED  BY <1>2, <1>4, <2>1, <2>4, CheckpointStays, RunGoesOn
<1>. QED  BY <1>5, <1>6, <1>7, <1>8, <1>9 DEF ScenarioMoves

LEMMA TaskMovesKeepPlaces ==
  ASSUME PlacesHold, ComputerMoves
  PROVE  PlacesHold'
<1>1. OfTask
  BY DEF ComputerMoves, TaskPrepares, TaskStops, TaskActionFails
<1>2. /\ work \in ComputerTasks /\ ValidTask(work) /\ Len(work.steps) \in Nat \ {0}
      /\ run.step \in 1..Len(work.steps) + 1 /\ run.step \in Nat /\ Underway
  BY <1>1, TaskFacts
<1>3. /\ ~OfScenario /\ (run.at # "close" => run.result = "none")
      /\ run.at \in {"observe", "resolve", "act", "after", "close"}
      /\ run.at \in {"resolve", "act", "after"} => run.step <= Len(work.steps)
  BY <1>1, <1>2, WhoseRun DEF PlacesHold, RunPlace, TaskPlace
<1>4. Unmoved => OfTask' /\ ~OfScenario' /\ ScenarioPlace'
  BY <1>1, <1>3 DEF Unmoved, OfScenario, OfTask, ScenarioPlace
<1>5. SameRun /\ Unmoved => CheckpointPlace'
  BY <1>3 DEF PlacesHold, CheckpointPlace, SameRun, Unmoved, OfScenario
<1>6. CASE TaskPrepares
  <2>1. /\ Unmoved /\ run'.at \in {"resolve", "act"} /\ run'.step = run.step
        /\ run'.result = run.result /\ work' = work /\ SameRun /\ acted' = acted
    BY <1>6, TaskPreparesFields DEF TaskPrepares, SameRun
  <2>2. run.step <= Len(work.steps) /\ run.at # "close"
    BY <1>6 DEF TaskPrepares
  <2>3. TaskPlace'
    BY <1>2, <1>3, <2>1, <2>2 DEF TaskPlace
  <2>. QED  BY <1>2, <1>3, <1>4, <1>5, <2>1, <2>2, <2>3, RunGoesOn
<1>7. CASE TaskStops \/ TaskActionFails
  <2>1. /\ Unmoved /\ run'.at = "close" /\ run'.result \in {"FAILED", "ESCALATED_TO_HUMAN"}
        /\ run'.step = run.step
    BY <1>7, TaskStopsFields
  <2>2. /\ work' = work /\ SameRun
        /\ acted' = acted \/ \E ok \in BOOLEAN : Try(ok)
    BY <1>7 DEF TaskStops, TaskActionFails, SameRun
  <2>3. run.step <= Len(work.steps)
    BY <1>3, <1>7 DEF TaskStops, TaskActionFails
  <2>4. ~(run.step > Len(work.steps))
    BY <1>2, <2>3
  <2>5. TaskPlace'
    BY <1>2, <2>1, <2>2, <2>4 DEF TaskPlace
  <2>. QED  BY <1>2, <1>4, <1>5, <2>1, <2>2, <2>5, RunGoesOn
<1>8. CASE ActionSucceeds
  <2>1. /\ Unmoved /\ run'.at = "after" /\ run'.step = run.step /\ run.at = "act"
        /\ run'.result = run.result /\ work' = work /\ SameRun
        /\ \E ok \in BOOLEAN : Try(ok)
    BY <1>1, <1>8, TaskStepFields DEF ActionSucceeds, SameRun
  <2>2. TaskPlace'
    BY <1>2, <1>3, <2>1 DEF TaskPlace
  <2>. QED  BY <1>2, <1>3, <1>4, <1>5, <2>1, <2>2, RunGoesOn
<1>9. CASE ObserveAfter
  <2>1. /\ Unmoved /\ run'.at = "observe" /\ run'.step = run.step + 1 /\ run.at = "after"
        /\ run'.result = run.result /\ work' = work /\ SameRun /\ acted' = acted
    BY <1>1, <1>9, TaskStepFields DEF SameRun
  <2>2. run.step + 1 \in 1..Len(work.steps) + 1
    BY <1>2, <1>3, <2>1
  <2>3. TaskPlace'
    BY <1>2, <1>3, <2>1, <2>2 DEF TaskPlace
  <2>. QED  BY <1>2, <1>3, <1>4, <1>5, <2>1, <2>3, RunGoesOn
<1>10. CASE TaskEnds
  <2>1. /\ Unmoved /\ run'.at = "close" /\ run'.step = run.step /\ run'.result = "COMPLETED"
        /\ work' = work /\ SameRun /\ acted' = acted /\ run.step > Len(work.steps)
    BY <1>1, <1>10, TaskStepFields DEF SameRun
  <2>2. TaskPlace'
    BY <1>2, <1>3, <2>1 DEF TaskPlace
  <2>. QED  BY <1>2, <1>4, <1>5, <2>1, <2>2, RunGoesOn
<1>11. CASE ProofsAge
  <2>1. /\ Unmoved /\ run'.at = run.at /\ run'.step = run.step /\ run'.result = run.result
        /\ work' = work /\ SameRun /\ acted' = acted
    BY <1>1, <1>11, TaskStepFields DEF SameRun
  <2>2. TaskPlace'
    BY <1>1, <2>1 DEF PlacesHold, RunPlace, TaskPlace, OfTask, Unmoved
  <2>. QED  BY <1>2, <1>3, <1>4, <1>5, <2>1, <2>2, RunGoesOn
<1>. QED  BY <1>6, <1>7, <1>8, <1>9, <1>10, <1>11 DEF ComputerMoves

LEMMA NothingIsTyped ==
  /\ NoRun \in Runs /\ NoCheckpoint \in Checkpoints /\ NoSkill \in SkillRuns
  /\ << >> \in Seq(Actions) /\ << >> \in Seq(Entries) /\ Len(<< >>) = 0
<1>1. << >> \in Seq(Actions) /\ << >> \in Seq(Entries) /\ Len(<< >>) = 0
  OBVIOUS
<1>2. NoCheckpoint \in Checkpoints
  BY DEF NoCheckpoint, Checkpoints
<1>3. NoRun \in Runs
  BY <1>1, <1>2 DEF NoRun, Runs
<1>4. NoSkill \in SkillRuns
  BY DEF NoSkill, SkillRuns
<1>. QED  BY <1>1, <1>2, <1>3, <1>4

LEMMA NothingFields ==
  /\ NoRun.worker = "none" /\ NoRun.at = "idle" /\ NoRun.log = << >> /\ NoRun.proofs = {}
  /\ NoRun.result = "none" /\ NoRun.tries = 0
  /\ NoCheckpoint.of = "" /\ NoCheckpoint.step = 0
  /\ NoSkill.at = "idle" /\ NoSkill.outcome = "none" /\ NoSkill.procedure = "none"
BY DEF NoRun, NoCheckpoint, NoSkill

LEMMA StartIndexIs ==
  ASSUME NEW scenario, NEW resumeFrom \in Checkpoints
  PROVE  /\ StartIndex(scenario, resumeFrom) \in Nat
         /\ resumeFrom.of = scenario.id =>
              StartIndex(scenario, resumeFrom) = resumeFrom.step + 1
         /\ resumeFrom.of # scenario.id => StartIndex(scenario, resumeFrom) = 1
<1>1. resumeFrom.step \in Nat
  BY DEF Checkpoints
<1> DEFINE completed == resumeFrom.step
           of == resumeFrom.of
<1>2. StartIndex(scenario, resumeFrom) = IF of = scenario.id THEN completed + 1 ELSE 1
  BY DEF StartIndex
<1>3. completed \in Nat
  BY <1>1
<1> HIDE DEF completed, of
<1>4. /\ StartIndex(scenario, resumeFrom) \in Nat
      /\ of = scenario.id => StartIndex(scenario, resumeFrom) = completed + 1
      /\ of # scenario.id => StartIndex(scenario, resumeFrom) = 1
  BY <1>2, <1>3
<1>. QED  BY <1>4 DEF completed, of

\* A scenario starts with the step after the checkpoint, if that is one of its own.
LEMMA StartScenarioFields ==
  ASSUME NEW scenario \in Scenarios, ValidScenario(scenario), NEW resumeFrom \in Checkpoints,
         StartScenario(scenario, resumeFrom)
  PROVE  /\ work' = scenario /\ run' \in Runs /\ OfScenario' /\ ~OfTask' /\ Underway'
         /\ run'.at = "step" /\ run'.tries = 0 /\ run'.log = << >> /\ run'.proofs = {}
         /\ run'.result = "none"
         /\ run'.step = StartIndex(scenario, resumeFrom) /\ run'.step \in Nat
         /\ run'.checkpoint = IF resumeFrom # NoCheckpoint THEN resumeFrom
                              ELSE [of |-> scenario.id, step |-> 0]
<1> DEFINE start == StartIndex(scenario, resumeFrom)
           point == IF resumeFrom # NoCheckpoint THEN resumeFrom
                    ELSE [of |-> scenario.id, step |-> 0]
<1>1. start \in Nat
  BY StartIndexIs
<1>2. point \in Checkpoints
  BY ValidScenarioFacts DEF Checkpoints
<1>3. /\ work' = scenario
      /\ run' = [NoRun EXCEPT !.worker = "PLAYWRIGHT", !.at = "step", !.step = start,
                              !.checkpoint = point]
  BY DEF StartScenario
<1> HIDE DEF start, point
<1>4. /\ run' \in Runs /\ run'.worker = "PLAYWRIGHT" /\ run'.at = "step" /\ run'.step = start
      /\ run'.checkpoint = point
      /\ run'.tries = NoRun.tries /\ run'.log = NoRun.log /\ run'.proofs = NoRun.proofs
      /\ run'.result = NoRun.result
  <2> DEFINE none == NoRun
  <2>1. none \in Runs
    BY NothingIsTyped
  <2>2. run' = [none EXCEPT !.worker = "PLAYWRIGHT", !.at = "step", !.step = start,
                            !.checkpoint = point]
    BY <1>3
  <2> HIDE DEF none
  <2>3. /\ run' \in Runs /\ run'.worker = "PLAYWRIGHT" /\ run'.at = "step" /\ run'.step = start
        /\ run'.checkpoint = point
        /\ run'.tries = none.tries /\ run'.log = none.log /\ run'.proofs = none.proofs
        /\ run'.result = none.result
    BY <1>1, <1>2, <2>1, <2>2 DEF Runs
  <2>. QED  BY <2>3 DEF none
<1>. QED  BY <1>1, <1>3, <1>4, NothingFields DEF OfScenario, OfTask, Underway, start, point

LEMMA StartTaskFields ==
  ASSUME NEW task \in ComputerTasks, NEW proofs \in SUBSET ApprovalProofs, StartTask(task, proofs)
  PROVE  /\ work' = task /\ run' \in Runs /\ OfTask' /\ ~OfScenario' /\ Underway'
         /\ run'.at = "observe" /\ run'.step = 1 /\ run'.log = << >> /\ run'.proofs = proofs
         /\ run'.result = "none"
<1> DEFINE none == NoRun
<1>1. none \in Runs /\ none.log = << >> /\ none.result = "none"
  BY NothingIsTyped, NothingFields
<1>2. run' = [none EXCEPT !.worker = "COMPUTER_USE", !.at = "observe", !.step = 1, !.proofs = proofs]
  BY DEF StartTask
<1> HIDE DEF none
<1>3. /\ run' \in Runs /\ run'.worker = "COMPUTER_USE" /\ run'.at = "observe" /\ run'.step = 1
      /\ run'.log = << >> /\ run'.proofs = proofs /\ run'.result = "none"
  BY <1>1, <1>2 DEF Runs
<1>4. work' = task
  BY DEF StartTask
<1>. QED  BY <1>3, <1>4 DEF OfScenario, OfTask, Underway

\* What a run that starts has is in its place.
LEMMA ScenarioStartsInPlace ==
  ASSUME PlacesHold, NEW scenario \in Scenarios, ValidScenario(scenario),
         NEW resumeFrom \in Checkpoints, StartScenario(scenario, resumeFrom),
         \/ resumeFrom = NoCheckpoint
         \/ resumeFrom = held,
         held' = resumeFrom
  PROVE  /\ ScenarioPlace' /\ TaskPlace' /\ CheckpointPlace'
         /\ run'.at \notin {"return", "close"} /\ run'.result = "none" /\ Underway' /\ OfScenario'
         /\ work' \in Works
<1> DEFINE n == Len(scenario.steps)
<1>1. /\ work' = scenario /\ run' \in Runs /\ OfScenario' /\ ~OfTask' /\ Underway'
      /\ run'.at = "step" /\ run'.proofs = {} /\ run'.result = "none"
      /\ run'.step = StartIndex(scenario, resumeFrom) /\ run'.step \in Nat
      /\ run'.checkpoint = IF resumeFrom # NoCheckpoint THEN resumeFrom
                           ELSE [of |-> scenario.id, step |-> 0]
  BY StartScenarioFields
<1>2. n \in Nat \ {0} /\ scenario \in Works /\ scenario.id # ""
  BY ValidScenarioFacts
<1>3. resumeFrom.of = scenario.id => resumeFrom.step <= n
  <2> SUFFICES ASSUME resumeFrom.of = scenario.id
               PROVE  resumeFrom.step <= n
    OBVIOUS
  <2>1. resumeFrom # NoCheckpoint
    BY <1>2, NothingFields
  <2>2. PICK other \in Scenarios : held.of = other.id /\ held.step <= Len(other.steps)
    BY <2>1 DEF PlacesHold, CheckpointPlace
  <2>3. other = scenario
    BY <2>1, <2>2, SameId DEF Works
  <2>. QED  BY <2>1, <2>2, <2>3
<1>4. resumeFrom.step \in Nat
  BY DEF Checkpoints
<1>5. run'.step \in 1..n + 1
  <2> DEFINE first == run'.step
             completed == resumeFrom.step
  <2>1. \/ completed <= n /\ first = completed + 1
        \/ first = 1
    <3>1. CASE resumeFrom.of = scenario.id
      BY <1>1, <1>3, <3>1, StartIndexIs
    <3>2. CASE resumeFrom.of # scenario.id
      BY <1>1, <3>2, StartIndexIs
    <3>. QED  BY <3>1, <3>2
  <2>2. completed \in Nat /\ n \in Nat \ {0}
    BY <1>2, <1>4
  <2> HIDE DEF first, completed, n
  <2>3. first \in 1..n + 1
    BY <2>1, <2>2
  <2>. QED  BY <2>3 DEF first
<1>6. ScenarioPlace' /\ TaskPlace'
  BY <1>1, <1>5 DEF ScenarioPlace, TaskPlace
<1>7. resumeFrom # NoCheckpoint => resumeFrom.of # ""
  BY DEF PlacesHold, CheckpointPlace
<1>8. CheckpointPlace'
  <2>1. \/ held' = NoCheckpoint
        \/ \E other \in Scenarios :
             held'.of = other.id /\ held'.of # "" /\ held'.step <= Len(other.steps)
    BY DEF PlacesHold, CheckpointPlace
  <2>2. CASE resumeFrom = NoCheckpoint
    <3>1. run'.step = 1 /\ run'.checkpoint.of = scenario.id /\ run'.checkpoint.step = 0
      <4>1. resumeFrom.of # scenario.id
        BY <1>2, <2>2, NothingFields
      <4>2. run'.step = 1
        BY <1>1, <4>1, StartIndexIs
      <4>3. run'.checkpoint = [of |-> scenario.id, step |-> 0]
        BY <1>1, <2>2
      <4>. QED  BY <4>2, <4>3
    <3>2. held'.of # scenario.id
      BY <1>2, <2>2, NothingFields
    <3>3. run'.step = run'.checkpoint.step + 1
      BY <3>1
    <3>4. held'.of # work'.id /\ run'.checkpoint.of = work'.id
      BY <1>1, <3>1, <3>2
    <3>. QED  BY <2>1, <3>3, <3>4 DEF CheckpointPlace
  <2>3. CASE resumeFrom # NoCheckpoint /\ resumeFrom.of = scenario.id
    <3>1. run'.step = resumeFrom.step + 1 /\ run'.checkpoint = resumeFrom
      BY <1>1, <2>3, StartIndexIs
    <3>2. resumeFrom.step < run'.step
      BY <1>4, <3>1
    <3>. QED  BY <1>1, <2>1, <2>3, <3>1, <3>2 DEF CheckpointPlace
  <2>4. CASE resumeFrom # NoCheckpoint /\ resumeFrom.of # scenario.id
    <3>1. run'.step = 1 /\ run'.checkpoint = resumeFrom
      BY <1>1, <2>4, StartIndexIs
    <3>2. held'.of # work'.id /\ held'.of # "" /\ run'.checkpoint = held'
      BY <1>1, <1>7, <2>4, <3>1
    <3>3. run'.checkpoint.of # work'.id
      BY <3>2
    <3>4. IF run'.checkpoint.of = work'.id THEN run'.step = run'.checkpoint.step + 1
          ELSE run'.step = 1 /\ run'.checkpoint = held' /\ held'.of # ""
      BY <3>1, <3>2, <3>3
    <3>. QED  BY <2>1, <3>2, <3>4, Zenon DEF CheckpointPlace
  <2>. QED  BY <2>2, <2>3, <2>4
<1>. QED  BY <1>1, <1>2, <1>6, <1>8

LEMMA TaskStartsInPlace ==
  ASSUME NEW task \in ComputerTasks, ValidTask(task), NEW proofs \in SUBSET ApprovalProofs,
         StartTask(task, proofs), held' = NoCheckpoint
  PROVE  /\ ScenarioPlace' /\ TaskPlace' /\ CheckpointPlace'
         /\ run'.at \notin {"return", "close"} /\ run'.result = "none" /\ Underway' /\ OfTask'
         /\ work' \in Works
<1>1. /\ work' = task /\ run' \in Runs /\ OfTask' /\ ~OfScenario' /\ Underway'
      /\ run'.at = "observe" /\ run'.step = 1 /\ run'.result = "none"
  BY StartTaskFields
<1>2. Len(task.steps) \in Nat \ {0} /\ task \in Works
  BY ValidTaskFacts
<1>3. 1 \in 1..Len(task.steps) + 1
  BY <1>2
<1>. QED  BY <1>1, <1>2, <1>3 DEF ScenarioPlace, TaskPlace, CheckpointPlace

\* Nothing is under way.
LEMMA NoRunInPlace ==
  ASSUME run' = NoRun
  PROVE  RunPlace' /\ ~Underway' /\ ~OfScenario' /\ ~OfTask' /\ run' \in Runs
<1>1. run'.worker = "none" /\ run'.at = "idle"
  BY NothingFields
<1>2. ~Underway' /\ ~OfScenario' /\ ~OfTask'
  BY <1>1 DEF Underway, OfScenario, OfTask
<1>3. RunPlace'
  BY <1>1, <1>2 DEF RunPlace, ScenarioPlace, TaskPlace
<1>. QED  BY <1>2, <1>3, NothingIsTyped

LEMMA CallerKeeps ==
  ASSUME PlacesHold, ByCaller, skill' = skill, acted' = acted \/ acted' = << >>,
         run' \in Runs, work' \in Works \cup {NoWork}, held' \in Checkpoints,
         runs' \in 0..MaxRuns, lost' \in Nat,
         RunPlace', CheckpointPlace', LossesAreOfRuns'
  PROVE  PlacesHold'
<1>1. skill = NoSkill /\ skill.at = "idle"
  BY DEF PlacesHold, SkillPlace, ByCaller
<1>2. skill'.at = "idle" /\ skill'.outcome = "none" /\ skill'.procedure = "none" /\ skill' = NoSkill
  BY <1>1, NothingFields
<1>3. TypesHold'
  BY NothingIsTyped DEF PlacesHold, TypesHold
<1>4. SkillPlace'
  BY <1>2 DEF SkillPlace, ByCaller
<1>5. UndoingPlace'
  <2>1. ~\E i \in DOMAIN acted' : acted'[i].undoing
    <3>1. CASE acted' = acted
      BY <1>1, <3>1 DEF PlacesHold, UndoingPlace
    <3>2. CASE acted' = << >>
      BY <3>2
    <3>. QED  BY <3>1, <3>2
  <2>. QED  BY <1>2, <2>1 DEF UndoingPlace
<1>. QED  BY <1>3, <1>4, <1>5 DEF PlacesHold

LEMMA OneMoreRun ==
  ASSUME NEW l \in Nat, NEW m \in Nat, NEW r \in Nat, m <= l + 1, l <= 2 * r
  PROVE  m + 1 <= 2 * (r + 1)
OBVIOUS

LEMMA CallerMovesKeepPlaces ==
  ASSUME PlacesHold, CallerMoves
  PROVE  PlacesHold'
<1>1. /\ held \in Checkpoints /\ NoCheckpoint \in Checkpoints /\ MaxRuns \in Nat \ {0}
      /\ runs \in Nat /\ runs <= MaxRuns /\ lost \in Nat /\ TypesHold
      /\ work \in Works \cup {NoWork}
  BY StateFacts, NothingIsTyped DEF PlacesHold, TypesHold
<1>2. CASE CallerStarts
  <2>1. ByCaller /\ skill' = skill /\ run.at = "idle"
    BY <1>2 DEF CallerStarts
  <2>2. CASE \E scenario \in Scenarios :
               ValidScenario(scenario) /\ StartScenario(scenario, NoCheckpoint) /\ FirstRun
    <3>1. PICK scenario \in Scenarios :
                 ValidScenario(scenario) /\ StartScenario(scenario, NoCheckpoint) /\ FirstRun
      BY <2>2
    <3>2. held' = NoCheckpoint /\ acted' = << >> /\ runs' = 1 /\ lost' = 0
      BY <3>1 DEF FirstRun, History
    <3>3. /\ ScenarioPlace' /\ TaskPlace' /\ CheckpointPlace' /\ run'.at \notin {"return", "close"}
          /\ run'.result = "none" /\ Underway' /\ OfScenario' /\ work' \in Works
      BY <1>1, <3>1, <3>2, ScenarioStartsInPlace
    <3>4. run' \in Runs /\ ~OfTask'
      BY <1>1, <3>1, StartScenarioFields
    <3>5. RunPlace'
      BY <3>3 DEF RunPlace
    <3>6. ByCaller'
      BY <2>1 DEF ByCaller
    <3>7. LossesAreOfRuns'
      BY <3>2, <3>3, <3>4, <3>6 DEF LossesAreOfRuns
    <3>8. runs' \in 0..MaxRuns /\ lost' \in Nat
      BY <1>1, <3>2
    <3>. QED  BY <1>1, <2>1, <3>2, <3>3, <3>4, <3>5, <3>7, <3>8, CallerKeeps
  <2>3. CASE \E task \in ComputerTasks, proof \in ApprovalProofs : \E proofs \in {{proof}, {}} :
               /\ ValidTask(task) /\ StartTask(task, proofs)
               /\ held' = NoCheckpoint /\ acted' = << >> /\ History(0, 0)
    <3>1. PICK task \in ComputerTasks, proofs \in SUBSET ApprovalProofs :
                 /\ ValidTask(task) /\ StartTask(task, proofs)
                 /\ held' = NoCheckpoint /\ acted' = << >> /\ History(0, 0)
      BY <2>3
    <3>2. held' = NoCheckpoint /\ acted' = << >> /\ runs' = 0 /\ lost' = 0
      BY <3>1 DEF History
    <3>3. /\ ScenarioPlace' /\ TaskPlace' /\ CheckpointPlace' /\ run'.at \notin {"return", "close"}
          /\ run'.result = "none" /\ Underway' /\ OfTask' /\ work' \in Works
      BY <3>1, <3>2, TaskStartsInPlace
    <3>4. run' \in Runs /\ ~OfScenario'
      BY <3>1, StartTaskFields
    <3>5. RunPlace'
      BY <3>3 DEF RunPlace
    <3>6. ByCaller'
      BY <2>1 DEF ByCaller
    <3>7. LossesAreOfRuns'
      BY <3>2, <3>3, <3>4, <3>6 DEF LossesAreOfRuns
    <3>8. runs' \in 0..MaxRuns /\ lost' \in Nat
      BY <1>1, <3>2
    <3>. QED  BY <1>1, <2>1, <3>2, <3>3, <3>4, <3>5, <3>7, <3>8, CallerKeeps
  <2>. QED  BY <1>2, <2>2, <2>3 DEF CallerStarts
<1>3. CASE CallerResumes
  <2>1. PICK scenario \in Scenarios : ResumeScenario(scenario)
    BY <1>3 DEF CallerResumes
  <2>2. /\ ByCaller /\ run.at = "idle" /\ runs > 0 /\ runs < MaxRuns /\ ValidScenario(scenario)
        /\ StartScenario(scenario, held) /\ skill' = skill /\ held' = held /\ acted' = acted
        /\ runs' = runs + 1 /\ lost' \in {lost, lost + 1}
    BY <2>1 DEF ResumeScenario, History
  <2>3. /\ ScenarioPlace' /\ TaskPlace' /\ CheckpointPlace' /\ run'.at \notin {"return", "close"}
        /\ run'.result = "none" /\ Underway' /\ OfScenario' /\ work' \in Works
    BY <1>1, <2>2, ScenarioStartsInPlace
  <2>4. run' \in Runs /\ ~OfTask'
    BY <1>1, <2>2, StartScenarioFields
  <2>5. RunPlace'
    BY <2>3 DEF RunPlace
  <2>6. ByCaller'
    BY <2>2 DEF ByCaller
  <2>7. lost <= 2 * runs
    <3>1. ~Underway
      BY <2>2, WhoseRun
    <3>2. lost <= 2 * runs \/ (runs = 0 /\ lost <= 1)
      BY <2>2, <3>1 DEF PlacesHold, LossesAreOfRuns
    <3>. QED  BY <1>1, <2>2, <3>2
  <2>8. runs' >= 1 /\ lost' + 1 <= 2 * runs' /\ runs' \in 0..MaxRuns /\ lost' \in Nat
    <3>1. lost' \in Nat /\ lost' <= lost + 1
      <4>1. CASE lost' = lost  BY <1>1, <4>1
      <4>2. CASE lost' = lost + 1  BY <1>1, <4>2
      <4>. QED  BY <2>2, <4>1, <4>2
    <3>2. runs' = runs + 1 /\ runs < MaxRuns
      BY <2>2
    <3>3. runs' \in 0..MaxRuns /\ runs' >= 1
      BY <1>1, <3>2
    <3>4. lost' + 1 <= 2 * (runs + 1)
      BY <1>1, <2>7, <3>1, OneMoreRun
    <3>. QED  BY <3>1, <3>2, <3>3, <3>4
  <2>9. LossesAreOfRuns'
    BY <2>3, <2>4, <2>6, <2>8 DEF LossesAreOfRuns
  <2>. QED  BY <1>1, <2>2, <2>3, <2>4, <2>5, <2>8, <2>9, CallerKeeps
<1>4. CASE IsRefused
  <2>1. /\ ByCaller /\ skill' = skill /\ work' = NoWork /\ held' = NoCheckpoint /\ acted' = << >>
        /\ runs' \in {0, 1} /\ lost' = 0
        /\ run' = [NoRun EXCEPT !.at = "return", !.result = "REJECTED"]
    BY <1>4 DEF IsRefused, History, Rejected
  <2> DEFINE none == NoRun
  <2>2. none \in Runs /\ none.worker = "none"
    BY NothingIsTyped, NothingFields
  <2>3. run' = [none EXCEPT !.at = "return", !.result = "REJECTED"]
    BY <2>1
  <2> HIDE DEF none
  <2>4. run' \in Runs /\ run'.at = "return" /\ run'.worker = "none"
    BY <2>2, <2>3 DEF Runs
  <2>5. ~Underway' /\ ~OfScenario' /\ ~OfTask'
    BY <2>4 DEF Underway, OfScenario, OfTask
  <2>6. ByCaller'
    BY <2>1 DEF ByCaller
  <2>7. RunPlace'
    BY <2>1, <2>5, <2>6 DEF RunPlace, ScenarioPlace, TaskPlace
  <2>8. CheckpointPlace'
    BY <2>1, <2>5 DEF CheckpointPlace
  <2>9. LossesAreOfRuns'
    BY <2>1, <2>5, <2>6 DEF LossesAreOfRuns
  <2>10. runs' \in 0..MaxRuns /\ lost' \in Nat
    BY <1>1, <2>1
  <2>. QED  BY <1>1, <2>1, <2>4, <2>7, <2>8, <2>9, <2>10, CallerKeeps
<1>5. CASE CallerIsTold
  <2>1. /\ ByCaller /\ Underway /\ run' = NoRun /\ work' = work /\ skill' = skill
        /\ acted' = acted /\ runs' = runs /\ lost' = lost
        /\ held' = IF OfScenario THEN run.checkpoint ELSE held
    BY <1>5 DEF CallerIsTold
  <2>2. RunPlace' /\ ~Underway' /\ ~OfScenario' /\ ~OfTask' /\ run' \in Runs
    BY <2>1, NoRunInPlace
  <2>3. ByCaller'
    BY <2>1 DEF ByCaller
  <2>4. held' \in Checkpoints
    BY <1>1, <2>1, StateFacts
  <2>5. \/ held' = NoCheckpoint
        \/ \E scenario \in Scenarios :
             held'.of = scenario.id /\ held'.of # "" /\ held'.step <= Len(scenario.steps)
    <3>1. CASE OfScenario /\ run.checkpoint.of = work.id
      <4>1. run.step = run.checkpoint.step + 1
        BY <3>1 DEF PlacesHold, CheckpointPlace
      <4>2. /\ work \in Scenarios /\ work.id # "" /\ Len(work.steps) \in Nat
            /\ run.step \in 1..Len(work.steps) + 1
        BY <3>1, ScenarioFacts
      <4>3. run.checkpoint.step \in Nat
        BY <1>1, StateFacts
      <4>4. run.checkpoint.step <= Len(work.steps)
        <5> DEFINE completed == run.checkpoint.step
                   at == run.step
                   n == Len(work.steps)
        <5>1. at = completed + 1 /\ at \in 1..n + 1 /\ n \in Nat /\ completed \in Nat
          BY <4>1, <4>2, <4>3
        <5> HIDE DEF completed, at, n
        <5>2. completed <= n
          BY <5>1
        <5>. QED  BY <5>2 DEF completed, n
      <4>. QED  BY <2>1, <3>1, <4>2, <4>4
    <3>2. CASE ~(OfScenario /\ run.checkpoint.of = work.id)
      <4>1. held' = held
        BY <2>1, <3>2 DEF PlacesHold, CheckpointPlace
      <4>. QED  BY <4>1 DEF PlacesHold, CheckpointPlace
    <3>. QED  BY <3>1, <3>2
  <2>6. CheckpointPlace'
    BY <2>2, <2>5 DEF CheckpointPlace
  <2>7. lost <= 2 * runs
    <3>1. \/ lost + 1 <= 2 * runs
          \/ runs = 0 /\ lost = 0
      BY <2>1 DEF PlacesHold, LossesAreOfRuns, Underway
    <3>. QED  BY <1>1, <3>1
  <2>8. LossesAreOfRuns'
    BY <2>1, <2>2, <2>3, <2>7 DEF LossesAreOfRuns
  <2>9. runs' \in 0..MaxRuns /\ lost' \in Nat
    BY <1>1, <2>1
  <2>. QED  BY <1>1, <2>1, <2>2, <2>4, <2>6, <2>8, <2>9, CallerKeeps
<1>6. CASE CallerIsNotTold
  <2>1. /\ ByCaller /\ Underway /\ run' = NoRun /\ work' = work /\ skill' = skill
        /\ acted' = acted /\ runs' = runs /\ lost' = lost + 1 /\ held' = held
    BY <1>6 DEF CallerIsNotTold, History
  <2>2. RunPlace' /\ ~Underway' /\ ~OfScenario' /\ ~OfTask' /\ run' \in Runs
    BY <2>1, NoRunInPlace
  <2>3. ByCaller'
    BY <2>1 DEF ByCaller
  <2>4. CheckpointPlace'
    BY <2>1, <2>2 DEF PlacesHold, CheckpointPlace
  <2>5. lost + 1 <= 2 * runs \/ (runs = 0 /\ lost + 1 <= 1)
    <3>1. \/ lost + 1 <= 2 * runs
          \/ runs = 0 /\ lost = 0
      BY <2>1 DEF PlacesHold, LossesAreOfRuns, Underway
    <3>. QED  BY <1>1, <3>1
  <2>6. LossesAreOfRuns'
    BY <2>1, <2>2, <2>3, <2>5 DEF LossesAreOfRuns
  <2>7. runs' \in 0..MaxRuns /\ lost' \in Nat
    BY <1>1, <2>1
  <2>. QED  BY <1>1, <2>1, <2>2, <2>4, <2>6, <2>7, CallerKeeps
<1>. QED  BY <1>2, <1>3, <1>4, <1>5, <1>6 DEF CallerMoves

\* The skill runner.
LEMMA SkillMovesKeepPlaces ==
  ASSUME PlacesHold, SkillMoves
  PROVE  PlacesHold'
<1>1. /\ TypesHold /\ skill \in SkillRuns /\ run \in Runs /\ work \in Works \cup {NoWork}
      /\ acted \in Seq(Actions) /\ held \in Checkpoints /\ MaxRuns \in Nat \ {0}
      /\ 0 \in 0..MaxRuns /\ lost \in Nat /\ lost + 1 \in Nat
  <2>1. lost \in Nat /\ MaxRuns \in Nat \ {0}
    BY StateFacts DEF PlacesHold
  <2>2. 0 \in 0..MaxRuns /\ lost + 1 \in Nat
    BY <2>1
  <2>. QED  BY <2>1, <2>2 DEF PlacesHold, TypesHold
<1>2. /\ skill.item \in Nat /\ skill.item + 1 \in Nat /\ 1 \in Nat
      /\ skill.of \in Skills \cup {<< >>}
  <2>1. skill.item \in Nat /\ skill.of \in Skills \cup {<< >>}
    BY <1>1 DEF SkillRuns
  <2>. QED  BY <2>1
<1>3. CASE SkillStarts
  <2>1. PICK procedure :
          /\ \/ /\ skill.at = "preconditions" /\ procedure = skill.of.procedure
                /\ skill' = [skill EXCEPT !.at = "procedure"]
             \/ /\ skill.at = "rollback" /\ procedure = skill.of.rollback[1]
                /\ skill' = [skill EXCEPT !.at = "rolling"]
          /\ StartsProcedure(procedure)
    BY <1>3 DEF SkillStarts
  <2>2. /\ held' = held /\ acted' = acted /\ runs' = runs /\ lost' = lost
        /\ RunsOneOfThem(procedure) /\ ValidProcedure(procedure) /\ StartProcedure(procedure)
    BY <2>1 DEF StartsProcedure
  <2>3. ~ByCaller /\ held = NoCheckpoint /\ runs = 0
    BY <2>1 DEF PlacesHold, SkillPlace, ByCaller
  <2>4. /\ skill' \in SkillRuns /\ skill'.of = skill.of /\ skill'.outcome = skill.outcome
        /\ skill'.procedure = skill.procedure
        /\ skill'.at = IF skill.at = "preconditions" THEN "procedure" ELSE "rolling"
    BY <1>1, <2>1 DEF SkillRuns
  <2>5. /\ ScenarioPlace' /\ TaskPlace' /\ CheckpointPlace' /\ run'.at \notin {"return", "close"}
        /\ run'.result = "none" /\ Underway' /\ work' \in Works /\ run' \in Runs
        /\ run'.worker = procedure.kind /\ work' = procedure.work
    <3>1. CASE procedure.kind = "PLAYWRIGHT"
      <4>1. procedure.work \in Scenarios /\ ValidScenario(procedure.work)
        BY <2>2, <3>1 DEF RunsOneOfThem, ValidProcedure
      <4>2. StartScenario(procedure.work, NoCheckpoint)
        BY <2>2, <3>1 DEF StartProcedure
      <4>. QED  BY <2>2, <2>3, <3>1, <4>1, <4>2, ScenarioStartsInPlace, StartScenarioFields,
                   NothingIsTyped DEF OfScenario
    <3>2. CASE procedure.kind = "COMPUTER_USE"
      <4>1. procedure.work \in ComputerTasks /\ ValidTask(procedure.work)
        BY <2>2, <3>2 DEF RunsOneOfThem, ValidProcedure
      <4>2. StartTask(procedure.work, {}) /\ {} \in SUBSET ApprovalProofs
        BY <2>2, <3>2 DEF StartProcedure
      <4>. QED  BY <2>2, <2>3, <3>2, <4>1, <4>2, TaskStartsInPlace, StartTaskFields
                DEF OfTask
    <3>. QED  BY <2>2, <3>1, <3>2 DEF ValidProcedure
  <2>6. skill.of \in Skills /\ ValidSkill(skill.of) /\ skill.outcome = "none"
    BY <2>1 DEF PlacesHold, SkillPlace
  <2>7. TypesHold'
    BY <1>1, <2>2, <2>4, <2>5 DEF TypesHold
  <2>8. RunPlace'
    BY <2>5 DEF RunPlace
  <2>9. SkillPlace'
    <3>1. CASE skill.at = "preconditions"
      <4>1. skill.procedure = "none" /\ procedure = skill.of.procedure
        BY <2>1, <3>1 DEF PlacesHold, SkillPlace
      <4>. QED  BY <2>2, <2>3, <2>4, <2>5, <2>6, <3>1, <4>1 DEF SkillPlace, ByCaller
    <3>2. CASE skill.at = "rollback"
      <4>1. skill.procedure \in {"FAILED", "ESCALATED_TO_HUMAN"} /\ skill.of.rollback # << >>
        BY <3>2 DEF PlacesHold, SkillPlace
      <4>. QED  BY <2>2, <2>3, <2>4, <2>5, <2>6, <3>2, <4>1 DEF SkillPlace, ByCaller
    <3>. QED  BY <2>1, <3>1, <3>2
  <2>10. UndoingPlace'
    <3>1. ~\E i \in DOMAIN acted : acted[i].undoing
      BY <2>1 DEF PlacesHold, UndoingPlace
    <3>. QED  BY <2>1, <2>2, <2>4, <2>6, <3>1 DEF UndoingPlace
  <2>11. LossesAreOfRuns'
    <3>1. lost <= 1 /\ (lost = 1 => skill.at = "ended")
      BY <2>3 DEF PlacesHold, LossesAreOfRuns
    <3>2. skill.at # "ended" /\ skill'.at # "idle"
      BY <2>1, <2>4
    <3>. QED  BY <2>2, <3>1, <3>2 DEF LossesAreOfRuns, ByCaller
  <2>. QED  BY <2>5, <2>7, <2>8, <2>9, <2>10, <2>11 DEF PlacesHold
<1>4. CASE SkillIsTold
  <2>1. /\ ~ByCaller /\ Underway /\ run.at = "close" /\ run' = NoRun /\ work' = work
        /\ held' = held /\ acted' = acted /\ runs' = runs /\ lost' = lost /\ ToSkill(run.result)
    BY <1>4 DEF SkillIsTold
  <2>2. RunPlace' /\ ~Underway' /\ ~OfScenario' /\ ~OfTask' /\ run' \in Runs
    BY <2>1, NoRunInPlace
  <2>3. held = NoCheckpoint /\ runs = 0
    BY <2>1 DEF PlacesHold, SkillPlace
  <2>4. skill.at \in {"procedure", "rolling"}
    <3>1. run # NoRun
      BY <2>1, NothingFields
    <3>. QED  BY <1>1, <2>1, <3>1 DEF PlacesHold, SkillPlace, ByCaller, SkillRuns
  <2>5. run.result \in {"COMPLETED", "FAILED", "ESCALATED_TO_HUMAN"}
    BY <2>1 DEF PlacesHold, RunPlace, ScenarioPlace, TaskPlace, Underway
  <2>6. /\ skill.of \in Skills /\ ValidSkill(skill.of) /\ skill.outcome = "none"
        /\ skill.at = "rolling" => skill.procedure \in {"FAILED", "ESCALATED_TO_HUMAN"}
    BY <2>4 DEF PlacesHold, SkillPlace
  <2>7. CheckpointPlace'
    BY <2>1, <2>2, <2>3 DEF CheckpointPlace
  <2>8. lost <= 1 /\ lost # 1
    BY <2>1, <2>4 DEF PlacesHold, LossesAreOfRuns
  <2>9. CASE skill.at = "rolling"
    <3>1. skill' = [skill EXCEPT !.at = "ended", !.outcome = "PROCEDURE_FAILED", !.rollback = run.result]
      BY <2>1, <2>9 DEF ToSkill
    <3>2. /\ skill' \in SkillRuns /\ skill'.at = "ended" /\ skill'.outcome = "PROCEDURE_FAILED"
          /\ skill'.procedure = skill.procedure
      BY <1>1, <2>5, <3>1 DEF SkillRuns
    <3>3. TypesHold'
      BY <1>1, <2>1, <2>2, <2>3, <3>2 DEF TypesHold
    <3>4. SkillPlace'
      BY <2>1, <2>3, <3>2 DEF SkillPlace, ByCaller
    <3>5. UndoingPlace'
      BY <2>1, <2>6, <2>9, <3>2 DEF UndoingPlace
    <3>6. LossesAreOfRuns'
      BY <2>1, <2>8, <3>2 DEF LossesAreOfRuns, ByCaller
    <3>. QED  BY <2>2, <2>7, <3>3, <3>4, <3>5, <3>6 DEF PlacesHold
  <2>10. CASE skill.at = "procedure"
    <3> DEFINE after == AfterProcedure(run.result)
               out == IF after = "ended" THEN "PROCEDURE_FAILED" ELSE skill.outcome
    <3>1. skill' = [skill EXCEPT !.at = after, !.procedure = run.result, !.item = 1, !.outcome = out]
      BY <1>1, <2>1, <2>10 DEF ToSkill, SkillRuns
    <3>2. /\ after \in {"validations", "rollback", "ended"}
          /\ after = "validations" <=> run.result = "COMPLETED"
          /\ after = "rollback" => skill.of.rollback # << >>
      BY DEF AfterProcedure
    <3>3. /\ out \in {"none", "PROCEDURE_FAILED"}
          /\ after = "ended" => out = "PROCEDURE_FAILED"
          /\ after # "ended" => out = "none"
      BY <2>6
    <3> HIDE DEF after, out
    <3>4. /\ skill' \in SkillRuns /\ skill'.at = after /\ skill'.procedure = run.result
          /\ skill'.outcome = out /\ skill'.of = skill.of
      BY <1>1, <1>2, <2>5, <3>1, <3>2, <3>3 DEF SkillRuns
    <3>5. TypesHold'
      BY <1>1, <2>1, <2>2, <2>3, <3>4 DEF TypesHold
    <3>6. SkillPlace'
      BY <2>1, <2>3, <2>5, <2>6, <3>2, <3>3, <3>4 DEF SkillPlace, ByCaller
    <3>7. UndoingPlace'
      <4>1. ~\E i \in DOMAIN acted : acted[i].undoing
        BY <2>10 DEF PlacesHold, UndoingPlace
      <4>. QED  BY <2>1, <3>2, <3>3, <3>4, <4>1 DEF UndoingPlace
    <3>8. LossesAreOfRuns'
      BY <2>1, <2>8, <3>2, <3>4 DEF LossesAreOfRuns, ByCaller
    <3>. QED  BY <2>2, <2>7, <3>5, <3>6, <3>7, <3>8 DEF PlacesHold
  <2>. QED  BY <2>4, <2>9, <2>10
<1>5. CASE SkillIsNotTold
  <2>1. /\ ~ByCaller /\ Underway /\ run' = NoRun /\ work' = work
        /\ held' = held /\ acted' = acted /\ runs' = runs /\ lost' = lost + 1
        /\ IF skill.at = "rolling" THEN EndSkill("PROCEDURE_FAILED")
           ELSE EndSkill("UNEXPECTED_FAILURE")
    BY <1>5 DEF SkillIsNotTold, History
  <2>2. RunPlace' /\ ~Underway' /\ ~OfScenario' /\ ~OfTask' /\ run' \in Runs
    BY <2>1, NoRunInPlace
  <2>3. held = NoCheckpoint /\ runs = 0
    BY <2>1 DEF PlacesHold, SkillPlace
  <2>4. skill.at \in {"procedure", "rolling"}
    <3>1. run # NoRun
      BY <2>1, NothingFields DEF Underway, OfScenario, OfTask
    <3>. QED  BY <1>1, <2>1, <3>1 DEF PlacesHold, SkillPlace, ByCaller, SkillRuns
  <2>5. /\ skill' \in SkillRuns /\ skill'.at = "ended" /\ skill'.procedure = skill.procedure
        /\ skill'.outcome = IF skill.at = "rolling" THEN "PROCEDURE_FAILED" ELSE "UNEXPECTED_FAILURE"
    BY <1>1, <2>1 DEF EndSkill, SkillRuns
  <2>6. TypesHold'
    BY <1>1, <2>1, <2>2, <2>3, <2>5 DEF TypesHold
  <2>7. SkillPlace'
    BY <2>1, <2>3, <2>5 DEF SkillPlace, ByCaller
  <2>8. UndoingPlace'
    BY <2>1, <2>4, <2>5 DEF PlacesHold, UndoingPlace
  <2>9. CheckpointPlace'
    BY <2>1, <2>2, <2>3 DEF CheckpointPlace
  <2>10. LossesAreOfRuns'
    <3>1. lost <= 1 /\ lost # 1
      BY <2>1, <2>4 DEF PlacesHold, LossesAreOfRuns
    <3>2. lost + 1 <= 1
      BY <1>1, <3>1
    <3>. QED  BY <2>1, <2>5, <3>2 DEF LossesAreOfRuns, ByCaller
  <2>. QED  BY <2>2, <2>6, <2>7, <2>8, <2>9, <2>10 DEF PlacesHold
<1>6. CASE SkillChecks
  <2>1. /\ work' = work /\ run' = run /\ held' = held /\ acted' = acted /\ runs' = runs
        /\ lost' = lost /\ skill.at \in {"preconditions", "rollback", "validations"}
    BY <1>6 DEF SkillChecks
  <2>2. run = NoRun /\ held = NoCheckpoint /\ runs = 0 /\ ~ByCaller
    BY <2>1 DEF PlacesHold, SkillPlace, ByCaller
  <2>3. RunPlace' /\ ~Underway' /\ ~OfScenario' /\ ~OfTask' /\ run' \in Runs
    BY <2>1, <2>2, NoRunInPlace
  <2>4. \/ skill.at \in {"preconditions", "validations"} /\ skill' = [skill EXCEPT !.item = @ + 1]
        \/ \E outcome \in {"PRECONDITION_FAILED", "UNEXPECTED_FAILURE", "PROCEDURE_FAILED",
                           "VALIDATION_FAILED", "COMPLETED"} :
             /\ skill' = [skill EXCEPT !.at = "ended", !.outcome = outcome]
             /\ outcome = "PRECONDITION_FAILED" => skill.at = "preconditions"
             /\ skill.at = "rollback" => outcome = "PROCEDURE_FAILED"
    BY <1>6 DEF SkillChecks, EndSkill
  <2>5. /\ skill' \in SkillRuns /\ skill'.at \in {skill.at, "ended"}
        /\ skill'.of = skill.of /\ skill'.procedure = skill.procedure
        /\ skill'.at # "ended" => skill'.outcome = skill.outcome
        /\ skill'.at = "ended" => skill'.outcome # "none"
        /\ skill'.outcome \notin {"REJECTED", "STALE"}
        /\ skill'.outcome = "PRECONDITION_FAILED" => skill.at = "preconditions"
        /\ skill.at = "rollback" => skill'.outcome \in {"none", "PROCEDURE_FAILED"}
    <3>1. skill.outcome = "none"
      BY <2>1 DEF PlacesHold, SkillPlace
    <3>2. CASE skill.at \in {"preconditions", "validations"} /\ skill' = [skill EXCEPT !.item = @ + 1]
      BY <1>1, <1>2, <3>1, <3>2 DEF SkillRuns
    <3>3. CASE \E outcome \in {"PRECONDITION_FAILED", "UNEXPECTED_FAILURE", "PROCEDURE_FAILED",
                               "VALIDATION_FAILED", "COMPLETED"} :
                 /\ skill' = [skill EXCEPT !.at = "ended", !.outcome = outcome]
                 /\ outcome = "PRECONDITION_FAILED" => skill.at = "preconditions"
                 /\ skill.at = "rollback" => outcome = "PROCEDURE_FAILED"
      BY <1>1, <3>1, <3>3 DEF SkillRuns
    <3>. QED  BY <2>4, <3>2, <3>3
  <2>6. TypesHold'
    BY <1>1, <2>1, <2>5 DEF PlacesHold, TypesHold
  <2>7. SkillPlace'
    BY <2>1, <2>2, <2>5 DEF PlacesHold, SkillPlace, ByCaller
  <2>8. UndoingPlace'
    <3>1. ~\E i \in DOMAIN acted : acted[i].undoing
      BY <2>1 DEF PlacesHold, UndoingPlace
    <3>2. skill.at = "preconditions" => acted = << >>
      BY DEF PlacesHold, UndoingPlace
    <3>. QED  BY <2>1, <2>5, <3>1, <3>2 DEF UndoingPlace
  <2>9. CheckpointPlace'
    BY <2>1, <2>2, <2>3 DEF CheckpointPlace
  <2>10. LossesAreOfRuns'
    <3>1. lost <= 1 /\ lost # 1
      BY <2>1, <2>2 DEF PlacesHold, LossesAreOfRuns
    <3>2. skill'.at # "idle"
      BY <2>1, <2>5
    <3>. QED  BY <2>1, <3>1, <3>2 DEF LossesAreOfRuns, ByCaller
  <2>. QED  BY <2>3, <2>6, <2>7, <2>8, <2>9, <2>10 DEF PlacesHold
<1>7. CASE SkillIsAsked
  <2>1. PICK manifest \in Skills, tool \in ToolManifests,
             workers \in {{"COMPUTER_USE"}, {"PLAYWRIGHT", "COMPUTER_USE"}} :
               RunSkill(manifest, tool, workers)
    BY <1>7 DEF SkillIsAsked
  <2>2. /\ ByCaller /\ run.at = "idle" /\ run' = run /\ work' = NoWork /\ held' = NoCheckpoint
        /\ acted' = << >> /\ runs' = 0 /\ lost' = 0
        /\ skill' = IF ~ValidSkill(manifest) THEN [NoSkill EXCEPT !.at = "ended", !.outcome = "REJECTED"]
                    ELSE IF IsSkillStale(manifest, tool)
                    THEN [NoSkill EXCEPT !.at = "ended", !.outcome = "STALE"]
                    ELSE [NoSkill EXCEPT !.at = "preconditions", !.of = manifest, !.item = 1,
                                         !.workers = workers]
    BY <2>1 DEF RunSkill, History
  <2>3. run' = NoRun
    BY <2>2, WhoseRun
  <2>4. RunPlace' /\ ~Underway' /\ ~OfScenario' /\ ~OfTask' /\ run' \in Runs
    BY <2>3, NoRunInPlace
  <2> DEFINE none == NoSkill
  <2>5. none \in SkillRuns /\ none.outcome = "none" /\ none.procedure = "none"
    BY NothingIsTyped, NothingFields
  <2>6. \/ \E outcome \in {"REJECTED", "STALE"} :
             skill' = [none EXCEPT !.at = "ended", !.outcome = outcome]
        \/ /\ ValidSkill(manifest)
           /\ skill' = [none EXCEPT !.at = "preconditions", !.of = manifest, !.item = 1,
                                    !.workers = workers]
    BY <2>2
  <2> HIDE DEF none
  <2>7. /\ skill' \in SkillRuns /\ skill'.procedure = "none"
        /\ \/ skill'.at = "ended" /\ skill'.outcome # "none"
           \/ /\ ValidSkill(manifest) /\ skill'.at = "preconditions" /\ skill'.of = manifest
              /\ skill'.outcome = "none"
    <3>1. CASE \E outcome \in {"REJECTED", "STALE"} :
                 skill' = [none EXCEPT !.at = "ended", !.outcome = outcome]
      BY <2>5, <3>1 DEF SkillRuns
    <3>2. CASE /\ ValidSkill(manifest)
               /\ skill' = [none EXCEPT !.at = "preconditions", !.of = manifest, !.item = 1,
                                        !.workers = workers]
      <4>1. workers \in SUBSET {"PLAYWRIGHT", "COMPUTER_USE"}
        OBVIOUS
      <4>. QED  BY <1>2, <2>5, <3>2, <4>1 DEF SkillRuns
    <3>. QED  BY <2>6, <3>1, <3>2
  <2>8. TypesHold'
    BY <1>1, <2>2, <2>4, <2>7, NothingIsTyped DEF TypesHold
  <2>9. SkillPlace'
    BY <2>2, <2>3, <2>7 DEF SkillPlace, ByCaller
  <2>10. UndoingPlace'
    <3>1. ~\E i \in DOMAIN acted' : acted'[i].undoing
      BY <2>2
    <3>. QED  BY <2>2, <3>1 DEF UndoingPlace
  <2>11. CheckpointPlace'
    BY <2>2, <2>4 DEF CheckpointPlace
  <2>12. LossesAreOfRuns'
    BY <2>2, <2>4, <2>7 DEF LossesAreOfRuns, ByCaller
  <2>. QED  BY <2>4, <2>8, <2>9, <2>10, <2>11, <2>12 DEF PlacesHold
<1>8. CASE Forgets
  <2>1. /\ run' = NoRun /\ skill' = NoSkill /\ work' = NoWork /\ held' = NoCheckpoint
        /\ acted' = << >> /\ runs' = 0 /\ lost' = 0
    BY <1>8 DEF Forgets, History
  <2>2. RunPlace' /\ ~Underway' /\ ~OfScenario' /\ ~OfTask' /\ run' \in Runs
    BY <2>1, NoRunInPlace
  <2>3. skill'.at = "idle" /\ skill'.outcome = "none" /\ skill'.procedure = "none"
    BY <2>1, NothingFields
  <2>4. TypesHold'
    BY <1>1, <2>1, <2>2, NothingIsTyped DEF TypesHold
  <2>5. SkillPlace'
    BY <2>1, <2>3 DEF SkillPlace, ByCaller
  <2>6. UndoingPlace'
    <3>1. ~\E i \in DOMAIN acted' : acted'[i].undoing
      BY <2>1
    <3>. QED  BY <2>1, <2>3, <3>1 DEF UndoingPlace
  <2>7. CheckpointPlace'
    BY <2>1, <2>2 DEF CheckpointPlace
  <2>8. LossesAreOfRuns'
    BY <2>1, <2>2, <2>3 DEF LossesAreOfRuns, ByCaller
  <2>. QED  BY <2>2, <2>4, <2>5, <2>6, <2>7, <2>8 DEF PlacesHold
<1>. QED  BY <1>3, <1>4, <1>5, <1>6, <1>7, <1>8 DEF SkillMoves

\* Where a run is, what it resumes from and for whom it is stays true.
LEMMA MovesKeepPlaces == PlacesHold /\ BrowserMoves => PlacesHold'
BY ScenarioMovesKeepPlaces, TaskMovesKeepPlaces, CallerMovesKeepPlaces, SkillMovesKeepPlaces DEF BrowserMoves

-----------------------------------------------------------------------------
(* What is done is allowed.                                                 *)

AllowedStep(given, step) ==
  /\ step.kind = "NAVIGATE" => step.host \in given.allowedDomains
  /\ step.kind = "TYPE" /\ step.input.kind = "LITERAL" => ~LooksLikeRawSecret(step.input.value)

\* A step that acts does so on a step of the work under way, which allows it.
ActsAllowed(ok) ==
  /\ Try(ok) /\ SameRun /\ Underway
  /\ run.step \in DOMAIN work.steps /\ AllowedStep(work, Step)

LEMMA ScenarioActsAllowed ==
  ASSUME PlacesHold, Acting, SameRun, ~Forbidden, NEW ok \in BOOLEAN, Try(ok)
  PROVE  ActsAllowed(ok)
<1>1. OfScenario /\ run.step <= Len(work.steps)
  BY DEF Acting
<1>2. /\ work \in Scenarios /\ ValidScenario(work) /\ Len(work.steps) \in Nat
      /\ DOMAIN work.steps = 1..Len(work.steps) /\ run.step \in 1..Len(work.steps) + 1 /\ Underway
  BY <1>1, ScenarioFacts
<1>3. run.step \in DOMAIN work.steps
  BY <1>1, <1>2
<1>4. ValidStep(Step)
  BY <1>2, <1>3, ValidScenarioFacts DEF Step
<1>5. AllowedStep(work, Step)
  BY <1>4 DEF ValidStep, ValidInput, AllowedStep, Forbidden
<1>. QED  BY <1>2, <1>3, <1>5 DEF ActsAllowed

LEMMA TaskActsAllowed ==
  ASSUME PlacesHold, OfTask, run.at = "act", SameRun, NEW ok \in BOOLEAN, Try(ok)
  PROVE  ActsAllowed(ok)
<1>1. run.step <= Len(work.steps)
  BY DEF PlacesHold, RunPlace, TaskPlace
<1>2. /\ work \in ComputerTasks /\ ValidTask(work) /\ Len(work.steps) \in Nat
      /\ DOMAIN work.steps = 1..Len(work.steps) /\ run.step \in 1..Len(work.steps) + 1 /\ Underway
  BY TaskFacts
<1>3. run.step \in DOMAIN work.steps
  BY <1>1, <1>2
<1>4. ValidTaskStep(Step)
  BY <1>2, <1>3, ValidTaskFacts DEF Step
<1>5. AllowedStep(work, Step)
  BY <1>4 DEF ValidTaskStep, ValidInput, AllowedStep, ComputerUseActionKinds
<1>. QED  BY <1>2, <1>3, <1>5 DEF ActsAllowed

\* Whoever moves leaves what was done, forgets it or adds to it what is allowed.
LEMMA WhatMovesDo ==
  ASSUME PlacesHold, BrowserMoves
  PROVE  \/ acted' = acted \/ acted' = << >>
         \/ \E ok \in BOOLEAN : ActsAllowed(ok)
<1>1. CASE ScenarioMoves
  <2>1. Prepares \/ (OfScenario /\ ScenarioEnds) => acted' = acted
    BY DEF Prepares, ScenarioEnds
  <2>2. Completes => ActsAllowed(TRUE)
    BY ScenarioActsAllowed DEF Completes
  <2>3. TriesAgain => acted' = acted \/ ActsAllowed(FALSE)
    BY ScenarioActsAllowed DEF TriesAgain
  <2>4. GivesUp => acted' = acted \/ ActsAllowed(FALSE)
    BY ScenarioActsAllowed DEF GivesUp
  <2>. QED  BY <1>1, <2>1, <2>2, <2>3, <2>4 DEF ScenarioMoves
<1>2. CASE ComputerMoves
  <2>1. TaskPrepares \/ TaskStops \/ ObserveAfter \/ TaskEnds \/ ProofsAge => acted' = acted
    BY DEF TaskPrepares, TaskStops, ObserveAfter, TaskEnds, ProofsAge
  <2>2. TaskActionFails => ActsAllowed(FALSE)
    BY TaskActsAllowed DEF TaskActionFails
  <2>3. OfTask /\ ActionSucceeds => ActsAllowed(TRUE)
    BY TaskActsAllowed DEF ActionSucceeds, SameRun
  <2>. QED  BY <1>2, <2>1, <2>2, <2>3 DEF ComputerMoves
<1>3. CASE CallerMoves
  BY <1>3 DEF CallerMoves, CallerStarts, CallerResumes, IsRefused, CallerIsTold, CallerIsNotTold,
              FirstRun, ResumeScenario
<1>4. CASE SkillMoves
  BY <1>4 DEF SkillMoves, SkillStarts, StartsProcedure, SkillIsTold, SkillIsNotTold, SkillChecks,
              SkillIsAsked, Forgets, RunSkill
<1>. QED  BY <1>1, <1>2, <1>3, <1>4 DEF BrowserMoves

LEMMA ActingFacts ==
  ASSUME PlacesHold, NEW ok \in BOOLEAN, ActsAllowed(ok)
  PROVE  work \in Works /\ work.id \in WorkIds /\ Try(ok) /\ skill' = skill /\ TypesHold
<1>1. CASE OfScenario
  BY <1>1, ScenarioFacts DEF ActsAllowed, Works, SameRun
<1>2. CASE OfTask
  BY <1>2, TaskFacts DEF ActsAllowed, Works, SameRun
<1>. QED  BY <1>1, <1>2 DEF ActsAllowed, Underway

LEMMA ActionsStayAllowed ==
  ASSUME PlacesHold, AllowedActions, BrowserMoves
  PROVE  AllowedActions'
<1>1. CASE acted' = acted
  BY <1>1 DEF AllowedActions
<1>2. CASE acted' = << >>
  BY <1>2 DEF AllowedActions
<1>3. CASE \E ok \in BOOLEAN : ActsAllowed(ok)
  <2>1. PICK ok \in BOOLEAN : ActsAllowed(ok)
    BY <1>3
  <2>2. work \in Works /\ work.id \in WorkIds /\ Try(ok) /\ TypesHold
    BY <2>1, ActingFacts
  <2>3. /\ DOMAIN acted' = 1..Len(acted) + 1
        /\ \A i \in DOMAIN acted : acted'[i] = acted[i]
        /\ acted'[Len(acted) + 1]
             = [of |-> work.id, step |-> run.step, ok |-> ok, undoing |-> Undoing]
    BY <2>2, TryAppends
  <2>4. DOMAIN acted = 1..Len(acted) /\ Len(acted) \in Nat
    BY <2>2, StateFacts
  <2> SUFFICES ASSUME NEW i \in DOMAIN acted'
               PROVE  \E given \in Works :
                        /\ acted'[i].of = given.id /\ acted'[i].step \in DOMAIN given.steps
                        /\ AllowedStep(given, given.steps[acted'[i].step])
    BY DEF AllowedActions, AllowedStep
  <2>5. CASE i \in DOMAIN acted
    <3>1. \E given \in Works :
            /\ acted[i].of = given.id /\ acted[i].step \in DOMAIN given.steps
            /\ AllowedStep(given, given.steps[acted[i].step])
      BY <2>5 DEF AllowedActions, AllowedStep
    <3>. QED  BY <2>3, <2>5, <3>1
  <2>6. CASE i \notin DOMAIN acted
    <3>1. i = Len(acted) + 1
      BY <2>3, <2>4, <2>6
    <3>2. acted'[i].of = work.id /\ acted'[i].step = run.step
      BY <2>3, <3>1
    <3>3. run.step \in DOMAIN work.steps /\ AllowedStep(work, work.steps[run.step])
      BY <2>1 DEF ActsAllowed, Step
    <3>. QED  BY <2>2, <3>2, <3>3
  <2>. QED  BY <2>5, <2>6
<1>. QED  BY <1>1, <1>2, <1>3, WhatMovesDo

-----------------------------------------------------------------------------
(* How often a caller's steps were done.                                    *)

\* What is counted while a run goes on.
LEMMA RunCounts ==
  ASSUME PlacesHold, Underway, SameRun
  PROVE  /\ acted' = acted => \A id, s :
              Tried(id, s)' = Tried(id, s) /\ Succeeded(id, s)' = Succeeded(id, s)
         /\ \A ok \in BOOLEAN : Try(ok) => \A id, s :
              /\ ~(id = work.id /\ s = run.step) =>
                   Tried(id, s)' = Tried(id, s) /\ Succeeded(id, s)' = Succeeded(id, s)
              /\ id = work.id /\ s = run.step =>
                   /\ Tried(id, s)' = Tried(id, s) + 1
                   /\ Succeeded(id, s)' = IF ok THEN Succeeded(id, s) + 1 ELSE Succeeded(id, s)
<1>1. TypesHold /\ work.id \in WorkIds /\ skill' = skill
  BY ScenarioFacts, TaskFacts DEF Underway, SameRun
<1>2. Undoing' = Undoing
  BY <1>1 DEF Undoing
<1>3. acted' = acted => \A id, s :
        Tried(id, s)' = Tried(id, s) /\ Succeeded(id, s)' = Succeeded(id, s)
  BY <1>2, CountsStay
<1>. QED  BY <1>1, <1>3, TryCounts

\* The scenarios that are not under way are not acted on.
LEMMA OthersStayAtRest ==
  ASSUME PlacesHold, Underway, SameRun, acted' = acted \/ \E ok \in BOOLEAN : Try(ok),
         NEW scenario \in Scenarios, scenario # work, NEW s, CountsAtRest(scenario, s)
  PROVE  CountsAtRest(scenario, s)'
<1>1. scenario.id # work.id
  <2>1. work \in Works /\ scenario \in Works
    BY ScenarioFacts, TaskFacts DEF Underway, Works
  <2>. QED  BY <2>1, SameId
<1>2. /\ Tried(scenario.id, s)' = Tried(scenario.id, s)
      /\ Succeeded(scenario.id, s)' = Succeeded(scenario.id, s)
  BY <1>1, RunCounts
<1>3. held' = held /\ lost' = lost /\ runs' = runs
  BY DEF SameRun
<1>. QED  BY <1>2, <1>3 DEF CountsAtRest

LEMMA StepIsAccounted ==
  ASSUME NEW succeeded \in Nat, NEW l \in Nat, NEW k \in Nat, NEW s \in Nat,
         Accounted(succeeded, l, k, s)
  PROVE  /\ s = k => Accounted(succeeded + 1, l, k + 1, s)
         /\ s # k => Accounted(succeeded, l, k + 1, s)
BY DEF Accounted

LEMMA StepIsTriedOnce ==
  ASSUME NEW tried \in Nat, NEW r \in Nat, NEW k \in Nat, NEW s \in Nat,
         OncePerRun(tried, r, k, s)
  PROVE  /\ s = k => OncePerRun(tried + 1, r, k + 1, s) /\ tried + 1 <= r
         /\ s # k => OncePerRun(tried, r, k + 1, s)
BY DEF OncePerRun

LEMMA ScenarioMovesKeepCounts ==
  ASSUME PlacesHold, CountsOfCaller, ScenarioMoves
  PROVE  CountsOfCaller'
<1>1. OfScenario /\ SameRun /\ run.at \in {"step", "resolve", "call"}
  BY ScenarioEndsFields
     DEF ScenarioMoves, Prepares, Completes, TriesAgain, GivesUp, Acting
<1>2. /\ work \in Scenarios /\ Len(work.steps) \in Nat /\ DOMAIN work.steps = 1..Len(work.steps)
      /\ run.step \in Nat /\ TypesHold /\ Underway
  BY <1>1, ScenarioFacts
<1>3. /\ work' = work /\ runs' = runs /\ lost' = lost /\ (ByCaller' <=> ByCaller)
  BY <1>1 DEF SameRun, ByCaller
<1>4. runs \in Nat /\ lost \in Nat
  BY <1>2, StateFacts
<1>5. acted' = acted \/ \E ok \in BOOLEAN : Try(ok)
  BY ScenarioEndsFields DEF ScenarioMoves, Prepares, Completes, TriesAgain, GivesUp
<1>6. OfScenario'
  <2>1. Unmoved
    BY <1>1, PreparesFields, CompletesFields, TriesAgainFields, GivesUpFields, ScenarioEndsFields
       DEF ScenarioMoves
  <2>. QED  BY <1>1, <2>1 DEF Unmoved, OfScenario
<1> SUFFICES ASSUME ByCaller, NEW scenario \in Scenarios, NEW s \in DOMAIN scenario.steps
             PROVE  IF OfScenario' /\ scenario = work' THEN CountsUnderway(scenario, s)'
                    ELSE CountsAtRest(scenario, s)'
  BY <1>3 DEF CountsOfCaller
<1>7. CASE scenario # work
  <2>1. CountsAtRest(scenario, s)
    BY <1>7 DEF CountsOfCaller
  <2>. QED  BY <1>1, <1>2, <1>3, <1>5, <1>7, <2>1, OthersStayAtRest
<1>8. CASE scenario = work
  <2> DEFINE S == Succeeded(work.id, s)
             T == Tried(work.id, s)
             k == run.step
             clicks == work.steps[s].kind \in {"CLICK", "TYPE"}
  <2>1. s \in Nat /\ S \in Nat /\ T \in Nat /\ k \in Nat
    <3>1. s \in Nat
      BY <1>2, <1>8
    <3>2. S \in Nat /\ T \in Nat
      BY <1>2, CountFacts
    <3>. QED  BY <1>2, <3>1, <3>2
  <2>2. Accounted(S, lost, k, s) /\ (clicks => OncePerRun(T, runs, k, s))
    BY <1>1, <1>8 DEF CountsOfCaller, CountsUnderway
  <2>3. SUFFICES
          /\ Accounted(S', lost, run'.step, s)
          /\ clicks => IF run'.at = "close" THEN T' <= runs ELSE OncePerRun(T', runs, run'.step, s)
    BY <1>3, <1>6, <1>8 DEF CountsUnderway
  <2>4. acted' = acted => S' = S /\ T' = T
    BY <1>1, <1>2, <1>3, RunCounts
  <2>5. \A ok \in BOOLEAN : Try(ok) =>
          /\ s # k => S' = S /\ T' = T
          /\ s = k => T' = T + 1 /\ S' = IF ok THEN S + 1 ELSE S
    BY <1>1, <1>2, <1>3, RunCounts
  <2>6. s = k => (clicks <=> Step.kind \in {"CLICK", "TYPE"})
    BY DEF Step
  <2> HIDE DEF S, T, k, clicks
  <2>7. clicks => T <= runs /\ (s = k => T + 1 <= runs)
    BY <1>4, <2>1, <2>2 DEF OncePerRun
  <2>8. CASE Prepares
    <3>1. run'.step = k /\ run'.at # "close" /\ acted' = acted
      BY <2>8, PreparesFields DEF Prepares, k
    <3>. QED  BY <2>2, <2>4, <3>1
  <2>9. CASE Completes
    <3>1. run'.step = k + 1 /\ run'.at # "close" /\ Try(TRUE)
      BY <2>9, CompletesFields DEF Completes, k
    <3>2. CASE s = k
      <4>1. S' = S + 1 /\ T' = T + 1
        BY <2>5, <3>1, <3>2
      <4>2. Accounted(S + 1, lost, k + 1, s) /\ (clicks => OncePerRun(T + 1, runs, k + 1, s))
        BY <1>4, <2>1, <2>2, <3>2, StepIsAccounted, StepIsTriedOnce
      <4>. QED  BY <3>1, <4>1, <4>2
    <3>3. CASE s # k
      <4>1. S' = S /\ T' = T
        BY <2>5, <3>1, <3>3
      <4>2. Accounted(S, lost, k + 1, s) /\ (clicks => OncePerRun(T, runs, k + 1, s))
        BY <1>4, <2>1, <2>2, <3>3, StepIsAccounted, StepIsTriedOnce
      <4>. QED  BY <3>1, <4>1, <4>2
    <3>. QED  BY <3>2, <3>3
  <2>10. CASE TriesAgain
    <3>1. run'.step = k /\ run'.at # "close"
      BY <2>10, TriesAgainFields DEF k
    <3>2. CASE acted' = acted
      BY <2>2, <2>4, <3>1, <3>2
    <3>3. CASE Try(FALSE) /\ Step.kind \notin {"CLICK", "TYPE"}
      <4>1. S' = S /\ (s # k => T' = T) /\ (s = k => ~clicks)
        BY <2>5, <2>6, <3>3
      <4>. QED  BY <2>2, <3>1, <4>1
    <3>. QED  BY <2>10, <3>2, <3>3 DEF TriesAgain
  <2>11. CASE GivesUp
    <3>1. run'.step = k /\ run'.at = "close"
      BY <2>11, GivesUpFields DEF k
    <3>2. CASE acted' = acted
      BY <2>2, <2>4, <2>7, <3>1, <3>2
    <3>3. CASE Try(FALSE)
      <4>1. S' = S /\ (s # k => T' = T) /\ (s = k => T' = T + 1)
        BY <2>5, <3>3
      <4>. QED  BY <2>2, <2>7, <3>1, <4>1
    <3>. QED  BY <2>11, <3>2, <3>3 DEF GivesUp
  <2>12. CASE OfScenario /\ ScenarioEnds
    <3>1. run'.step = k /\ run'.at = "close" /\ acted' = acted
      BY <2>12, ScenarioEndsFields DEF k
    <3>. QED  BY <2>2, <2>4, <2>7, <3>1
  <2>. QED  BY <2>8, <2>9, <2>10, <2>11, <2>12 DEF ScenarioMoves
<1>. QED  BY <1>7, <1>8

LEMMA TaskMovesKeepCounts ==
  ASSUME PlacesHold, CountsOfCaller, ComputerMoves
  PROVE  CountsOfCaller'
<1>1. OfTask /\ SameRun
  BY TaskStepFields DEF ComputerMoves, TaskPrepares, TaskStops, TaskActionFails
<1>2. acted' = acted \/ \E ok \in BOOLEAN : Try(ok)
  BY <1>1, TaskStepFields DEF ComputerMoves, TaskPrepares, TaskStops, TaskActionFails, ActionSucceeds
<1>3. work \in ComputerTasks /\ Underway /\ ~OfScenario
  BY <1>1, TaskFacts, WhoseRun
<1>4. \A scenario \in Scenarios : scenario # work
  BY <1>3, BrowserAssumption DEF BrowserAssumption
<1>5. (ByCaller' <=> ByCaller) /\ work' = work
  BY <1>1 DEF SameRun, ByCaller
<1> SUFFICES ASSUME ByCaller, NEW scenario \in Scenarios, NEW s \in DOMAIN scenario.steps
             PROVE  CountsAtRest(scenario, s)'
  BY <1>4, <1>5 DEF CountsOfCaller
<1>6. CountsAtRest(scenario, s)
  BY <1>3 DEF CountsOfCaller
<1>. QED  BY <1>1, <1>2, <1>3, <1>4, <1>6, OthersStayAtRest

\* Nothing is counted when what was done is forgotten.
LEMMA NothingLeft ==
  ASSUME acted' = << >>
  PROVE  \A id, s : Tried(id, s)' = 0 /\ Succeeded(id, s)' = 0
<1> SUFFICES ASSUME NEW id, NEW s
             PROVE  Tried(id, s)' = 0 /\ Succeeded(id, s)' = 0
  OBVIOUS
<1>1. ActionsOn(id, s)' = {}
  BY DEF ActionsOn
<1>2. {i \in ActionsOn(id, s)' : acted'[i].ok} = {}
  BY <1>1
<1>. QED  BY <1>1, <1>2, FS_EmptySet DEF Tried, Succeeded

LEMMA StepFacts ==
  ASSUME NEW scenario \in Scenarios, NEW s \in DOMAIN scenario.steps
  PROVE  s \in Nat \ {0} /\ scenario \in Works
<1>1. scenario \in Works
  BY DEF Works
<1>. QED  BY <1>1, WorkFacts

LEMMA NoneIsLess == \A n \in Nat : 0 <= n /\ 0 <= n + 1
OBVIOUS

LEMMA OneMore == \A n \in Nat : n + 1 \in Nat /\ n <= n + 1 /\ n <= n
OBVIOUS

LEMMA NothingCounts ==
  ASSUME acted' = << >>, held' = NoCheckpoint, runs' \in Nat, lost' \in Nat,
         NEW scenario \in Scenarios, NEW s \in DOMAIN scenario.steps
  PROVE  CountsAtRest(scenario, s)'
<1>1. s \in Nat \ {0}
  BY StepFacts
<1>2. Tried(scenario.id, s)' = 0 /\ Succeeded(scenario.id, s)' = 0
  BY NothingLeft
<1>3. held'.step = 0
  BY NothingFields
<1>4. ~(s <= held'.step)
  BY <1>1, <1>3
<1>5. 0 <= lost' /\ 0 <= lost' + 1 /\ 0 <= runs'
  BY NoneIsLess
<1>. QED  BY <1>2, <1>4, <1>5 DEF CountsAtRest

\* What is counted stays for a caller while no worker acts.
LEMMA CallerCounts ==
  ASSUME skill' = skill, acted' = acted
  PROVE  \A id, s : Tried(id, s)' = Tried(id, s) /\ Succeeded(id, s)' = Succeeded(id, s)
BY CountsStay DEF Undoing

LEMMA CallerStartKeepsCounts ==
  ASSUME PlacesHold, CallerStarts \/ IsRefused
  PROVE  CountsOfCaller'
<1> SUFFICES ASSUME NEW scenario \in Scenarios, NEW s \in DOMAIN scenario.steps
             PROVE  IF OfScenario' /\ scenario = work' THEN CountsUnderway(scenario, s)'
                    ELSE CountsAtRest(scenario, s)'
  BY DEF CountsOfCaller
<1>1. s \in Nat \ {0}
  BY StepFacts
<1>2. acted' = << >> /\ held' = NoCheckpoint /\ lost' = 0 /\ runs' \in {0, 1}
  BY DEF CallerStarts, IsRefused, FirstRun, History
<1>3. CountsAtRest(scenario, s)'
  BY <1>2, NothingCounts
<1>4. ASSUME OfScenario', scenario = work'
      PROVE  CountsUnderway(scenario, s)'
  <2>1. CASE IsRefused
    <3>1. run' = [NoRun EXCEPT !.at = "return", !.result = "REJECTED"]
      BY <2>1 DEF IsRefused, Rejected
    <3>2. run'.worker = "none"
      BY <3>1 DEF NoRun
    <3>. QED  BY <1>4, <3>2 DEF OfScenario
  <2>2. CASE \E task \in ComputerTasks, proof \in ApprovalProofs : \E proofs \in {{proof}, {}} :
               ValidTask(task) /\ StartTask(task, proofs)
    BY <1>4, <2>2, StartTaskFields
  <2>3. CASE \E other \in Scenarios :
               ValidScenario(other) /\ StartScenario(other, NoCheckpoint) /\ FirstRun
    <3>1. PICK other \in Scenarios :
            ValidScenario(other) /\ StartScenario(other, NoCheckpoint) /\ FirstRun
      BY <2>3
    <3>2. /\ run'.at = "step" /\ run'.step = StartIndex(other, NoCheckpoint) /\ work' = other
          /\ other.id # ""
      BY <3>1, StartScenarioFields, ValidScenarioFacts, NothingIsTyped
    <3>3. run'.step = 1
      BY <3>2, StartIndexIs, NothingFields, NothingIsTyped
    <3>4. runs' = 1 /\ lost' = 0
      BY <3>1 DEF FirstRun, History
    <3>5. Tried(scenario.id, s)' = 0 /\ Succeeded(scenario.id, s)' = 0
      BY <1>2, NothingLeft
    <3>6. Accounted(0, 0, 1, s) /\ OncePerRun(0, 1, 1, s)
      BY <1>1 DEF Accounted, OncePerRun
    <3>. QED  BY <3>2, <3>3, <3>4, <3>5, <3>6 DEF CountsUnderway
  <2>. QED  BY <2>1, <2>2, <2>3 DEF CallerStarts
<1>. QED  BY <1>3, <1>4

LEMMA MoreIsEnough ==
  ASSUME NEW a \in Nat, NEW b \in Nat, NEW l \in Nat, NEW m \in Nat, NEW r \in Nat, l <= m
  PROVE  /\ a <= l + 1 => a <= m + 1
         /\ a <= l => a <= m
         /\ b <= r => b <= r + 1
OBVIOUS

LEMMA CallerResumesCounts ==
  ASSUME PlacesHold, CountsOfCaller, CallerResumes
  PROVE  CountsOfCaller'
<1>1. PICK scenario \in Scenarios : ResumeScenario(scenario)
  BY DEF CallerResumes
<1>2. /\ ByCaller /\ run.at = "idle" /\ ValidScenario(scenario) /\ StartScenario(scenario, held)
      /\ runs' = runs + 1 /\ lost' = IF held.of \in {"", scenario.id} THEN lost ELSE lost + 1
      /\ skill' = skill /\ held' = held /\ acted' = acted
  BY <1>1 DEF ResumeScenario, History
<1>3. TypesHold /\ held \in Checkpoints /\ runs \in Nat /\ lost \in Nat /\ held.step \in Nat
  BY StateFacts DEF PlacesHold, TypesHold
<1>4. ~OfScenario
  BY <1>2 DEF PlacesHold, RunPlace, ScenarioPlace
<1>5. /\ work' = scenario /\ run'.at = "step" /\ run'.step = StartIndex(scenario, held)
      /\ run'.step \in Nat /\ scenario.id # ""
  BY <1>2, <1>3, StartScenarioFields, ValidScenarioFacts
<1> SUFFICES ASSUME NEW other \in Scenarios, NEW s \in DOMAIN other.steps
             PROVE  IF OfScenario' /\ other = work' THEN CountsUnderway(other, s)'
                    ELSE CountsAtRest(other, s)'
  BY DEF CountsOfCaller
<1>6. CountsAtRest(other, s)
  BY <1>2, <1>4 DEF CountsOfCaller
<1> DEFINE S == Succeeded(other.id, s)
           T == Tried(other.id, s)
           h == held.step
           clicks == other.steps[s].kind \in {"CLICK", "TYPE"}
<1>7. S' = S /\ T' = T
  BY <1>2, CallerCounts
<1>8. S \in Nat /\ T \in Nat /\ s \in Nat \ {0} /\ h \in Nat
  BY <1>3, CountFacts, StepFacts
<1>9. /\ held.of = other.id /\ s <= h => S >= 1
      /\ S <= lost + 1
      /\ ~(held.of = other.id /\ s <= h) /\ held.of \in {"", other.id} => S <= lost
      /\ clicks => T <= runs
  BY <1>6 DEF CountsAtRest
<1>10. lost' \in Nat /\ lost <= lost' /\ (held.of \notin {"", scenario.id} => lost' = lost + 1)
       /\ (held.of \in {"", scenario.id} => lost' = lost)
  <2>1. CASE held.of \in {"", scenario.id}
    BY <1>2, <1>3, <2>1, OneMore
  <2>2. CASE held.of \notin {"", scenario.id}
    <3>1. lost' = lost + 1
      BY <1>2, <2>2
    <3>. QED  BY <1>3, <2>2, <3>1, OneMore
  <2>. QED  BY <2>1, <2>2
<1> HIDE DEF S, T, h, clicks
<1>11. CountsAtRest(other, s)'
  <2>1. S <= lost' + 1 /\ (S <= lost => S <= lost') /\ (T <= runs => T <= runs + 1)
    <3>1. S <= lost + 1 /\ lost' \in Nat /\ lost <= lost'
      BY <1>9, <1>10
    <3>. QED  BY <1>3, <1>8, <3>1, MoreIsEnough
  <2>. QED  BY <1>2, <1>7, <1>9, <2>1 DEF CountsAtRest, S, T, h, clicks
<1>12. ASSUME other = scenario PROVE CountsUnderway(other, s)'
  <2>1. T <= runs => OncePerRun(T, runs + 1, run'.step, s)
    BY <1>3, <1>8 DEF OncePerRun
  <2>2. Accounted(S, lost', run'.step, s)
    <3>1. CASE held.of = other.id
      <4>1. run'.step = h + 1 /\ lost' = lost
        BY <1>3, <1>5, <1>10, <1>12, <3>1, StartIndexIs DEF h
      <4>2. (s <= h => S >= 1) /\ S <= lost + 1 /\ (~(s <= h) => S <= lost)
        BY <1>9, <3>1
      <4>3. Accounted(S, lost, h + 1, s)
        BY <1>3, <1>8, <4>2 DEF Accounted
      <4>. QED  BY <4>1, <4>3
    <3>2. CASE held.of # other.id
      <4>1. run'.step = 1
        BY <1>3, <1>5, <1>12, <3>2, StartIndexIs
      <4>2. S <= lost'
        BY <1>9, <1>10, <1>12, <3>2
      <4>3. Accounted(S, lost', 1, s)
        BY <1>8, <4>2 DEF Accounted
      <4>. QED  BY <4>1, <4>3
    <3>. QED  BY <3>1, <3>2
  <2>. QED  BY <1>2, <1>5, <1>7, <1>9, <2>1, <2>2 DEF CountsUnderway, S, T, clicks
<1>. QED  BY <1>5, <1>11, <1>12

\* A run that ends leaves what it has counted to what its caller knows.
LEMMA EndedCounts ==
  ASSUME NEW S \in Nat, NEW T \in Nat, NEW l \in Nat, NEW r \in Nat, NEW k \in Nat, NEW s \in Nat,
         Accounted(S, l, k, s)
  PROVE  /\ S <= l + 1 /\ S <= l + 1 + 1
         /\ s < k => S >= 1
         /\ s >= k => S <= l
         /\ OncePerRun(T, r, k, s) => T <= r
BY DEF Accounted, OncePerRun

LEMMA Between == \A h, k, s \in Nat : h < k /\ s <= h => s < k
OBVIOUS

LEMMA NextOf ==
  \A h, s \in Nat : (s <= h => s < h + 1) /\ (~(s <= h) => s >= h + 1)
OBVIOUS

LEMMA CallerEndKeepsCounts ==
  ASSUME PlacesHold, CountsOfCaller, CallerIsTold \/ CallerIsNotTold
  PROVE  CountsOfCaller'
<1>1. ByCaller /\ Underway /\ run' = NoRun /\ work' = work /\ skill' = skill /\ acted' = acted
  BY DEF CallerIsTold, CallerIsNotTold
<1>2. ~OfScenario'
  BY <1>1, NoRunInPlace
<1>3. TypesHold /\ runs \in Nat /\ lost \in Nat /\ held.step \in Nat
  BY StateFacts DEF PlacesHold
<1>4. runs' = runs /\ lost' \in {lost, lost + 1}
  BY DEF CallerIsTold, CallerIsNotTold, History
<1> SUFFICES ASSUME NEW scenario \in Scenarios, NEW s \in DOMAIN scenario.steps
             PROVE  CountsAtRest(scenario, s)'
  BY <1>2 DEF CountsOfCaller
<1> DEFINE S == Succeeded(scenario.id, s)
           T == Tried(scenario.id, s)
           clicks == scenario.steps[s].kind \in {"CLICK", "TYPE"}
<1>5. S' = S /\ T' = T
  BY <1>1, CallerCounts
<1>6. S \in Nat /\ T \in Nat /\ s \in Nat \ {0}
  BY <1>3, CountFacts, StepFacts
<1>7. CASE OfScenario /\ scenario = work
  <2> DEFINE k == run.step
             h == held'.step
  <2>1. /\ Accounted(S, lost, k, s)
        /\ clicks => T <= runs \/ OncePerRun(T, runs, k, s)
    BY <1>1, <1>7 DEF CountsOfCaller, CountsUnderway
  <2>2. k \in Nat /\ work.id # ""
    BY <1>7, ScenarioFacts
  <2> HIDE DEF S, T, clicks, k
  <2>3. /\ S <= lost + 1 /\ S <= lost + 1 + 1
        /\ s < k => S >= 1
        /\ s >= k => S <= lost
        /\ clicks => T <= runs
    BY <1>3, <1>6, <2>1, <2>2, EndedCounts
  <2>4. CASE CallerIsTold
    <3>1. held' = run.checkpoint /\ lost' = lost
      BY <1>7, <2>4 DEF CallerIsTold
    <3>2. CASE run.checkpoint.of = work.id
      <4>1. k = h + 1 /\ h \in Nat
        BY <1>3, <1>7, <3>1, <3>2, StateFacts DEF PlacesHold, CheckpointPlace, k
      <4> HIDE DEF h
      <4>2. (s <= h => S >= 1) /\ (~(s <= h) => S <= lost)
        BY <1>6, <2>3, <4>1, NextOf
      <4>3. held'.of = scenario.id /\ S' = S /\ T' = T /\ runs' = runs
        BY <1>4, <1>5, <1>7, <3>1, <3>2
      <4>. QED  BY <2>3, <3>1, <4>2, <4>3 DEF CountsAtRest, S, T, h, clicks
    <3>3. CASE run.checkpoint.of # work.id
      <4>1. held'.of \notin {"", work.id}
        BY <1>7, <3>1, <3>3 DEF PlacesHold, CheckpointPlace
      <4>. QED  BY <1>4, <1>5, <1>7, <2>3, <3>1, <4>1 DEF CountsAtRest, S, T, clicks
    <3>. QED  BY <3>2, <3>3
  <2>5. CASE CallerIsNotTold
    <3>1. held' = held /\ lost' = lost + 1
      BY <2>5 DEF CallerIsNotTold, History
    <3>2. held'.of = work.id => h < k
      BY <1>7, <3>1 DEF PlacesHold, CheckpointPlace, k
    <3>3. h \in Nat
      BY <1>3, <3>1
    <3> HIDE DEF h
    <3>4. h < k /\ s <= h => S >= 1
      <4>1. s < k => S >= 1
        BY <2>3
      <4>2. h < k /\ s <= h => s < k
        BY <1>6, <2>2, <3>3, Between
      <4>. QED  BY <4>1, <4>2
    <3>. QED  BY <1>4, <1>5, <1>7, <2>3, <3>1, <3>2, <3>4 DEF CountsAtRest, S, T, h, clicks
  <2>. QED  BY <2>4, <2>5
<1>8. CASE ~(OfScenario /\ scenario = work)
  <2>1. CountsAtRest(scenario, s)
    BY <1>1, <1>8 DEF CountsOfCaller
  <2>2. /\ held.of = scenario.id /\ s <= held.step => S >= 1
        /\ S <= lost + 1
        /\ ~(held.of = scenario.id /\ s <= held.step) /\ held.of \in {"", scenario.id} => S <= lost
        /\ clicks => T <= runs
    BY <2>1 DEF CountsAtRest
  <2> HIDE DEF S, T, clicks
  <2>3. (S <= lost => S <= lost') /\ S <= lost' + 1
    BY <1>3, <1>4, <1>6, <2>2, OneMore, MoreIsEnough
  <2>4. CASE held' = held
    <3>1. S' = S /\ T' = T /\ runs' = runs
      BY <1>4, <1>5
    <3>. QED  BY <2>2, <2>3, <2>4, <3>1 DEF CountsAtRest, S, T, clicks
  <2>5. CASE held' # held
    <3>1. OfScenario /\ held' = run.checkpoint /\ scenario # work
      BY <1>8, <2>5 DEF CallerIsTold, CallerIsNotTold
    <3>2. held'.of = work.id /\ work.id # "" /\ work \in Works
      BY <2>5, <3>1, ScenarioFacts DEF PlacesHold, CheckpointPlace, Works
    <3>3. scenario.id # work.id
      BY <1>6, <3>1, <3>2, StepFacts, SameId
    <3>. QED  BY <1>4, <1>5, <2>2, <2>3, <3>2, <3>3 DEF CountsAtRest, S, T, clicks
  <2>. QED  BY <2>4, <2>5
<1>. QED  BY <1>7, <1>8

LEMMA SkillMovesKeepCounts ==
  ASSUME PlacesHold, SkillMoves
  PROVE  CountsOfCaller'
<1>1. CASE Forgets
  <2>1. ~OfScenario' /\ acted' = << >> /\ held' = NoCheckpoint /\ runs' = 0 /\ lost' = 0
    BY <1>1, NoRunInPlace DEF Forgets, History
  <2>. QED  BY <2>1, NothingCounts DEF CountsOfCaller
<1>2. ~Forgets => ~ByCaller'
  <2>1. skill \in SkillRuns
    BY DEF PlacesHold, TypesHold
  <2>2. SkillStarts \/ SkillChecks => ~ByCaller'
    BY <2>1 DEF SkillStarts, SkillChecks, EndSkill, ByCaller, SkillRuns
  <2>3. SkillIsTold \/ SkillIsNotTold => ~ByCaller'
    BY <2>1 DEF SkillIsTold, SkillIsNotTold, ToSkill, EndSkill, AfterProcedure, ByCaller, SkillRuns
  <2>4. SkillIsAsked => ~ByCaller'
    BY DEF SkillIsAsked, RunSkill, NoSkill, ByCaller
  <2>. QED  BY <2>2, <2>3, <2>4 DEF SkillMoves
<1>. QED  BY <1>1, <1>2 DEF CountsOfCaller

LEMMA MovesKeepCounts == PlacesHold /\ CountsOfCaller /\ BrowserMoves => CountsOfCaller'
BY ScenarioMovesKeepCounts, TaskMovesKeepCounts, CallerStartKeepsCounts, CallerResumesCounts,
   CallerEndKeepsCounts, SkillMovesKeepCounts DEF BrowserMoves, CallerMoves

-----------------------------------------------------------------------------
(* What a skill runs is done once.                                          *)

\* A worker that does nothing, or fails, is past the same steps; one that succeeds is
\* past one more.
Passes == \A s \in DOMAIN work.steps : Past(s)' <=> Past(s) \/ s = run.step
PassesNone == \A s \in DOMAIN work.steps : Past(s)' <=> Past(s)

LEMMA NextIsPassed ==
  \A s, k \in Nat : s < k + 1 <=> s < k \/ s = k
OBVIOUS

LEMMA WorkersPass ==
  ASSUME PlacesHold, ScenarioMoves \/ ComputerMoves
  PROVE  /\ Underway /\ SameRun
         /\ \/ (acted' = acted \/ Try(FALSE)) /\ PassesNone
            \/ Try(TRUE) /\ ~Past(run.step) /\ Passes
<1>1. ASSUME ScenarioMoves
      PROVE  /\ Underway /\ SameRun
             /\ \/ (acted' = acted \/ Try(FALSE)) /\ PassesNone
                \/ Try(TRUE) /\ ~Past(run.step) /\ Passes
  <2>1. OfScenario /\ SameRun /\ run.at # "after"
    BY <1>1, ScenarioEndsFields
       DEF ScenarioMoves, Prepares, Completes, TriesAgain, GivesUp, Acting
  <2>2. run.step \in Nat /\ DOMAIN work.steps \subseteq Nat /\ Underway
    <3>1. /\ run.step \in Nat /\ Underway
          /\ DOMAIN work.steps = 1..Len(work.steps) /\ Len(work.steps) \in Nat
      BY <2>1, ScenarioFacts
    <3>. QED  BY <3>1
  <2>3. ~Past(run.step)
    BY <2>1, <2>2 DEF Past
  <2>4. CASE Completes
    <3>1. run'.at = "step" /\ run'.step = run.step + 1 /\ Try(TRUE)
      BY <2>4, CompletesFields DEF Completes
    <3>2. Passes
      BY <2>1, <2>2, <3>1, NextIsPassed DEF Passes, Past
    <3>. QED  BY <2>1, <2>2, <2>3, <3>1, <3>2
  <2>5. CASE ~Completes
    <3>1. acted' = acted \/ Try(FALSE)
      BY <1>1, <2>5, ScenarioEndsFields DEF ScenarioMoves, Prepares, TriesAgain, GivesUp
    <3>2. run'.at # "after" /\ run'.step = run.step
      BY <1>1, <2>5, PreparesFields, TriesAgainFields, GivesUpFields, ScenarioEndsFields
         DEF ScenarioMoves
    <3>3. PassesNone
      BY <2>1, <3>2 DEF PassesNone, Past
    <3>. QED  BY <2>1, <2>2, <3>1, <3>3
  <2>. QED  BY <2>4, <2>5
<1>2. ASSUME ComputerMoves
      PROVE  /\ Underway /\ SameRun
             /\ \/ (acted' = acted \/ Try(FALSE)) /\ PassesNone
                \/ Try(TRUE) /\ ~Past(run.step) /\ Passes
  <2>1. OfTask /\ SameRun
    BY <1>2, TaskStepFields DEF ComputerMoves, TaskPrepares, TaskStops, TaskActionFails
  <2>2. run.step \in Nat /\ DOMAIN work.steps \subseteq Nat /\ Underway
    <3>1. /\ run.step \in Nat /\ Underway
          /\ DOMAIN work.steps = 1..Len(work.steps) /\ Len(work.steps) \in Nat
      BY <2>1, TaskFacts
    <3>. QED  BY <3>1
  <2>3. CASE ActionSucceeds
    <3>1. run.at = "act" /\ run'.at = "after" /\ run'.step = run.step /\ Try(TRUE)
      BY <2>1, <2>3, TaskStepFields DEF ActionSucceeds
    <3>2. ~Past(run.step)
      BY <2>2, <3>1 DEF Past
    <3>3. Passes
      BY <3>1 DEF Passes, Past
    <3>. QED  BY <2>1, <2>2, <3>1, <3>2, <3>3
  <2>4. CASE ObserveAfter
    <3>1. /\ run.at = "after" /\ run'.at = "observe" /\ run'.step = run.step + 1
          /\ acted' = acted
      BY <2>1, <2>4, TaskStepFields
    <3>2. PassesNone
      BY <2>2, <3>1, NextIsPassed DEF PassesNone, Past
    <3>. QED  BY <2>1, <2>2, <3>1, <3>2
  <2>5. CASE ~ActionSucceeds /\ ~ObserveAfter
    <3>1. acted' = acted \/ Try(FALSE)
      BY <1>2, <2>1, <2>5, TaskStepFields DEF ComputerMoves, TaskPrepares, TaskStops, TaskActionFails
    <3>2. (run'.at = "after" <=> run.at = "after") /\ run'.step = run.step
      <4>1. TaskPrepares => run.at # "after" /\ run'.at # "after" /\ run'.step = run.step
        BY TaskPreparesFields DEF TaskPrepares
      <4>2. TaskStops \/ TaskActionFails =>
              run.at # "after" /\ run'.at # "after" /\ run'.step = run.step
        BY TaskStopsFields DEF TaskStops, TaskActionFails
      <4>3. TaskEnds => run.at # "after" /\ run'.at # "after" /\ run'.step = run.step
        BY <2>1, TaskStepFields
      <4>4. ProofsAge => run'.at = run.at /\ run'.step = run.step
        BY <2>1, TaskStepFields
      <4>. QED  BY <1>2, <2>5, <4>1, <4>2, <4>3, <4>4 DEF ComputerMoves
    <3>3. PassesNone
      BY <3>2 DEF PassesNone, Past
    <3>. QED  BY <2>1, <2>2, <3>1, <3>3
  <2>. QED  BY <2>3, <2>4, <2>5
<1>. QED  BY <1>1, <1>2

\* While the browser is not a skill's, or its procedure is not done, nothing has to be.
LEMMA NoneToCount ==
  ASSUME skill'.at \notin {"procedure", "rolling", "validations"},
         skill'.outcome \notin {"COMPLETED", "VALIDATION_FAILED"}
  PROVE  CountsOfSkill'
BY DEF CountsOfSkill

LEMMA WorkersKeepSkillCounts ==
  ASSUME PlacesHold, CountsOfSkill, ScenarioMoves \/ ComputerMoves
  PROVE  CountsOfSkill'
<1>1. /\ Underway /\ SameRun
      /\ \/ (acted' = acted \/ Try(FALSE)) /\ PassesNone
         \/ Try(TRUE) /\ ~Past(run.step) /\ Passes
  BY WorkersPass
<1>2. work' = work /\ skill' = skill
  BY <1>1 DEF SameRun
<1>3. skill.at \in {"idle", "procedure", "rolling"} /\ skill.outcome = "none"
  <2>1. skill.at \notin {"preconditions", "rollback", "validations", "ended"}
    BY <1>1, NothingFields DEF PlacesHold, SkillPlace, Underway, OfScenario, OfTask
  <2>2. skill \in SkillRuns
    BY DEF PlacesHold, TypesHold
  <2>3. skill.at \in {"idle", "procedure", "rolling"}
    BY <2>1, <2>2 DEF SkillRuns
  <2>. QED  BY <2>3, NothingFields DEF PlacesHold, SkillPlace
<1> SUFFICES ASSUME skill.at \in {"procedure", "rolling"}, NEW s \in DOMAIN work.steps
             PROVE  Succeeded(work.id, s)' = IF Past(s)' THEN 1 ELSE 0
  BY <1>2, <1>3 DEF CountsOfSkill
<1>4. Succeeded(work.id, s) = IF Past(s) THEN 1 ELSE 0
  BY DEF CountsOfSkill
<1>5. CASE acted' = acted /\ PassesNone
  BY <1>1, <1>2, <1>4, <1>5, RunCounts DEF PassesNone
<1>6. CASE Try(FALSE) /\ PassesNone
  <2>1. Succeeded(work.id, s)' = Succeeded(work.id, s)
    BY <1>1, <1>2, <1>6, RunCounts
  <2>. QED  BY <1>4, <1>6, <2>1 DEF PassesNone
<1>7. CASE Try(TRUE) /\ ~Past(run.step) /\ Passes
  <2>1. CASE s = run.step
    <3>1. Succeeded(work.id, s)' = Succeeded(work.id, s) + 1
      BY <1>1, <1>2, <1>7, <2>1, RunCounts
    <3>2. Succeeded(work.id, s) = 0
      BY <1>4, <1>7, <2>1
    <3>3. Past(s)'
      BY <1>7, <2>1 DEF Passes
    <3>. QED  BY <3>1, <3>2, <3>3
  <2>2. CASE s # run.step
    <3>1. Succeeded(work.id, s)' = Succeeded(work.id, s)
      BY <1>1, <1>2, <1>7, <2>2, RunCounts
    <3>. QED  BY <1>4, <1>7, <2>2, <3>1 DEF Passes
  <2>. QED  BY <2>1, <2>2
<1>. QED  BY <1>1, <1>5, <1>6, <1>7

LEMMA NoneOfTheSkill ==
  ASSUME ByCaller, SkillPlace, skill' = skill
  PROVE  CountsOfSkill'
BY NothingFields, NoneToCount DEF SkillPlace, ByCaller

\* A run of a skill starts with nothing done that is its own.
LEMMA SkillStartsNothing ==
  ASSUME PlacesHold, SkillStarts
  PROVE  /\ skill'.at \in {"procedure", "rolling"} /\ skill'.outcome = "none"
         /\ run'.step = 1 /\ run'.at # "after" /\ run'.log = << >>
         /\ \A id, s : ActionsOn(id, s)' = {}
         /\ OfRun' = {}
         /\ work' \in Works /\ (OfScenario' => run'.at = "step")
         /\ (OfTask' => run'.at = "observe") /\ held' = held /\ runs' = runs
<1>1. skill \in SkillRuns
  BY DEF PlacesHold, TypesHold
<1>2. PICK procedure : StartsProcedure(procedure)
  BY DEF SkillStarts
<1>3. /\ run'.step = 1 /\ run'.at # "after" /\ run'.log = << >> /\ work' \in Works
      /\ (OfScenario' => run'.at = "step") /\ (OfTask' => run'.at = "observe")
  <2>1. CASE procedure.kind = "PLAYWRIGHT"
    <3>1. /\ procedure.work \in Scenarios /\ ValidScenario(procedure.work)
          /\ StartScenario(procedure.work, NoCheckpoint)
      BY <1>2, <2>1 DEF StartsProcedure, RunsOneOfThem, ValidProcedure, StartProcedure
    <3>2. procedure.work.id # ""
      BY <3>1, ValidScenarioFacts
    <3>3. StartIndex(procedure.work, NoCheckpoint) = 1
      BY <3>2, StartIndexIs, NothingFields, NothingIsTyped
    <3>. QED  BY <3>1, <3>3, StartScenarioFields, NothingIsTyped DEF Works
  <2>2. CASE procedure.kind # "PLAYWRIGHT"
    <3>1. procedure.work \in ComputerTasks /\ StartTask(procedure.work, {})
      BY <1>2, <2>2 DEF StartsProcedure, RunsOneOfThem, ValidProcedure, StartProcedure
    <3>. QED  BY <3>1, StartTaskFields DEF Works
  <2>. QED  BY <2>1, <2>2
<1>4. acted' = acted /\ held' = held /\ runs' = runs
  BY <1>2 DEF StartsProcedure
<1>5. CASE skill.at = "preconditions"
  <2>1. skill'.at = "procedure" /\ skill'.outcome = skill.outcome /\ skill.outcome = "none"
    BY <1>1, <1>5 DEF SkillStarts, SkillRuns, PlacesHold, SkillPlace
  <2>2. acted' = << >>
    BY <1>4, <1>5 DEF PlacesHold, UndoingPlace
  <2>3. (\A id, s : ActionsOn(id, s)' = {}) /\ OfRun' = {}
    BY <2>2 DEF ActionsOn, OfRun
  <2>. QED  BY <1>3, <1>4, <2>1, <2>3
<1>6. CASE skill.at = "rollback"
  <2>1. skill'.at = "rolling" /\ skill'.outcome = skill.outcome /\ skill.outcome = "none"
    BY <1>1, <1>6 DEF SkillStarts, SkillRuns, PlacesHold, SkillPlace
  <2>2. \A i \in DOMAIN acted : acted[i].undoing = FALSE
    <3>1. ~\E i \in DOMAIN acted : acted[i].undoing
      BY <1>6 DEF PlacesHold, UndoingPlace
    <3>2. \A i \in DOMAIN acted : acted[i] \in Actions
      BY StateFacts DEF PlacesHold
    <3>3. \A i \in DOMAIN acted : acted[i].undoing \in BOOLEAN
      BY <3>2 DEF Actions
    <3>. QED  BY <3>1, <3>3
  <2>3. Undoing' = TRUE
    BY <2>1 DEF Undoing
  <2>4. (\A id, s : ActionsOn(id, s)' = {}) /\ OfRun' = {}
    BY <1>4, <2>2, <2>3 DEF ActionsOn, OfRun
  <2>. QED  BY <1>3, <1>4, <2>1, <2>4
<1>. QED  BY <1>5, <1>6 DEF SkillStarts

LEMMA SkillIsToldCounts ==
  ASSUME PlacesHold, CountsOfSkill, SkillIsTold
  PROVE  CountsOfSkill'
<1>1. /\ skill \in SkillRuns /\ ~ByCaller /\ Underway /\ run.at = "close"
      /\ ToSkill(run.result) /\ work' = work /\ acted' = acted
  BY DEF SkillIsTold, PlacesHold, TypesHold
<1>2. CASE skill.at = "rolling"
  <2>1. skill'.at = "ended" /\ skill'.outcome = "PROCEDURE_FAILED"
    BY <1>1, <1>2 DEF ToSkill, SkillRuns
  <2>. QED  BY <2>1, NoneToCount
<1>3. CASE skill.at # "rolling"
  <2>1. skill.at = "procedure"
    <3>1. skill.at \notin {"preconditions", "rollback", "validations", "ended"}
      BY <1>1, NothingFields DEF PlacesHold, SkillPlace, Underway, OfScenario, OfTask
    <3>. QED  BY <1>1, <1>3, <3>1 DEF SkillRuns, ByCaller
  <2>2. work = skill.of.procedure.work /\ skill.outcome = "none"
    BY <2>1 DEF PlacesHold, SkillPlace
  <2>3. /\ skill'.at = AfterProcedure(run.result) /\ skill'.of = skill.of
        /\ skill'.outcome = IF AfterProcedure(run.result) = "ended" THEN "PROCEDURE_FAILED"
                            ELSE skill.outcome
    BY <1>1, <1>3 DEF ToSkill, SkillRuns
  <2>4. CASE run.result # "COMPLETED"
    <3>1. AfterProcedure(run.result) \in {"rollback", "ended"}
      BY <2>4 DEF AfterProcedure
    <3>. QED  BY <2>2, <2>3, <3>1, NoneToCount
  <2>5. CASE run.result = "COMPLETED"
    <3>1. skill'.at = "validations" /\ skill'.outcome = "none"
      BY <2>2, <2>3, <2>5 DEF AfterProcedure
    <3>2. Undoing' = Undoing
      BY <1>3, <3>1 DEF Undoing
    <3>3. \A s \in DOMAIN work.steps : Past(s)
      <4>1. /\ DOMAIN work.steps = 1..Len(work.steps) /\ Len(work.steps) \in Nat
            /\ run.step \in Nat
        BY <1>1, ScenarioFacts, TaskFacts DEF Underway
      <4>2. run.step > Len(work.steps)
        BY <1>1, <2>5 DEF PlacesHold, RunPlace, ScenarioPlace, TaskPlace, Underway
      <4>3. \A s \in 1..Len(work.steps) : s < run.step
        BY <4>1, <4>2
      <4>. QED  BY <4>1, <4>3 DEF Past
    <3>4. \A s \in DOMAIN work.steps : Succeeded(work.id, s) = 1
      BY <2>1, <3>3 DEF CountsOfSkill
    <3>5. \A s \in DOMAIN work.steps : Succeeded(work.id, s)' = 1
      <4>1. \A id, s : Succeeded(id, s)' = Succeeded(id, s)
        BY <1>1, <3>2, CountsStay
      <4>. QED  BY <1>1, <3>4, <4>1
    <3>. QED  BY <1>1, <2>2, <2>3, <3>1, <3>5 DEF CountsOfSkill
  <2>. QED  BY <2>4, <2>5
<1>. QED  BY <1>2, <1>3

LEMMA SkillChecksCounts ==
  ASSUME PlacesHold, CountsOfSkill, SkillChecks
  PROVE  CountsOfSkill'
<1>1. skill \in SkillRuns /\ work' = work /\ acted' = acted
  BY DEF SkillChecks, PlacesHold, TypesHold
<1>2. skill.at \in {"preconditions", "rollback", "validations"} /\ skill.outcome = "none"
  BY DEF SkillChecks, PlacesHold, SkillPlace
<1>3. CASE skill.at = "validations"
  <2>1. skill'.of = skill.of /\ skill'.at \in {"validations", "ended"}
    BY <1>1, <1>3 DEF SkillChecks, EndSkill, SkillRuns
  <2>2. Undoing' = Undoing
    BY <1>3, <2>1 DEF Undoing
  <2>3. \A id, s : Succeeded(id, s)' = Succeeded(id, s)
    BY <1>1, <2>2, CountsStay
  <2>4. \A s \in DOMAIN skill.of.procedure.work.steps :
          Succeeded(skill.of.procedure.work.id, s) = 1
    BY <1>3 DEF CountsOfSkill
  <2>5. \A s \in DOMAIN skill'.of.procedure.work.steps :
          Succeeded(skill.of.procedure.work.id, s)' = 1
    BY <2>1, <2>3, <2>4
  <2>. QED  BY <2>1, <2>5 DEF CountsOfSkill
<1>4. CASE skill.at # "validations"
  <2>1. /\ skill'.at \notin {"procedure", "rolling", "validations"}
        /\ skill'.outcome \notin {"COMPLETED", "VALIDATION_FAILED"}
    BY <1>1, <1>2, <1>4 DEF SkillChecks, EndSkill, SkillRuns
  <2>. QED  BY <2>1, NoneToCount
<1>. QED  BY <1>3, <1>4

LEMMA MovesKeepSkillCounts ==
  ASSUME PlacesHold, CountsOfSkill, BrowserMoves
  PROVE  CountsOfSkill'
<1>1. skill \in SkillRuns /\ SkillPlace
  BY DEF PlacesHold, TypesHold
<1>2. CallerMoves => CountsOfSkill'
  BY <1>1, NoneOfTheSkill
     DEF CallerMoves, CallerStarts, CallerResumes, ResumeScenario, IsRefused, CallerIsTold,
         CallerIsNotTold
<1>3. SkillStarts => CountsOfSkill'
  <2> SUFFICES ASSUME SkillStarts PROVE CountsOfSkill'
    OBVIOUS
  <2>1. /\ skill'.at \in {"procedure", "rolling"} /\ skill'.outcome = "none"
        /\ run'.step = 1 /\ run'.at # "after" /\ work' \in Works
        /\ \A id, s : ActionsOn(id, s)' = {}
    BY SkillStartsNothing
  <2>2. \A id, s : Succeeded(id, s)' = 0
    <3> SUFFICES ASSUME NEW id, NEW s PROVE Succeeded(id, s)' = 0
      OBVIOUS
    <3>1. {i \in ActionsOn(id, s)' : acted'[i].ok} = {}
      BY <2>1
    <3>. QED  BY <3>1, FS_EmptySet DEF Succeeded
  <2>3. \A s \in DOMAIN work'.steps : ~Past(s)'
    <3>1. DOMAIN work'.steps = 1..Len(work'.steps) /\ Len(work'.steps) \in Nat
      BY <2>1, WorkFacts
    <3>2. \A s \in 1..Len(work'.steps) : ~(s < 1) 
      BY <3>1
    <3>. QED  BY <2>1, <3>1, <3>2 DEF Past
  <2>. QED  BY <2>1, <2>2, <2>3 DEF CountsOfSkill
<1>4. SkillIsNotTold => CountsOfSkill'
  BY <1>1, NoneToCount DEF SkillIsNotTold, EndSkill, SkillRuns
<1>5. SkillIsAsked => CountsOfSkill'
  BY NoneToCount DEF SkillIsAsked, RunSkill, NoSkill
<1>6. Forgets => CountsOfSkill'
  BY NoneToCount, NothingFields DEF Forgets
<1>. QED  BY <1>2, <1>3, <1>4, <1>5, <1>6, WorkersKeepSkillCounts, SkillIsToldCounts,
             SkillChecksCounts DEF BrowserMoves, SkillMoves

-----------------------------------------------------------------------------
(* What is told of a run.                                                   *)

\* Between two runs nothing is told yet, and what a first run counts is its own.
LEMMA RunsStart ==
  ASSUME PlacesHold, CallerMoves \/ SkillMoves
  PROVE  \/ ~OfScenario' /\ ~OfTask'
         \/ /\ OfScenario' /\ ~OfTask' /\ run'.at = "step" /\ run'.log = << >>
            /\ runs' <= 1 => \A id, s : ActionsOn(id, s)' = {}
         \/ /\ OfTask' /\ ~OfScenario' /\ run'.at = "observe" /\ run'.step = 1
            /\ run'.log = << >> /\ OfRun' = {}
<1>1. CASE CallerStarts
  <2>1. CASE \E scenario \in Scenarios :
               ValidScenario(scenario) /\ StartScenario(scenario, NoCheckpoint) /\ FirstRun
    <3>1. acted' = << >>
      BY <2>1 DEF FirstRun
    <3>2. \A id, s : ActionsOn(id, s)' = {}
      BY <3>1 DEF ActionsOn
    <3>. QED  BY <2>1, <3>2, StartScenarioFields, NothingIsTyped
  <2>2. CASE \E task \in ComputerTasks, proof \in ApprovalProofs : \E proofs \in {{proof}, {}} :
               ValidTask(task) /\ StartTask(task, proofs) /\ acted' = << >>
    <3>1. OfRun' = {}
      BY <2>2 DEF OfRun
    <3>. QED  BY <2>2, <3>1, StartTaskFields
  <2>. QED  BY <1>1, <2>1, <2>2 DEF CallerStarts
<1>2. CASE CallerResumes
  <2>1. PICK scenario \in Scenarios : ResumeScenario(scenario)
    BY <1>2 DEF CallerResumes
  <2>2. /\ ValidScenario(scenario) /\ StartScenario(scenario, held) /\ held \in Checkpoints
        /\ runs > 0 /\ runs' = runs + 1 /\ runs \in Nat
    BY <2>1, StateFacts DEF ResumeScenario, History, PlacesHold, TypesHold
  <2>3. ~(runs' <= 1)
    BY <2>2
  <2>. QED  BY <2>2, <2>3, StartScenarioFields
<1>3. CASE IsRefused
  <2>1. run' = [NoRun EXCEPT !.at = "return", !.result = "REJECTED"]
    BY <1>3 DEF IsRefused, Rejected
  <2>2. run'.worker = "none"
    BY <2>1 DEF NoRun
  <2>. QED  BY <2>2 DEF OfScenario, OfTask
<1>4. CASE CallerIsTold \/ CallerIsNotTold \/ SkillIsTold \/ SkillIsNotTold \/ Forgets
  BY <1>4, NoRunInPlace
     DEF CallerIsTold, CallerIsNotTold, SkillIsTold, SkillIsNotTold, Forgets
<1>5. CASE SkillStarts
  <2>1. /\ skill'.at \in {"procedure", "rolling"}
        /\ run'.step = 1 /\ run'.log = << >>
        /\ \A id, s : ActionsOn(id, s)' = {}
        /\ OfRun' = {}
        /\ (OfScenario' => run'.at = "step") /\ (OfTask' => run'.at = "observe")
    BY <1>5, SkillStartsNothing
  <2>. QED  BY <2>1 DEF OfScenario, OfTask
<1>6. CASE SkillChecks \/ SkillIsAsked
  <2>1. run' = run /\ (run = NoRun \/ run.at = "idle")
    BY <1>6 DEF SkillChecks, SkillIsAsked, RunSkill, PlacesHold, SkillPlace
  <2>2. ~OfScenario /\ ~OfTask
    BY <2>1, NothingFields
       DEF PlacesHold, RunPlace, ScenarioPlace, TaskPlace, OfScenario, OfTask
  <2>. QED  BY <2>1, <2>2 DEF OfScenario, OfTask
<1>. QED  BY <1>1, <1>2, <1>3, <1>4, <1>5, <1>6 DEF CallerMoves, SkillMoves

LEMMA TasksStayTasks ==
  ASSUME PlacesHold, ComputerMoves
  PROVE  OfTask /\ SameRun /\ OfTask' /\ ~OfScenario' /\ Unmoved
<1>1. OfTask /\ SameRun
  BY TaskStepFields DEF ComputerMoves, TaskPrepares, TaskStops, TaskActionFails
<1>2. Unmoved
  BY <1>1, TaskPreparesFields, TaskStopsFields, TaskStepFields DEF ComputerMoves
<1>. QED  BY <1>1, <1>2 DEF Unmoved, OfTask, OfScenario

LEMMA ScenariosStayScenarios ==
  ASSUME PlacesHold, ScenarioMoves
  PROVE  OfScenario /\ SameRun /\ OfScenario' /\ ~OfTask' /\ Unmoved /\ run.at # "close"
<1>1. OfScenario /\ SameRun /\ run.at # "close"
  BY ScenarioEndsFields DEF ScenarioMoves, Prepares, Completes, TriesAgain, GivesUp, Acting
<1>2. Unmoved
  BY <1>1, PreparesFields, CompletesFields, TriesAgainFields, GivesUpFields, ScenarioEndsFields
     DEF ScenarioMoves
<1>. QED  BY <1>1, <1>2 DEF Unmoved, OfTask, OfScenario

\* The steps of the evidence, before and after one is told of.
LEMMA EvidenceSteps ==
  ASSUME NEW k \in Nat, NEW n \in Nat
  PROVE  /\ \A i \in 1..n : /\ (k + 1) - (n + 1) + i - 1 = k - n + i - 1
                            /\ k - (n + 1) + i = k - n + i - 1
                            /\ i \in 1..n + 1 /\ i # n + 1
                            /\ k - n + i - 1 < k /\ k - n + i - 1 # k
         /\ (k + 1) - (n + 1) + (n + 1) - 1 = k
         /\ k - (n + 1) + (n + 1) = k
         /\ n + 1 >= 1 /\ n + 1 \in Nat
         /\ \A i \in 1..n + 1 : i \in 1..n \/ i = n + 1
OBVIOUS

LEMMA ScenarioMovesKeepEvidence ==
  ASSUME PlacesHold, EvidencePlace, ScenarioMoves
  PROVE  EvidencePlace'
<1> DEFINE n == Len(run.log)
           k == run.step
<1>1. OfScenario /\ run.at # "close"
  BY ScenariosStayScenarios
<1>2. \A i \in 1..n : run.log[i].step = k - n + i - 1 /\ run.log[i].outcome = "SUCCEEDED"
  BY <1>1 DEF EvidencePlace
<1>3. n \in Nat /\ k \in Nat
  BY StateFacts DEF PlacesHold
<1>4. CASE Prepares \/ TriesAgain \/ (OfScenario /\ ScenarioEnds)
  <2>1. /\ run'.log = run.log /\ run'.step = k
        /\ ~(run'.at = "close" /\ run'.result = "FAILED")
    BY <1>4, PreparesFields, TriesAgainFields, ScenarioEndsFields DEF LogStays
  <2>. QED  BY <1>2, <2>1 DEF EvidencePlace
<1>5. CASE Completes
  <2> DEFINE entry == Evidence("SUCCEEDED", "none")
  <2>1. /\ run'.at = "step" /\ run'.step = k + 1
        /\ Len(run'.log) = n + 1
        /\ \A i \in 1..n : run'.log[i] = run.log[i]
        /\ run'.log[n + 1] = entry
    BY <1>5, CompletesFields DEF LogGrowsBy
  <2>2. entry.step = k /\ entry.outcome = "SUCCEEDED"
    BY DEF Evidence
  <2> HIDE DEF entry, n, k
  <2>3. ASSUME NEW i \in 1..n + 1
        PROVE  run'.log[i].step = (k + 1) - (n + 1) + i - 1 /\ run'.log[i].outcome = "SUCCEEDED"
    <3>1. CASE i \in 1..n
      BY <1>2, <1>3, <2>1, <3>1, EvidenceSteps
    <3>2. CASE i = n + 1
      BY <1>3, <2>1, <2>2, <3>2, EvidenceSteps
    <3>. QED  BY <1>3, <3>1, <3>2, EvidenceSteps
  <2>. QED  BY <2>1, <2>3 DEF EvidencePlace
<1>6. CASE GivesUp
  <2>1. PICK error \in StepErrors :
          /\ LogGrowsBy(Evidence("FAILED", error))
          /\ run'.at = "close" /\ run'.result = "FAILED" /\ run'.step = k
    BY <1>6, GivesUpFields
  <2> DEFINE entry == Evidence("FAILED", error)
  <2>2. /\ Len(run'.log) = n + 1
        /\ \A i \in 1..n : run'.log[i] = run.log[i]
        /\ run'.log[n + 1] = entry
    BY <2>1 DEF LogGrowsBy
  <2>3. entry.step = k /\ entry.outcome = "FAILED"
    BY DEF Evidence
  <2> HIDE DEF entry, n, k
  <2>4. ASSUME NEW i \in 1..n + 1
        PROVE  /\ run'.log[i].step = k - (n + 1) + i
               /\ run'.log[i].outcome = IF i = n + 1 THEN "FAILED" ELSE "SUCCEEDED"
    <3>1. CASE i \in 1..n
      <4>1. i # n + 1 /\ k - (n + 1) + i = k - n + i - 1
        BY <1>3, <3>1, EvidenceSteps
      <4>. QED  BY <1>2, <2>2, <3>1, <4>1
    <3>2. CASE i = n + 1
      BY <1>3, <2>2, <2>3, <3>2, EvidenceSteps
    <3>. QED  BY <1>3, <3>1, <3>2, EvidenceSteps
  <2>5. n + 1 >= 1
    BY <1>3
  <2>. QED  BY <2>1, <2>2, <2>4, <2>5 DEF EvidencePlace
<1>. QED  BY <1>4, <1>5, <1>6 DEF ScenarioMoves

LEMMA MovesKeepEvidence ==
  ASSUME PlacesHold, EvidencePlace, BrowserMoves
  PROVE  EvidencePlace'
<1>1. ComputerMoves => EvidencePlace'
  BY TasksStayTasks DEF EvidencePlace
<1>2. CallerMoves \/ SkillMoves => EvidencePlace'
  BY RunsStart, NothingIsTyped DEF EvidencePlace
<1>. QED  BY <1>1, <1>2, ScenarioMovesKeepEvidence DEF BrowserMoves

\* A run of a scenario counts at most one more attempt, of the step it is at.
LEMMA ScenarioCounts ==
  ASSUME PlacesHold, ScenarioMoves
  PROVE  \A id, s : id = work.id =>
           /\ s # run.step => Tried(id, s)' = Tried(id, s)
           /\ Tried(id, s)' \in {Tried(id, s), Tried(id, s) + 1}
           /\ Prepares \/ ScenarioEnds => Tried(id, s)' = Tried(id, s)
<1>1. acted' = acted \/ \E ok \in BOOLEAN : Try(ok)
  BY ScenarioEndsFields DEF ScenarioMoves, Prepares, Completes, TriesAgain, GivesUp
<1>2. OfScenario /\ SameRun /\ Underway
  BY ScenariosStayScenarios DEF Underway
<1>3. Prepares \/ ScenarioEnds => acted' = acted
  BY DEF Prepares, ScenarioEnds
<1>. QED  BY <1>1, <1>2, <1>3, RunCounts

LEMMA ScenarioMovesKeepAttempts ==
  ASSUME PlacesHold, EvidencePlace, FirstAttempts, ScenarioMoves
  PROVE  FirstAttempts'
<1>1. /\ OfScenario /\ run.at # "close"
      /\ work' = work /\ runs' = runs
  BY ScenariosStayScenarios DEF SameRun
<1>0. PICK n, k, W : n = Len(run.log) /\ k = run.step /\ W = work.id
  OBVIOUS
<1>16. SUFFICES ASSUME runs <= 1
       PROVE  /\ \A s \in DOMAIN work.steps : s > run'.step => Tried(W, s)' = 0
              /\ \A s : run'.at # "close" /\ s = run'.step /\ s \in DOMAIN work.steps =>
                   Tried(W, s)' <= run'.tries
              /\ \A i \in DOMAIN run'.log : \A s :
                   s = run'.log[i].step => Tried(W, s)' <= run'.log[i].attempts
  <2>1. W = work'.id
    BY <1>0, <1>1
  <2>. QED  BY <1>1, <2>1 DEF FirstAttempts
<1>2. /\ \A s \in DOMAIN work.steps : s > k => Tried(W, s) = 0
      /\ k \in DOMAIN work.steps => Tried(W, k) <= run.tries
      /\ \A i \in DOMAIN run.log : Tried(W, run.log[i].step) <= run.log[i].attempts
  BY <1>0, <1>1, <1>16 DEF FirstAttempts
<1>3. n \in Nat /\ k \in Nat /\ run.tries \in Nat /\ DOMAIN run.log = 1..n /\ TypesHold
  BY <1>0, StateFacts DEF PlacesHold
<1>4. DOMAIN work.steps = 1..Len(work.steps) /\ Len(work.steps) \in Nat
  BY <1>1, ScenarioFacts
<1>5. \A i \in 1..n : run.log[i].step = k - n + i - 1
  BY <1>0, <1>1 DEF EvidencePlace
<1>6. \A i \in 1..n : run.log[i].step # k
  <2>. SUFFICES ASSUME NEW i \in 1..n PROVE run.log[i].step # k
    OBVIOUS
  <2>1. k - n + i - 1 # k
    BY <1>3, EvidenceSteps
  <2>. QED  BY <1>5, <2>1
<1>7. /\ \A s : s # k => Tried(W, s)' = Tried(W, s)
      /\ Tried(W, k)' \in {Tried(W, k), Tried(W, k) + 1}
      /\ Tried(W, k) \in Nat
  BY <1>0, <1>3, ScenarioCounts, CountFacts
<1>8. \A i \in 1..n : \A s : s = run.log[i].step => Tried(W, s)' <= run.log[i].attempts
  BY <1>2, <1>3, <1>6, <1>7
<1>9. k \in DOMAIN work.steps => Tried(W, k)' <= run.tries + 1
  <2>1. \A a, t \in Nat : a <= t => a <= t + 1 /\ a + 1 <= t + 1
    OBVIOUS
  <2>. QED  BY <1>2, <1>3, <1>7, <2>1
<1>10. \A s \in DOMAIN work.steps : s > k => Tried(W, s)' = 0
  BY <1>2, <1>3, <1>4, <1>7
<1>11. CASE Prepares \/ (OfScenario /\ ScenarioEnds)
  <2>1. /\ run'.log = run.log /\ run'.step = k /\ run'.tries = run.tries
        /\ Tried(W, k)' = Tried(W, k)
    BY <1>0, <1>11, PreparesFields, ScenarioEndsFields, ScenarioCounts DEF LogStays
  <2>. QED  BY <1>2, <1>3, <1>8, <1>10, <2>1
<1>12. CASE TriesAgain
  <2>1. run'.log = run.log /\ run'.step = k /\ run'.tries = run.tries + 1
    BY <1>0, <1>12, TriesAgainFields DEF LogStays
  <2>. QED  BY <1>3, <1>8, <1>9, <1>10, <2>1
<1>13. CASE Completes \/ GivesUp
  <2>1. PICK entry :
          /\ LogGrowsBy(entry)
          /\ entry.step = k /\ entry.attempts = run.tries + 1
          /\ Completes => run'.step = k + 1 /\ run'.tries = 0
          /\ ~Completes => run'.step = k /\ run'.at = "close"
    <3>1. CASE Completes
      BY <1>0, <1>13, <3>1, CompletesFields DEF Evidence
    <3>2. CASE ~Completes
      <4>1. PICK error \in StepErrors :
              /\ LogGrowsBy(Evidence("FAILED", error))
              /\ run'.at = "close" /\ run'.step = k
        BY <1>0, <1>13, <3>2, GivesUpFields
      <4>. QED  BY <1>0, <3>2, <4>1 DEF Evidence
    <3>. QED  BY <3>1, <3>2
  <2>2. k \in DOMAIN work.steps
    <3>1. k \in 1..Len(work.steps) + 1 /\ k <= Len(work.steps)
      BY <1>0, <1>1, <1>13, ScenarioFacts DEF Completes, GivesUp, Acting
    <3>. QED  BY <1>4, <3>1
  <2>3. /\ run'.log = Append(run.log, entry)
        /\ \A i \in 1..n : run'.log[i] = run.log[i]
        /\ run'.log[n + 1] = entry
    BY <1>0, <2>1 DEF LogGrowsBy
  <2>4. DOMAIN run'.log = 1..n + 1
    <3>1. Len(run'.log) = n + 1
      BY <1>0, <2>1 DEF LogGrowsBy
    <3>2. run'.log \in Seq(Entries)
      BY ScenariosStayScenarios DEF Unmoved, Runs
    <3>. QED  BY <3>1, <3>2, LenProperties
  <2>5. \A i \in DOMAIN run'.log : \A s :
          s = run'.log[i].step => Tried(W, s)' <= run'.log[i].attempts
    <3> SUFFICES ASSUME NEW i \in DOMAIN run'.log, NEW s, s = run'.log[i].step
                 PROVE  Tried(W, s)' <= run'.log[i].attempts
      OBVIOUS
    <3>1. CASE i \in 1..n
      BY <1>8, <2>3, <3>1
    <3>2. CASE i = n + 1
      <4>1. run'.log[i].step = k /\ run'.log[i].attempts = run.tries + 1
        BY <2>1, <2>3, <3>2
      <4>. QED  BY <1>9, <2>2, <4>1
    <3>. QED  BY <1>3, <2>4, <3>1, <3>2, EvidenceSteps
  <2>6. CASE Completes
    <3>1. run'.step = k + 1 /\ run'.tries = 0
      BY <2>1, <2>6
    <3>2. \A s \in DOMAIN work.steps : s > k + 1 => s > k
      BY <1>3, <1>4
    <3>3. k + 1 \in DOMAIN work.steps => Tried(W, k + 1)' = 0
      <4>1. k + 1 > k
        BY <1>3
      <4>. QED  BY <1>10, <4>1
    <3>4. 0 <= run'.tries
      BY <3>1
    <3>. QED  BY <1>10, <2>5, <3>1, <3>2, <3>3, <3>4
  <2>7. CASE ~Completes
    BY <1>10, <2>1, <2>5, <2>7
  <2>. QED  BY <2>6, <2>7
<1>. QED  BY <1>11, <1>12, <1>13 DEF ScenarioMoves

LEMMA MovesKeepAttempts ==
  ASSUME PlacesHold, EvidencePlace, FirstAttempts, BrowserMoves
  PROVE  FirstAttempts'
<1>1. ComputerMoves => FirstAttempts'
  BY TasksStayTasks DEF FirstAttempts
<1>2. CallerMoves \/ SkillMoves => FirstAttempts'
  <2> SUFFICES ASSUME CallerMoves \/ SkillMoves, OfScenario', runs' <= 1
               PROVE  FirstAttempts'
    BY DEF FirstAttempts
  <2>1. run'.at = "step" /\ run'.log = << >> /\ \A id, s : ActionsOn(id, s)' = {}
    BY RunsStart
  <2>2. \A id, s : Tried(id, s)' = 0
    BY <2>1, FS_EmptySet DEF Tried
  <2>3. run'.tries \in Nat
    <3>1. run' \in Runs
      BY MovesKeepPlaces DEF BrowserMoves, PlacesHold, TypesHold
    <3>. QED  BY <3>1 DEF Runs
  <2>4. DOMAIN run'.log = {} /\ 0 <= run'.tries
    BY <2>1, <2>3, NoneIsLess
  <2>. QED  BY <2>2, <2>4 DEF FirstAttempts
<1>. QED  BY <1>1, <1>2, ScenarioMovesKeepAttempts DEF BrowserMoves

-----------------------------------------------------------------------------
(* The trace of computer use.                                               *)

LEMMA TaskMovesKeepTrace ==
  ASSUME PlacesHold, TracePlace, ComputerMoves
  PROVE  TracePlace'
<1> DEFINE n == Len(run.log)
           k == run.step
<1>1. OfTask
  BY TasksStayTasks
<1>2. n \in Nat /\ k \in Nat
  BY StateFacts DEF PlacesHold
<1>3. ASSUME ~(run.at = "close" /\ run.result # "COMPLETED")
      PROVE  n = k - 1 /\ \A i \in 1..n : run.log[i].step = i /\ run.log[i].outcome = "EXECUTED"
  BY <1>1, <1>3 DEF TracePlace
<1>4. CASE TaskStops \/ TaskActionFails
  <2>1. PICK error \in StepErrors, result \in {"FAILED", "ESCALATED_TO_HUMAN"} :
          /\ LogGrowsBy(Trace(IF result = "FAILED" THEN "FAILED" ELSE "BLOCKED", error))
          /\ run'.at = "close" /\ run'.result = result /\ run'.step = k
    BY <1>4, TaskStopsFields
  <2> DEFINE entry == Trace(IF result = "FAILED" THEN "FAILED" ELSE "BLOCKED", error)
  <2>2. n = k - 1 /\ \A i \in 1..n : run.log[i].step = i /\ run.log[i].outcome = "EXECUTED"
    BY <1>3, <1>4 DEF TaskStops, TaskActionFails
  <2>3. entry.step = k /\ entry.outcome # "EXECUTED"
    BY DEF Trace
  <2>4. /\ Len(run'.log) = n + 1
        /\ \A i \in 1..n : run'.log[i] = run.log[i]
        /\ run'.log[n + 1] = entry
    BY <2>1 DEF LogGrowsBy
  <2> HIDE DEF entry, n, k
  <2>5. n + 1 = k /\ \A i \in 1..n + 1 : (i \in 1..n /\ i # n + 1) \/ i = n + 1
    BY <1>2, <2>2
  <2>6. \A i \in 1..n + 1 :
          run'.log[i].step = i /\ (run'.log[i].outcome = "EXECUTED" <=> i # n + 1)
    BY <2>2, <2>3, <2>4, <2>5
  <2>7. run'.result # "COMPLETED"
    BY <2>1
  <2>. QED  BY <2>1, <2>4, <2>5, <2>6, <2>7 DEF TracePlace
<1>5. CASE ObserveAfter
  <2> DEFINE entry == Trace("EXECUTED", "none")
  <2>1. /\ LogGrowsBy(entry) /\ run'.at = "observe" /\ run'.step = k + 1 /\ run.at = "after"
    BY <1>1, <1>5, TaskStepFields
  <2>2. n = k - 1 /\ \A i \in 1..n : run.log[i].step = i /\ run.log[i].outcome = "EXECUTED"
    BY <1>3, <2>1
  <2>3. entry.step = k /\ entry.outcome = "EXECUTED"
    BY DEF Trace
  <2>4. /\ Len(run'.log) = n + 1
        /\ \A i \in 1..n : run'.log[i] = run.log[i]
        /\ run'.log[n + 1] = entry
    BY <2>1 DEF LogGrowsBy
  <2> HIDE DEF entry, n, k
  <2>5. /\ n + 1 = k /\ n + 1 = k + 1 - 1
        /\ \A i \in 1..n + 1 : i \in 1..n \/ i = n + 1
    BY <1>2, <2>2
  <2>6. \A i \in 1..n + 1 : run'.log[i].step = i /\ run'.log[i].outcome = "EXECUTED"
    BY <2>2, <2>3, <2>4, <2>5
  <2>. QED  BY <2>1, <2>4, <2>5, <2>6 DEF TracePlace
<1>6. CASE ProofsAge
  <2>1. /\ run'.log = run.log /\ run'.step = k /\ run'.at = run.at /\ run'.result = run.result
    BY <1>1, <1>6, TaskStepFields DEF LogStays
  <2>. QED  BY <1>1, <2>1 DEF TracePlace
<1>7. CASE TaskPrepares \/ ActionSucceeds \/ TaskEnds
  <2>1. /\ run'.log = run.log /\ run'.step = k /\ run.at # "close"
        /\ ~(run'.at = "close" /\ run'.result # "COMPLETED")
    BY <1>1, <1>7, TaskPreparesFields, TaskStepFields DEF LogStays, TaskPrepares
  <2>. QED  BY <1>3, <2>1 DEF TracePlace
<1>. QED  BY <1>4, <1>5, <1>6, <1>7 DEF ComputerMoves

LEMMA MovesKeepTrace ==
  ASSUME PlacesHold, TracePlace, BrowserMoves
  PROVE  TracePlace'
<1>1. ScenarioMoves => TracePlace'
  BY ScenariosStayScenarios DEF TracePlace
<1>2. CallerMoves \/ SkillMoves => TracePlace'
  <2> SUFFICES ASSUME CallerMoves \/ SkillMoves, OfTask'
               PROVE  TracePlace'
    BY DEF TracePlace
  <2>1. run'.at = "observe" /\ run'.step = 1 /\ run'.log = << >>
    BY RunsStart
  <2>2. Len(run'.log) = 0 /\ 1 - 1 = 0
    BY <2>1, NothingIsTyped
  <2>. QED  BY <2>1, <2>2 DEF TracePlace
<1>. QED  BY <1>1, <1>2, TaskMovesKeepTrace DEF BrowserMoves

\* The actions of a run that goes on: those it had, and the one it does.
LEMMA ActionsOfRunStay ==
  ASSUME PlacesHold, OfTask, SameRun
  PROVE  /\ acted' = acted => OfRun' = OfRun
         /\ \A ok \in BOOLEAN : Try(ok) =>
              /\ OfRun' = OfRun \cup {Len(acted) + 1}
              /\ \A i \in OfRun : acted'[i] = acted[i] /\ i < Len(acted) + 1
              /\ acted'[Len(acted) + 1]
                   = [of |-> work.id, step |-> run.step, ok |-> ok, undoing |-> Undoing]
         /\ OfRun \subseteq Nat
<1>1. TypesHold /\ work.id \in WorkIds
  BY TaskFacts
<1>2. DOMAIN acted = 1..Len(acted) /\ Len(acted) \in Nat
  BY <1>1, StateFacts
<1>3. Undoing' = Undoing
  BY DEF SameRun, Undoing
<1>4. acted' = acted => OfRun' = OfRun
  BY <1>3 DEF OfRun
<1>5. \A i \in OfRun : i \in Nat /\ i < Len(acted) + 1
  BY <1>2 DEF OfRun
<1>6. ASSUME NEW ok \in BOOLEAN, Try(ok)
      PROVE  /\ OfRun' = OfRun \cup {Len(acted) + 1}
             /\ \A i \in OfRun : acted'[i] = acted[i] /\ i < Len(acted) + 1
             /\ acted'[Len(acted) + 1]
                  = [of |-> work.id, step |-> run.step, ok |-> ok, undoing |-> Undoing]
  <2>1. /\ DOMAIN acted' = 1..Len(acted) + 1
        /\ \A i \in DOMAIN acted : acted'[i] = acted[i]
        /\ acted'[Len(acted) + 1]
             = [of |-> work.id, step |-> run.step, ok |-> ok, undoing |-> Undoing]
    BY <1>1, <1>6, TryAppends
  <2>2. DOMAIN acted' = DOMAIN acted \cup {Len(acted) + 1}
    BY <1>2, <2>1
  <2>3. acted'[Len(acted) + 1].undoing = Undoing
    BY <2>1
  <2>4. OfRun' = OfRun \cup {Len(acted) + 1}
    BY <1>3, <2>1, <2>2, <2>3 DEF OfRun
  <2>. QED  BY <1>5, <2>1, <2>4 DEF OfRun
<1>. QED  BY <1>4, <1>5, <1>6

LEMMA ActionStays ==
  ASSUME PlacesHold, OfTask, SameRun, Unmoved,
         acted' = acted \/ \E ok \in BOOLEAN : Try(ok),
         NEW i \in OfRun, ActionInPlace(i),
         \/ /\ run'.step = run.step
            /\ acted[i].step = run.step =>
                 run'.at = run.at /\ run'.result = run.result /\ run'.log = run.log
         \/ run'.step = run.step + 1 /\ run.at = "after"
  PROVE  i \in OfRun' /\ ActionInPlace(i)'
<1>1. /\ i \in OfRun' /\ acted'[i] = acted[i]
      /\ \A j \in OfRun' : j < i => j \in OfRun /\ acted'[j] = acted[j]
  <2>1. CASE acted' = acted
    BY <2>1, ActionsOfRunStay
  <2>2. CASE \E ok \in BOOLEAN : Try(ok)
    <3>1. /\ OfRun' = OfRun \cup {Len(acted) + 1}
          /\ \A j \in OfRun : acted'[j] = acted[j]
      BY <2>2, ActionsOfRunStay
    <3>2. ~(Len(acted) + 1 < i)
      <4>1. i < Len(acted) + 1 /\ i \in Nat /\ Len(acted) \in Nat
        BY <2>2, ActionsOfRunStay, StateFacts DEF PlacesHold
      <4>. QED  BY <4>1
    <3>. QED  BY <3>1, <3>2
  <2>. QED  BY <2>1, <2>2
<1>2. work' = work /\ run'.proofs = run.proofs
  BY DEF SameRun, Unmoved
<1>3. /\ acted[i].of = work.id /\ acted[i].step \in DOMAIN work.steps
      /\ ApprovedBySomebodyElse(work.steps[acted[i].step])
      /\ \A j \in OfRun : j < i => acted[j].step < acted[i].step
  BY DEF ActionInPlace
<1>4. ApprovedBySomebodyElse(work.steps[acted[i].step])'
  BY <1>1, <1>2, <1>3 DEF ApprovedBySomebodyElse
<1>5. run.step \in Nat /\ acted[i].step \in Nat
  <2>1. /\ DOMAIN work.steps = 1..Len(work.steps) /\ Len(work.steps) \in Nat
        /\ run.step \in Nat
    BY TaskFacts
  <2>. QED  BY <1>3, <2>1
<1>6. /\ acted[i].step <= run'.step
      /\ acted[i].step < run'.step => acted[i].ok
      /\ acted[i].step = run'.step =>
           \/ run'.at = "after" /\ acted[i].ok
           \/ /\ run'.at = "close" /\ run'.result = "FAILED" /\ ~acted[i].ok
              /\ run'.log[run'.step].outcome = "FAILED"
  <2>1. /\ acted[i].step <= run.step
        /\ acted[i].step < run.step => acted[i].ok
        /\ acted[i].step = run.step =>
             \/ run.at = "after" /\ acted[i].ok
             \/ /\ run.at = "close" /\ run.result = "FAILED" /\ ~acted[i].ok
                /\ run.log[run.step].outcome = "FAILED"
    BY DEF ActionInPlace
  <2>2. CASE run'.step = run.step
    <3>1. CASE acted[i].step = run.step
      <4>1. run'.at = run.at /\ run'.result = run.result /\ run'.log = run.log
        <5>1. run.step # run.step + 1
          BY <1>5
        <5>. QED  BY <2>2, <3>1, <5>1
      <4>2. ~(acted[i].step < run'.step)
        BY <1>5, <2>2, <3>1
      <4>. QED  BY <2>1, <2>2, <3>1, <4>1, <4>2
    <3>2. CASE acted[i].step # run.step
      BY <2>1, <2>2, <3>2
    <3>. QED  BY <3>1, <3>2
  <2>3. CASE run'.step = run.step + 1 /\ run.at = "after"
    <3>1. acted[i].ok
      <4>1. acted[i].step < run.step \/ acted[i].step = run.step
        BY <1>5, <2>1
      <4>. QED  BY <2>1, <2>3, <4>1
    <3>2. acted[i].step <= run'.step /\ acted[i].step # run'.step
      <4>1. acted[i].step <= run.step
        BY <2>1
      <4>. QED  BY <1>5, <2>3, <4>1
    <3>. QED  BY <3>1, <3>2
  <2>. QED  BY <2>2, <2>3
<1>. QED  BY <1>1, <1>2, <1>3, <1>4, <1>6 DEF ActionInPlace

LEMMA TaskMovesKeepActions ==
  ASSUME PlacesHold, TracePlace, ActionsOfTask, ComputerMoves
  PROVE  ActionsOfTask'
<1>1. /\ OfTask /\ SameRun /\ OfTask' /\ Unmoved /\ work' = work /\ run'.proofs = run.proofs
  BY TasksStayTasks DEF SameRun, Unmoved
<1>2. /\ \A i \in OfRun : ActionInPlace(i)
      /\ \A s \in DOMAIN work.steps : Past(s) => \E i \in OfRun : acted[i].step = s
      /\ run.at \in {"resolve", "act", "after"} => ApprovedBySomebodyElse(Step)
  BY <1>1 DEF ActionsOfTask
<1>3. /\ run.step \in Nat /\ run.step \in 1..Len(work.steps) + 1
      /\ DOMAIN work.steps = 1..Len(work.steps) /\ Len(work.steps) \in Nat
      /\ TypesHold
  BY <1>1, TaskFacts
<1>4. acted' = acted \/ \E ok \in BOOLEAN : Try(ok)
  BY <1>1, TaskStepFields DEF ComputerMoves, TaskPrepares, TaskStops, TaskActionFails, ActionSucceeds
<1>5. \/ (acted' = acted \/ Try(FALSE)) /\ PassesNone
      \/ Try(TRUE) /\ Passes
  BY WorkersPass
<1>6. run.at \in {"observe", "resolve", "act"} => \A i \in OfRun : acted[i].step # run.step
  BY <1>2 DEF ActionInPlace
\* Where the run was, the actions that it had stay in their place.
<1>7. \A i \in OfRun : i \in OfRun' /\ ActionInPlace(i)'
  <2>1. \A i \in OfRun :
          \/ /\ run'.step = run.step
             /\ acted[i].step = run.step =>
                  run'.at = run.at /\ run'.result = run.result /\ run'.log = run.log
          \/ run'.step = run.step + 1 /\ run.at = "after"
    <3>1. CASE TaskPrepares
      BY <1>6, <3>1, TaskPreparesFields DEF TaskPrepares
    <3>2. CASE TaskStops \/ TaskActionFails
      BY <1>6, <3>2, TaskStopsFields DEF TaskStops, TaskActionFails
    <3>3. CASE ActionSucceeds \/ TaskEnds
      BY <1>1, <1>6, <3>3, TaskStepFields
    <3>4. CASE ObserveAfter
      BY <1>1, <3>4, TaskStepFields
    <3>5. CASE ProofsAge
      BY <1>1, <3>5, TaskStepFields DEF LogStays
    <3>. QED  BY <3>1, <3>2, <3>3, <3>4, <3>5 DEF ComputerMoves
  <2>. QED  BY <1>1, <1>2, <1>4, <2>1, ActionStays
<1>8. \A i \in OfRun : acted'[i] = acted[i]
  BY <1>1, <1>4, ActionsOfRunStay
\* What is approved when it is prepared is approved when it is done.
<1>9. run'.at \in {"resolve", "act", "after"} =>
        run'.step = run.step /\ ApprovedBySomebodyElse(Step) /\ ApprovedBySomebodyElse(Step)'
  <2>1. run'.at \in {"resolve", "act", "after"} =>
          run'.step = run.step /\ ApprovedBySomebodyElse(Step)
    <3>1. CASE TaskPrepares
      BY <1>2, <3>1, TaskPreparesFields DEF TaskPrepares
    <3>2. CASE TaskStops \/ TaskActionFails
      BY <3>2, TaskStopsFields
    <3>3. CASE ActionSucceeds \/ ObserveAfter \/ TaskEnds \/ ProofsAge
      BY <1>1, <1>2, <3>3, TaskStepFields
    <3>. QED  BY <3>1, <3>2, <3>3 DEF ComputerMoves
  <2>. QED  BY <1>1, <2>1 DEF ApprovedBySomebodyElse, Step
<1>10. CASE acted' = acted
  <2>1. OfRun' = OfRun
    BY <1>1, <1>10, ActionsOfRunStay
  <2>2. PassesNone \/ Passes
    BY <1>5
  <2>3. PassesNone
    <3>1. ~Try(TRUE)
      <4>1. SUFFICES ASSUME Try(TRUE) PROVE FALSE
        OBVIOUS
      <4>2. Len(acted) + 1 \in OfRun'
        BY <1>1, <4>1, ActionsOfRunStay
      <4>3. Len(acted) + 1 < Len(acted) + 1
        BY <1>1, <2>1, <4>1, <4>2, ActionsOfRunStay
      <4>4. Len(acted) \in Nat
        BY <1>3, StateFacts
      <4>. QED  BY <4>3, <4>4
    <3>. QED  BY <1>5, <3>1
  <2>4. \A s \in DOMAIN work'.steps : Past(s)' => \E i \in OfRun' : acted'[i].step = s
    BY <1>1, <1>2, <1>8, <2>1, <2>3 DEF PassesNone
  <2>. QED  BY <1>7, <1>9, <2>1, <2>4 DEF ActionsOfTask
<1>11. ASSUME NEW ok \in BOOLEAN, Try(ok)
       PROVE  ActionsOfTask'
  <2>0. PICK m : m = Len(acted) + 1
    OBVIOUS
  <2>1. /\ OfRun' = OfRun \cup {m} /\ m \in Nat
        /\ acted'[m] = [of |-> work.id, step |-> run.step, ok |-> ok, undoing |-> Undoing]
        /\ \A i \in OfRun : i < m
    <3>1. /\ OfRun' = OfRun \cup {Len(acted) + 1}
          /\ \A i \in OfRun : i < Len(acted) + 1
          /\ acted'[Len(acted) + 1]
               = [of |-> work.id, step |-> run.step, ok |-> ok, undoing |-> Undoing]
      BY <1>1, <1>11, ActionsOfRunStay
    <3>2. Len(acted) + 1 \in Nat
      <4>1. Len(acted) \in Nat
        BY <1>3, StateFacts
      <4>. QED  BY <4>1, OneMore
    <3>. QED  BY <2>0, <3>1, <3>2
  <2>9. acted' # acted
    <3>1. SUFFICES ASSUME acted' = acted PROVE FALSE
      OBVIOUS
    <3>2. m \in OfRun
      BY <1>1, <2>1, <3>1, ActionsOfRunStay
    <3>. QED  BY <2>1, <3>2
  <2>10. TaskActionFails \/ ActionSucceeds
    BY <1>1, <2>9, TaskStepFields DEF ComputerMoves, TaskPrepares, TaskStops
  <2>11. \A other \in BOOLEAN : Try(other) => other = ok
    <3> SUFFICES ASSUME NEW other \in BOOLEAN, Try(other) PROVE other = ok
      OBVIOUS
    <3>1. acted'[Len(acted) + 1]
            = [of |-> work.id, step |-> run.step, ok |-> other, undoing |-> Undoing]
      BY <1>1, ActionsOfRunStay
    <3>. QED  BY <2>0, <2>1, <3>1
  <2>2. run.at = "act" /\ run'.step = run.step /\ run.step <= Len(work.steps)
    <3>2. CASE TaskActionFails
      BY <1>1, <3>2, TaskStopsFields DEF TaskActionFails, PlacesHold, RunPlace, TaskPlace
    <3>3. CASE ActionSucceeds
      BY <1>1, <3>3, TaskStepFields DEF PlacesHold, RunPlace, TaskPlace
    <3>. QED  BY <2>10, <3>2, <3>3
  <2>3. run.step \in DOMAIN work.steps
    BY <1>3, <2>2
  <2>4. \A i \in OfRun : acted[i].step < run.step
    <3>1. \A i \in OfRun : acted[i].step <= run.step /\ acted[i].step \in DOMAIN work.steps
      BY <1>2 DEF ActionInPlace
    <3>. QED  BY <1>3, <1>6, <2>2, <3>1
  <2>5. ApprovedBySomebodyElse(work.steps[acted[m].step])'
    BY <1>1, <1>2, <2>1, <2>2 DEF ApprovedBySomebodyElse, Step
  <2>6. /\ ok => run'.at = "after"
        /\ ~ok => /\ run'.at = "close" /\ run'.result = "FAILED"
                  /\ run'.log[run.step].outcome = "FAILED"
    <3>1. CASE TaskActionFails
      <4>1. ok = FALSE
        BY <2>11, <3>1 DEF TaskActionFails
      <4>2. PICK error \in StepErrors, result \in {"FAILED", "ESCALATED_TO_HUMAN"} :
              /\ LogGrowsBy(Trace(IF result = "FAILED" THEN "FAILED" ELSE "BLOCKED", error))
              /\ run'.at = "close" /\ run'.result = result /\ result = "FAILED"
        BY <3>1, TaskStopsFields
      <4>3. Len(run.log) + 1 = run.step
        <5>1. Len(run.log) = run.step - 1
          BY <1>1, <2>2 DEF TracePlace
        <5>. QED  BY <1>3, <5>1
      <4>4. run'.log[run.step] = Trace("FAILED", error)
        BY <4>2, <4>3 DEF LogGrowsBy
      <4>. QED  BY <4>1, <4>2, <4>4 DEF Trace
    <3>2. CASE ActionSucceeds
      <4>1. ok = TRUE
        BY <2>11, <3>2 DEF ActionSucceeds
      <4>2. run'.at = "after"
        BY <1>1, <3>2, TaskStepFields
      <4>. QED  BY <2>1, <4>1, <4>2
    <3>. QED  BY <2>10, <3>1, <3>2
  <2>7. ActionInPlace(m)'
    <3>1. /\ acted'[m].of = work'.id /\ acted'[m].step \in DOMAIN work'.steps
          /\ acted'[m].step = run'.step /\ acted'[m].ok = ok
      BY <1>1, <2>1, <2>2, <2>3
    <3>2. \A j \in OfRun' : j < m => acted'[j].step < acted'[m].step
      BY <1>8, <2>1, <2>2, <2>4, <3>1
    <3>3. run'.step <= run'.step /\ ~(run'.step < run'.step)
      BY <1>3, <2>2
    <3>. QED  BY <2>2, <2>5, <2>6, <3>1, <3>2, <3>3 DEF ActionInPlace
  <2>8. \A s \in DOMAIN work'.steps : Past(s)' => \E i \in OfRun' : acted'[i].step = s
    <3> SUFFICES ASSUME NEW s \in DOMAIN work.steps, Past(s)'
                 PROVE  \E i \in OfRun' : acted'[i].step = s
      BY <1>1
    <3>1. Past(s) \/ s = run.step
      BY <1>5 DEF Passes, PassesNone
    <3>2. CASE Past(s)
      BY <1>2, <1>8, <2>1, <3>2
    <3>3. CASE s = run.step
      BY <2>1, <3>3
    <3>. QED  BY <3>1, <3>2, <3>3
  <2>. QED  BY <1>7, <1>9, <2>1, <2>7, <2>8 DEF ActionsOfTask
<1>. QED  BY <1>4, <1>10, <1>11

LEMMA MovesKeepActions ==
  ASSUME PlacesHold, TracePlace, ActionsOfTask, BrowserMoves
  PROVE  ActionsOfTask'
<1>1. ScenarioMoves => ActionsOfTask'
  BY ScenariosStayScenarios DEF ActionsOfTask
<1>2. CallerMoves \/ SkillMoves => ActionsOfTask'
  <2> SUFFICES ASSUME CallerMoves \/ SkillMoves, OfTask'
               PROVE  ActionsOfTask'
    BY DEF ActionsOfTask
  <2>1. run'.at = "observe" /\ run'.step = 1 /\ OfRun' = {}
    BY RunsStart
  <2>2. work' \in Works
    BY MovesKeepPlaces DEF BrowserMoves, PlacesHold, RunPlace, TaskPlace, Works
  <2>3. \A s \in DOMAIN work'.steps : ~Past(s)'
    <3>1. DOMAIN work'.steps = 1..Len(work'.steps) /\ Len(work'.steps) \in Nat
      BY <2>2, WorkFacts
    <3>2. \A s \in 1..Len(work'.steps) : ~(s < 1)
      BY <3>1
    <3>. QED  BY <2>1, <3>1, <3>2 DEF Past
  <2>. QED  BY <2>1, <2>3 DEF ActionsOfTask
<1>. QED  BY <1>1, <1>2, TaskMovesKeepActions DEF BrowserMoves

-----------------------------------------------------------------------------
(* What is told is what was done.                                           *)

LEMMA BrowserStarts == BrowserInit => BrowserInv
<1> SUFFICES ASSUME BrowserInit PROVE BrowserInv
  OBVIOUS
<1>1. /\ work = NoWork /\ run = NoRun /\ skill = NoSkill /\ held = NoCheckpoint
      /\ acted = << >> /\ runs = 0 /\ lost = 0
  BY DEF BrowserInit
<1>2. ~OfScenario /\ ~OfTask /\ ~Underway /\ ByCaller /\ run.at = "idle"
  BY <1>1, NothingFields DEF OfScenario, OfTask, Underway, ByCaller
<1>3. TypesHold
  <2>1. 0 \in 0..MaxRuns
    BY BrowserAssumption DEF BrowserAssumption
  <2>. QED  BY <1>1, <2>1, NothingIsTyped DEF TypesHold
<1>4. RunPlace /\ SkillPlace /\ UndoingPlace /\ CheckpointPlace
  <2>1. RunPlace
    BY <1>1, <1>2 DEF RunPlace, ScenarioPlace, TaskPlace
  <2>2. SkillPlace
    BY <1>1, <1>2, NothingFields DEF SkillPlace
  <2>3. UndoingPlace
    <3>1. acted = << >> /\ ~\E i \in DOMAIN acted : acted[i].undoing
      BY <1>1
    <3>. QED  BY <3>1 DEF UndoingPlace
  <2>4. CheckpointPlace
    BY <1>1, <1>2 DEF CheckpointPlace
  <2>. QED  BY <2>1, <2>2, <2>3, <2>4
<1>5. LossesAreOfRuns
  BY <1>1, <1>2 DEF LossesAreOfRuns
<1>6. AllowedActions /\ EvidencePlace /\ FirstAttempts /\ TracePlace /\ ActionsOfTask
  BY <1>1, <1>2 DEF AllowedActions, EvidencePlace, FirstAttempts, TracePlace, ActionsOfTask
<1>7. CountsOfSkill
  BY <1>1, NothingFields DEF CountsOfSkill
<1>8. CountsOfCaller
  <2> SUFFICES ASSUME NEW scenario \in Scenarios, NEW s \in DOMAIN scenario.steps
               PROVE  CountsAtRest(scenario, s)
    BY <1>2 DEF CountsOfCaller
  <2>1. s \in Nat \ {0} /\ held.step = 0
    BY <1>1, StepFacts, NothingFields
  <2>2. ~(s <= held.step)
    BY <2>1
  <2>3. Tried(scenario.id, s) = 0 /\ Succeeded(scenario.id, s) = 0
    BY <1>1, NothingDoneYet
  <2>4. 0 <= lost /\ 0 <= lost + 1 /\ 0 <= runs
    BY <1>1
  <2>. QED  BY <2>2, <2>3, <2>4 DEF CountsAtRest
<1>. QED  BY <1>3, <1>4, <1>5, <1>6, <1>7, <1>8 DEF BrowserInv, PlacesHold, RecordsHold

LEMMA BrowserSteps ==
  ASSUME BrowserInv, BrowserNext
  PROVE  BrowserInv'
<1>1. BrowserMoves
  BY EveryStepMoves DEF BrowserInv
<1>2. PlacesHold'
  BY <1>1, MovesKeepPlaces DEF BrowserInv
<1>3. RecordsHold'
  BY <1>1, ActionsStayAllowed, MovesKeepCounts, MovesKeepSkillCounts, MovesKeepEvidence,
     MovesKeepAttempts, MovesKeepTrace, MovesKeepActions DEF BrowserInv, RecordsHold
<1>. QED  BY <1>2, <1>3 DEF BrowserInv

LEMMA BrowserStays ==
  ASSUME BrowserInv, UNCHANGED browserVars
  PROVE  BrowserInv'
<1>1. /\ work' = work /\ run' = run /\ skill' = skill /\ held' = held
      /\ acted' = acted /\ runs' = runs /\ lost' = lost
  BY DEF browserVars
<1>2. PlacesHold'
  <2>1. TypesHold'
    BY <1>1 DEF BrowserInv, PlacesHold, TypesHold
  <2>2. RunPlace'
    BY <1>1 DEF BrowserInv, PlacesHold, RunPlace, ScenarioPlace, TaskPlace, OfScenario, OfTask,
                Underway, ByCaller, Step
  <2>3. SkillPlace'
    BY <1>1 DEF BrowserInv, PlacesHold, SkillPlace, OfScenario, OfTask, Underway, ByCaller
  <2>4. UndoingPlace'
    BY <1>1 DEF BrowserInv, PlacesHold, UndoingPlace
  <2>5. CheckpointPlace'
    BY <1>1 DEF BrowserInv, PlacesHold, CheckpointPlace, OfScenario
  <2>6. LossesAreOfRuns'
    BY <1>1 DEF BrowserInv, PlacesHold, LossesAreOfRuns, OfScenario, OfTask, Underway, ByCaller
  <2>. QED  BY <2>1, <2>2, <2>3, <2>4, <2>5, <2>6 DEF PlacesHold
<1>3. CountsOfCaller'
  <2>1. \A id, s : Tried(id, s)' = Tried(id, s) /\ Succeeded(id, s)' = Succeeded(id, s)
    BY <1>1, CountsStay DEF Undoing
  <2>2. (ByCaller' <=> ByCaller) /\ (OfScenario' <=> OfScenario)
    BY <1>1 DEF ByCaller, OfScenario
  <2> SUFFICES ASSUME ByCaller, NEW scenario \in Scenarios, NEW s \in DOMAIN scenario.steps
               PROVE  IF OfScenario /\ scenario = work THEN CountsUnderway(scenario, s)'
                      ELSE CountsAtRest(scenario, s)'
    BY <1>1, <2>2 DEF CountsOfCaller
  <2>3. IF OfScenario /\ scenario = work THEN CountsUnderway(scenario, s)
        ELSE CountsAtRest(scenario, s)
    BY DEF BrowserInv, RecordsHold, CountsOfCaller
  <2>4. CountsUnderway(scenario, s)' <=> CountsUnderway(scenario, s)
    BY <1>1, <2>1 DEF CountsUnderway
  <2>5. CountsAtRest(scenario, s)' <=> CountsAtRest(scenario, s)
    BY <1>1, <2>1 DEF CountsAtRest
  <2>. QED  BY <2>3, <2>4, <2>5
<1>4. CountsOfSkill' /\ FirstAttempts'
  BY <1>1 DEF BrowserInv, RecordsHold, CountsOfSkill, FirstAttempts, Tried, Past,
              Succeeded, ActionsOn, Undoing, OfScenario
<1>5. AllowedActions' /\ EvidencePlace' /\ TracePlace'
  BY <1>1 DEF BrowserInv, RecordsHold, AllowedActions, EvidencePlace, TracePlace, OfScenario, OfTask
<1>6. ActionsOfTask'
  BY <1>1 DEF BrowserInv, RecordsHold, ActionsOfTask, ActionInPlace, ApprovedBySomebodyElse,
              OfRun, Undoing, Past, Step, OfTask
<1>. QED  BY <1>2, <1>3, <1>4, <1>5, <1>6 DEF BrowserInv, RecordsHold

LEMMA LossesAreBounded ==
  ASSUME NEW l \in Nat, NEW r \in Nat, NEW m \in Nat \ {0}, r <= m
  PROVE  /\ l + 1 <= 2 * r => l <= 2 * m
         /\ l <= 2 * r => l <= 2 * m
         /\ l <= 1 => l <= 2 * m
OBVIOUS

LEMMA BrowserIsTyped == BrowserInv => BrowserTypeOK
<1> SUFFICES ASSUME BrowserInv PROVE BrowserTypeOK
  OBVIOUS
<1>1. run \in Runs /\ skill \in SkillRuns /\ TypesHold /\ runs \in 0..MaxRuns
  BY DEF BrowserInv, PlacesHold, TypesHold
<1>2. lost \in 0..2 * MaxRuns
  <2>1. lost \in Nat /\ runs \in Nat /\ runs <= MaxRuns /\ MaxRuns \in Nat \ {0}
    BY <1>1, StateFacts
  <2>2. lost + 1 <= 2 * runs \/ lost <= 2 * runs \/ lost <= 1
    BY DEF BrowserInv, PlacesHold, LossesAreOfRuns, Underway
  <2>3. lost <= 2 * MaxRuns
    BY <2>1, <2>2, LossesAreBounded
  <2>. QED  BY <2>1, <2>3
<1>3. \/ held = NoCheckpoint
      \/ \E scenario \in Scenarios : held.of = scenario.id /\ held.step \in 0..Len(scenario.steps)
  <2> SUFFICES ASSUME held # NoCheckpoint
               PROVE  \E scenario \in Scenarios :
                        held.of = scenario.id /\ held.step \in 0..Len(scenario.steps)
    OBVIOUS
  <2>1. PICK scenario \in Scenarios : held.of = scenario.id /\ held.step <= Len(scenario.steps)
    BY DEF BrowserInv, PlacesHold, CheckpointPlace
  <2>2. Len(scenario.steps) \in Nat /\ held.step \in Nat
    BY <1>1, WorkFacts, StateFacts DEF Works
  <2>3. held.step \in 0..Len(scenario.steps)
    BY <2>1, <2>2
  <2>. QED  BY <2>1, <2>3
<1>4. /\ run.worker \in {"none", "PLAYWRIGHT", "COMPUTER_USE"}
      /\ run.at \in {"idle", "step", "resolve", "call", "observe", "act", "after", "close", "return"}
      /\ run.result \in {"none", "COMPLETED", "FAILED", "REJECTED", "ESCALATED_TO_HUMAN"}
      /\ skill.at \in {"idle", "preconditions", "procedure", "rollback", "rolling", "validations", "ended"}
  BY <1>1 DEF Runs, SkillRuns
<1>. QED  BY <1>1, <1>2, <1>3, <1>4 DEF BrowserTypeOK

LEMMA ProgressIsTold == BrowserInv => ProgressIsKept
<1> SUFFICES ASSUME BrowserInv, ByCaller, NEW scenario \in Scenarios,
                    NEW s \in DOMAIN scenario.steps
             PROVE  /\ Succeeded(scenario.id, s) <= 1 + lost
                    /\ scenario.steps[s].kind \in {"CLICK", "TYPE"} => Tried(scenario.id, s) <= runs
                    /\ held.of = scenario.id /\ s <= held.step => Succeeded(scenario.id, s) >= 1
  BY DEF ProgressIsKept
<1>1. PlacesHold /\ CountsOfCaller /\ TypesHold
  BY DEF BrowserInv, PlacesHold, RecordsHold
<1>2. /\ Succeeded(scenario.id, s) \in Nat /\ Tried(scenario.id, s) \in Nat
      /\ lost \in Nat /\ runs \in Nat /\ held.step \in Nat /\ run.step \in Nat
      /\ s \in Nat
  BY <1>1, CountFacts, StateFacts, StepFacts
<1>3. CASE OfScenario /\ scenario = work
  <2>1. /\ Accounted(Succeeded(scenario.id, s), lost, run.step, s)
        /\ scenario.steps[s].kind \in {"CLICK", "TYPE"} =>
             \/ Tried(scenario.id, s) <= runs
             \/ OncePerRun(Tried(scenario.id, s), runs, run.step, s)
    BY <1>1, <1>3 DEF CountsOfCaller, CountsUnderway
  <2>2. held.of = scenario.id => held.step < run.step
    BY <1>1, <1>3 DEF PlacesHold, CheckpointPlace
  <2>3. /\ Succeeded(scenario.id, s) <= lost + 1
        /\ s < run.step => Succeeded(scenario.id, s) >= 1
        /\ scenario.steps[s].kind \in {"CLICK", "TYPE"} => Tried(scenario.id, s) <= runs
    <3> DEFINE S == Succeeded(scenario.id, s)
               T == Tried(scenario.id, s)
               k == run.step
               clicks == scenario.steps[s].kind \in {"CLICK", "TYPE"}
    <3>1. /\ Accounted(S, lost, k, s)
          /\ clicks => T <= runs \/ OncePerRun(T, runs, k, s)
      BY <2>1
    <3>2. S \in Nat /\ T \in Nat /\ lost \in Nat /\ runs \in Nat /\ k \in Nat /\ s \in Nat
      BY <1>2
    <3> HIDE DEF S, T, k, clicks
    <3>3. S <= lost + 1 /\ (s < k => S >= 1) /\ (clicks => T <= runs)
      BY <3>1, <3>2, EndedCounts
    <3>. QED  BY <3>3 DEF S, T, k, clicks
  <2>4. held.of = scenario.id /\ s <= held.step => s < run.step
    BY <1>2, <2>2, Between
  <2>5. lost + 1 = 1 + lost
    BY <1>2
  <2>. QED  BY <2>3, <2>4, <2>5
<1>4. CASE ~(OfScenario /\ scenario = work)
  <2>1. CountsAtRest(scenario, s)
    BY <1>1, <1>4 DEF CountsOfCaller
  <2>2. lost + 1 = 1 + lost
    BY <1>2
  <2>. QED  BY <2>1, <2>2 DEF CountsAtRest
<1>. QED  BY <1>3, <1>4

LEMMA EvidenceIsTold == BrowserInv => EvidenceIsWhole
<1> SUFFICES ASSUME BrowserInv, OfScenario, run.at = "close"
             PROVE  EvidenceIsWhole
  BY DEF EvidenceIsWhole, OfScenario
<1> DEFINE n == Len(run.log)
           k == run.step
           failed == run.result = "FAILED"
           completed == Len(work.steps)
<1>1. PlacesHold /\ TypesHold /\ EvidencePlace /\ FirstAttempts
  BY DEF BrowserInv, PlacesHold, RecordsHold
<1>2. /\ n \in Nat /\ DOMAIN run.log = 1..n /\ k \in Nat
      /\ run.checkpoint \in Checkpoints /\ run.checkpoint.step \in Nat
  BY <1>1, StateFacts
<1>3. /\ completed \in Nat \ {0} /\ k \in 1..completed + 1
      /\ run.result \in {"COMPLETED", "FAILED"}
      /\ run.result = "COMPLETED" <=> k > completed
  <2>1. completed \in Nat \ {0} /\ k \in 1..completed + 1
    BY <1>1, ScenarioFacts
  <2>2. /\ run.result \in {"COMPLETED", "FAILED"}
        /\ run.result = "COMPLETED" <=> k > completed
    BY <1>1 DEF PlacesHold, RunPlace, ScenarioPlace
  <2>. QED  BY <2>1, <2>2
<1>4. /\ \A i \in 1..n : run.log[i].step = IF failed THEN k - n + i ELSE k - n + i - 1
      /\ \A i \in 1..n : run.log[i].outcome = "FAILED" <=> i = n /\ failed
      /\ failed => n >= 1
  BY <1>1 DEF EvidencePlace
<1>5. /\ IF run.checkpoint.of = work.id THEN k = run.checkpoint.step + 1 ELSE k = 1
  BY <1>1 DEF PlacesHold, CheckpointPlace
<1>6. runs <= 1 => \A i \in 1..n : Tried(work.id, run.log[i].step) <= run.log[i].attempts
  BY <1>1, <1>2 DEF FirstAttempts
<1>7. \A i \in 1..n : run.log[i].step = run.log[1].step + i - 1
  <2> HIDE DEF n, k, failed
  <2>1. \A i \in 1..n : 1 \in 1..n
    BY <1>2
  <2>2. CASE failed
    BY <1>2, <1>4, <2>1, <2>2
  <2>3. CASE ~failed
    BY <1>2, <1>4, <2>1, <2>3
  <2>. QED  BY <2>2, <2>3
<1>8. run.result = "COMPLETED" => run.checkpoint = [of |-> work.id, step |-> completed]
  <2> SUFFICES ASSUME run.result = "COMPLETED"
               PROVE  run.checkpoint = [of |-> work.id, step |-> completed]
    OBVIOUS
  <2> HIDE DEF n, k, failed, completed
  <2>1. k = completed + 1 /\ k # 1
    BY <1>2, <1>3
  <2>2. run.checkpoint.of = work.id
    BY <1>5, <2>1
  <2>3. k = run.checkpoint.step + 1
    BY <1>5, <2>2
  <2>4. \A a, b \in Nat : a + 1 = b + 1 => a = b
    OBVIOUS
  <2>5. run.checkpoint.step = completed
    BY <1>2, <1>3, <2>1, <2>3, <2>4
  <2>. QED  BY <1>2, <2>2, <2>5 DEF Checkpoints
<1>9. run.result = "FAILED" => StartIndex(work, run.checkpoint) = LastOf(run.log).step
  <2> SUFFICES ASSUME failed
               PROVE  StartIndex(work, run.checkpoint) = LastOf(run.log).step
    OBVIOUS
  <2>1. StartIndex(work, run.checkpoint) = k
    BY <1>2, <1>5, StartIndexIs
  <2> HIDE DEF n, k, failed
  <2>2. n \in 1..n /\ k - n + n = k
    BY <1>2, <1>4
  <2>3. run.log[n].step = k
    BY <1>4, <2>2
  <2>. QED  BY <2>1, <2>3 DEF LastOf, n
<1>. QED  BY <1>2, <1>4, <1>6, <1>7, <1>8, <1>9 DEF EvidenceIsWhole

LEMMA TraceIsTold == BrowserInv => TraceIsWhole
<1> SUFFICES ASSUME BrowserInv, OfTask, run.at = "close"
             PROVE  TraceIsWhole
  BY DEF TraceIsWhole, OfTask
<1> DEFINE n == Len(run.log)
           k == run.step
           stopped == run.result # "COMPLETED"
           planned == Len(work.steps)
<1>1. PlacesHold /\ TypesHold /\ TracePlace /\ ActionsOfTask
  BY DEF BrowserInv, PlacesHold, RecordsHold
<1>2. n \in Nat /\ DOMAIN run.log = 1..n /\ k \in Nat
  BY <1>1, StateFacts
<1>3. /\ planned \in Nat \ {0} /\ k \in 1..planned + 1 /\ DOMAIN work.steps = 1..planned
      /\ ~stopped <=> k > planned
  <2>1. planned \in Nat \ {0} /\ k \in 1..planned + 1 /\ DOMAIN work.steps = 1..planned
    BY <1>1, TaskFacts
  <2>2. ~stopped <=> k > planned
    BY <1>1 DEF PlacesHold, RunPlace, TaskPlace
  <2>. QED  BY <2>1, <2>2
<1>4. /\ n = IF stopped THEN k ELSE k - 1
      /\ \A i \in 1..n : run.log[i].step = i /\ (run.log[i].outcome = "EXECUTED" <=> ~(stopped /\ i = n))
  BY <1>1 DEF TracePlace
<1>5. \A i \in OfRun : ActionInPlace(i)
  BY <1>1 DEF ActionsOfTask
<1>6. \A s \in 1..planned : s < k => \E i \in OfRun : acted[i].step = s
  BY <1>1, <1>3 DEF ActionsOfTask, Past
<1>7. /\ n \in 1..planned
      /\ \A s \in 1..planned : s <= k => s \in 1..n
      /\ \A i \in 1..n : i \in 1..planned /\ i <= k
      /\ \A i \in 1..n : ~(stopped /\ i = n) <=> i < k
      /\ \A i \in 1..n : i < n => i < k
      /\ ~stopped => \A s \in 1..planned : s < k
  <2> HIDE DEF n, k, planned, stopped
  <2>1. CASE stopped
    <3>1. n = k /\ k \in 1..planned
      BY <1>2, <1>3, <1>4, <2>1
    <3>. QED  BY <1>2, <1>3, <2>1, <3>1
  <2>2. CASE ~stopped
    <3>1. n = planned /\ k = planned + 1
      BY <1>2, <1>3, <1>4, <2>2
    <3>. QED  BY <1>2, <1>3, <2>2, <3>1
  <2>. QED  BY <2>1, <2>2
<1>8. ASSUME NEW i \in OfRun
      PROVE  /\ \A j \in OfRun : j < i => acted[j].step < acted[i].step
             /\ acted[i].of = work.id /\ acted[i].step \in 1..n
             /\ run.log[acted[i].step].outcome = IF acted[i].ok THEN "EXECUTED" ELSE "FAILED"
             /\ ApprovedBySomebodyElse(work.steps[acted[i].step])
  <2>1. /\ acted[i].of = work.id /\ acted[i].step \in 1..planned /\ acted[i].step <= k
        /\ acted[i].step < k => acted[i].ok
        /\ acted[i].step = k => ~acted[i].ok /\ run.log[k].outcome = "FAILED"
        /\ \A j \in OfRun : j < i => acted[j].step < acted[i].step
        /\ ApprovedBySomebodyElse(work.steps[acted[i].step])
    BY <1>3, <1>5 DEF ActionInPlace
  <2>2. acted[i].step \in 1..n
    BY <1>7, <2>1
  <2>3. acted[i].step < k \/ acted[i].step = k
    <3> HIDE DEF k, n, planned
    <3>. QED  BY <1>2, <1>3, <2>1
  <2>4. acted[i].step < k => run.log[acted[i].step].outcome = "EXECUTED"
    BY <1>4, <1>7, <2>2
  <2>. QED  BY <2>1, <2>2, <2>3, <2>4
<1>9. \A i \in 1..n :
        /\ run.log[i].step = i
        /\ run.log[i].outcome = "EXECUTED" => \E j \in OfRun : acted[j].step = i
        /\ i < n => run.log[i].outcome = "EXECUTED"
  BY <1>4, <1>6, <1>7
<1>10. run.result = "COMPLETED" => \A s \in 1..planned : \E i \in OfRun : acted[i].step = s
  BY <1>6, <1>7
<1>. QED  BY <1>2, <1>3, <1>8, <1>9, <1>10 DEF TraceIsWhole, ApprovedBySomebodyElse

LEMMA ActionsAreTold == BrowserInv => ActionsAreAllowed
<1> SUFFICES ASSUME AllowedActions, NEW i \in DOMAIN acted
             PROVE  AllowedStep(WorkOf(acted[i].of), WorkOf(acted[i].of).steps[acted[i].step])
  BY DEF BrowserInv, RecordsHold, ActionsAreAllowed, AllowedStep
<1>1. PICK given \in Works :
        acted[i].of = given.id /\ AllowedStep(given, given.steps[acted[i].step])
  BY DEF AllowedActions, AllowedStep
<1>2. WorkOf(acted[i].of) = given
  BY <1>1, SameId DEF WorkOf, Works
<1>. QED  BY <1>1, <1>2

LEMMA SkillsAreTold == BrowserInv => SkillsTellWhatTheyDid
<1> SUFFICES ASSUME BrowserInv PROVE SkillsTellWhatTheyDid
  OBVIOUS
<1>1. UndoingPlace /\ SkillPlace /\ CountsOfSkill
  BY DEF BrowserInv, PlacesHold, RecordsHold
<1>. QED  BY <1>1 DEF UndoingPlace, SkillPlace, CountsOfSkill, SkillsTellWhatTheyDid

LEMMA WhatIsToldWasDone == BrowserInv => RunsTellWhatTheyDid
BY ProgressIsTold, EvidenceIsTold, TraceIsTold, ActionsAreTold, SkillsAreTold DEF RunsTellWhatTheyDid

\* The browser workers and the skill runner tell what they did, whatever scenarios,
\* tasks and skills they are given and however their drivers, secrets, checkers and
\* processes fail: PlaywrightWorker.run resumes from the checkpoint it gave and tries a
\* click or a text once per run, its evidence and the trace of ComputerUseWorker.run are
\* of the steps they took, a risky step was approved by somebody else, nothing was done
\* off the allowlist, and SkillRunner.run tells COMPLETED only of a procedure done once.
THEOREM BrowserRunsAreTold == BrowserSpec => [](BrowserTypeOK /\ RunsTellWhatTheyDid)
<1>1. BrowserInit => BrowserInv
  BY BrowserStarts
<1>2. BrowserInv /\ [BrowserNext]_browserVars => BrowserInv'
  BY BrowserSteps, BrowserStays
<1>3. BrowserInv => BrowserTypeOK /\ RunsTellWhatTheyDid
  BY BrowserIsTyped, WhatIsToldWasDone
<1>. QED  BY <1>1, <1>2, <1>3, PTL DEF BrowserSpec
=============================================================================

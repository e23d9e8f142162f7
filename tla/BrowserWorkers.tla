--------------------------- MODULE BrowserWorkers ---------------------------
(***************************************************************************)
(* PlaywrightWorker.run, which a caller repeats from the checkpoint it got *)
(* back, ComputerUseWorker.run, and SkillRunner.run, which runs one of the *)
(* two between its preconditions and its validations, and another when     *)
(* that one fails.                                                         *)
(*                                                                         *)
(* One run at a time has the browser.  An action the driver fails may have *)
(* had its effect.  A run whose process dies, whose context cannot be      *)
(* closed or that throws otherwise tells its caller nothing.               *)
(***************************************************************************)
EXTENDS BrowserContracts

CONSTANTS
  Scenarios, ComputerTasks, Skills,   \* what callers pass, not all of it valid
  ToolManifests,                      \* the tool a skill was built for, as it is now
  ApprovalProofs, RequestingHuman,    \* and who asks for a run of computer use
  Hosts,                              \* where a screen may be; "" has no address
  MaxRuns,                            \* bound on the runs from one checkpoint to the next
  LastMoment                          \* bound on the time a run with a proof takes

Works == Scenarios \cup ComputerTasks
RunsOneOfThem(procedure) ==
  /\ procedure.kind = "PLAYWRIGHT" => procedure.work \in Scenarios
  /\ procedure.kind = "COMPUTER_USE" => procedure.work \in ComputerTasks

\* An id names one scenario or one task, their steps are a sequence, and what a skill
\* runs, and at most one procedure that rolls it back, is one of them.
ASSUME BrowserAssumption ==
  /\ MaxRuns \in Nat \ {0}
  /\ Scenarios \cap ComputerTasks = {}
  /\ \A given, other \in Works : given.id = other.id => given = other
  /\ \A given \in Works :
       given.steps \in Seq({given.steps[i] : i \in DOMAIN given.steps})
  /\ \A manifest \in Skills :
       /\ RunsOneOfThem(manifest.procedure)
       /\ \/ manifest.rollback = << >>
          \/ DOMAIN manifest.rollback = {1} /\ RunsOneOfThem(manifest.rollback[1])

VARIABLES
  work,             \* the scenario or task that runs or ran last
  run,              \* the run under way
  skill,            \* where SkillRunner.run is and how it ended
  held,             \* the checkpoint the caller has
  acted,            \* history: the driver's actions since the first run
  runs, lost        \* history: runs since then, and those whose progress was lost

browserVars == <<work, run, skill, held, acted, runs, lost>>

\* held and run.checkpoint: the scenario, and how many of its steps are completed.
NoCheckpoint == [of |-> "", step |-> 0]
\* result is COMPLETED, FAILED, REJECTED or ESCALATED_TO_HUMAN, log the evidence of
\* a Playwright run or the trace of one of computer use, now the time since it began.
NoRun == [worker |-> "none", at |-> "idle", step |-> 0, tries |-> 0, checkpoint |-> NoCheckpoint,
          log |-> << >>, proofs |-> {}, now |-> 0, result |-> "none"]
\* procedure and rollback are the results of the two runs.
NoSkill == [at |-> "idle", of |-> << >>, item |-> 0, workers |-> {}, procedure |-> "none",
            rollback |-> "none", outcome |-> "none"]
NoWork == [id |-> "", steps |-> << >>]

BrowserInit ==
  /\ work = NoWork /\ run = NoRun /\ skill = NoSkill /\ held = NoCheckpoint
  /\ acted = << >> /\ runs = 0 /\ lost = 0

\* A caller with work of its own, or a skill's procedure.
ByCaller == skill.at = "idle"
Step == work.steps[run.step]

\* A rollback may run what the procedure ran: its actions are told apart.
Undoing == skill.at = "rolling"
ActionsOn(id, s) ==
  {i \in DOMAIN acted : acted[i].of = id /\ acted[i].step = s /\ acted[i].undoing = Undoing}
Tried(id, s) == Cardinality(ActionsOn(id, s))
Succeeded(id, s) == Cardinality({i \in ActionsOn(id, s) : acted[i].ok})
Try(ok) ==
  acted' = Append(acted, [of |-> work.id, step |-> run.step, ok |-> ok, undoing |-> Undoing])

EndRun(result, entry) == run' = [run EXCEPT !.at = "close", !.result = result, !.log = Append(@, entry)]
Rejected == run' = [NoRun EXCEPT !.at = "return", !.result = "REJECTED"]
History(r, l) == runs' = r /\ lost' = l
FirstRun == held' = NoCheckpoint /\ acted' = << >> /\ History(1, 0)

-----------------------------------------------------------------------------
(* PlaywrightWorker.                                                       *)

IsSafelyRetryableAction_clicks(kind) == kind \in {"NAVIGATE", "WAIT_FOR", "ASSERT_TEXT", "CLICK"}
IsSafelyRetryableAction(kind) == kind \in {"NAVIGATE", "WAIT_FOR", "ASSERT_TEXT"}
MaxAttempts(step) == IF IsSafelyRetryableAction(step.kind) THEN work.maxStepAttempts ELSE 1

StartIndex_anyScenario(scenario, resumeFrom) == resumeFrom.step + 1
StartIndex(scenario, resumeFrom) ==
  IF resumeFrom.of = scenario.id THEN resumeFrom.step + 1 ELSE 1

\* A checkpoint of another scenario is not resumed from, and yet is handed on.
StartScenario(scenario, resumeFrom) ==
  /\ work' = scenario
  /\ run' = [NoRun EXCEPT !.worker = "PLAYWRIGHT", !.at = "step",
                          !.step = StartIndex(scenario, resumeFrom),
                          !.checkpoint = IF resumeFrom # NoCheckpoint THEN resumeFrom
                                         ELSE [of |-> scenario.id, step |-> 0]]

\* A first run, or one of that scenario or of another with the checkpoint the
\* caller holds; createIsolatedContext opens a profile of its own for each.
RunScenario(scenario) ==
  /\ ByCaller /\ run.at = "idle"
  /\ IF ValidScenario(scenario) THEN StartScenario(scenario, NoCheckpoint)
     ELSE Rejected /\ work' = NoWork
  /\ FirstRun
  /\ UNCHANGED skill
ResumeScenario(scenario) ==
  /\ ByCaller /\ run.at = "idle"
  /\ runs > 0 /\ runs < MaxRuns
  /\ ValidScenario(scenario)
  /\ StartScenario(scenario, held)
  /\ History(runs + 1, IF held.of \in {"", scenario.id} THEN lost ELSE lost + 1)
  /\ UNCHANGED <<skill, held, acted>>

Attempting == run.worker = "PLAYWRIGHT" /\ run.at = "step" /\ run.step <= Len(work.steps)
Forbidden == Step.kind = "NAVIGATE" /\ Step.host \notin work.allowedDomains

Evidence(outcome, error) ==
  [step |-> run.step, outcome |-> outcome, attempts |-> run.tries + 1, error |-> error]

StepSucceeds ==
  run' = [run EXCEPT !.at = "step", !.step = @ + 1, !.tries = 0,
                     !.checkpoint = [of |-> work.id, step |-> run.step],
                     !.log = Append(@, Evidence("SUCCEEDED", "none"))]
\* The worker takes a screenshot if it can, and the run ends.
StepFails(error) == EndRun("FAILED", Evidence("FAILED", error))
\* A session that expired ends the step at once, the last attempt ends it too.
AttemptFails(error) ==
  IF error = "RHIA_BROWSER_SESSION_EXPIRED" \/ run.tries + 1 >= MaxAttempts(Step)
  THEN StepFails(error)
  ELSE run' = [run EXCEPT !.at = "step", !.tries = @ + 1]

NavigateForbidden ==
  /\ Attempting /\ Forbidden
  /\ StepFails("RHIA_BROWSER_DOMAIN_FORBIDDEN")
  /\ UNCHANGED <<work, skill, held, acted, runs, lost>>

\* Of the strategies of the selector one finds an element, which is all a WAIT_FOR
\* wants, or none does, or the driver fails.
FindElement ==
  /\ Attempting /\ Step.kind # "NAVIGATE"
  /\ IF Step.kind = "WAIT_FOR" THEN StepSucceeds /\ Try(TRUE)
     ELSE /\ run' = [run EXCEPT !.at = IF Step.kind = "TYPE" /\ Step.input.kind = "SECRET_REF"
                                       THEN "resolve" ELSE "call"]
          /\ UNCHANGED acted
  /\ UNCHANGED <<work, skill, held, runs, lost>>
FindFails(thrown) ==
  /\ Attempting /\ Step.kind # "NAVIGATE"
  /\ AttemptFails(ClassifyStepError(thrown))
  /\ UNCHANGED <<work, skill, held, acted, runs, lost>>

Calling ==
  \/ run.worker = "PLAYWRIGHT" /\ run.at = "call"
  \/ Attempting /\ Step.kind = "NAVIGATE" /\ ~Forbidden

\* navigate, click, type, or readText and what it should read.
CallSucceeds ==
  /\ Calling
  /\ Try(TRUE) /\ StepSucceeds
  /\ UNCHANGED <<work, skill, held, runs, lost>>
CallFails(thrown) ==
  /\ Calling
  /\ Try(FALSE) /\ AttemptFails(ClassifyStepError(thrown))
  /\ UNCHANGED <<work, skill, held, runs, lost>>
AssertionFails ==
  /\ Calling /\ Step.kind = "ASSERT_TEXT"
  /\ Try(FALSE) /\ AttemptFails("RHIA_BROWSER_ASSERTION_FAILED")
  /\ UNCHANGED <<work, skill, held, runs, lost>>

ScenarioEnds ==
  /\ run.worker = "PLAYWRIGHT" /\ run.at = "step" /\ run.step > Len(work.steps)
  /\ run' = [run EXCEPT !.at = "close", !.result = "COMPLETED"]
  /\ UNCHANGED <<work, skill, held, acted, runs, lost>>

-----------------------------------------------------------------------------
(* ComputerUseWorker.                                                      *)

StartTask(task, proofs) ==
  /\ work' = task
  /\ run' = [NoRun EXCEPT !.worker = "COMPUTER_USE", !.at = "observe", !.step = 1, !.proofs = proofs]

RunTask(task, proofs) ==
  /\ ByCaller /\ run.at = "idle"
  /\ IF ValidTask(task) THEN StartTask(task, proofs) ELSE Rejected /\ work' = NoWork
  /\ held' = NoCheckpoint /\ acted' = << >> /\ History(0, 0)
  /\ UNCHANGED skill

RequiresApproval(risk) == risk \in {"HIGH", "CRITICAL"}

\* A proof is for a step of a task of an organization, given by somebody else; one
\* that never expires has no end.
ValidApproval(proof, step) ==
  /\ proof.taskId = work.id /\ proof.stepId = step.id
  /\ proof.organizationId = work.organizationId
  /\ proof.approvedBy # RequestingHuman
  /\ \/ proof.expiresAt = {}
     \/ \E end \in proof.expiresAt : end > run.now
Approved(step) == \E proof \in run.proofs : ValidApproval(proof, step)

Trace(outcome, error) == [step |-> run.step, outcome |-> outcome, error |-> error]
Observing == run.at = "observe" /\ run.step <= Len(work.steps)

\* What the driver observes: an unexpected modal, a host outside the allowlist,
\* or the page of the step, on which a high risk needs its approval.
ScreenBlocks(modal, host) ==
  /\ Observing
  /\ \/ modal
     \/ host \in work.allowedDomains /\ RequiresApproval(Step.riskLevel) /\ ~Approved(Step)
  /\ EndRun("ESCALATED_TO_HUMAN", Trace("BLOCKED", "none"))
  /\ UNCHANGED <<work, skill, held, acted, runs, lost>>
WrongPage(host) ==
  /\ Observing /\ host \notin work.allowedDomains
  /\ EndRun("FAILED", Trace("FAILED", "RHIA_COMPUTER_USE_DOMAIN_FORBIDDEN"))
  /\ UNCHANGED <<work, skill, held, acted, runs, lost>>
ScreenIsExpected(host) ==
  /\ Observing /\ host \in work.allowedDomains
  /\ RequiresApproval(Step.riskLevel) => Approved(Step)
  /\ run' = [run EXCEPT !.at = IF Step.kind = "TYPE" /\ Step.input.kind = "SECRET_REF"
                               THEN "resolve" ELSE "act"]
  /\ UNCHANGED <<work, skill, held, acted, runs, lost>>

\* moveAndClick, typeText, pressKey or wait; of a failure it is observed what it
\* left, if that can be.
ActionFails(thrown) ==
  /\ run.at = "act"
  /\ Try(FALSE)
  /\ EndRun("FAILED", Trace("FAILED", ClassifyTaskError(thrown)))
  /\ UNCHANGED <<work, skill, held, runs, lost>>
ActionSucceeds ==
  /\ run.at = "act"
  /\ Try(TRUE)
  /\ run' = [run EXCEPT !.at = "after"]
  /\ UNCHANGED <<work, skill, held, runs, lost>>

\* The action enters the trace when what followed has been observed too.
ObserveAfter ==
  /\ run.at = "after"
  /\ run' = [run EXCEPT !.at = "observe", !.step = @ + 1,
                        !.log = Append(@, Trace("EXECUTED", "none"))]
  /\ UNCHANGED <<work, skill, held, acted, runs, lost>>

TaskEnds ==
  /\ run.at = "observe" /\ run.step > Len(work.steps)
  /\ run' = [run EXCEPT !.at = "close", !.result = "COMPLETED"]
  /\ UNCHANGED <<work, skill, held, acted, runs, lost>>

ProofsAge ==
  /\ run.now < LastMoment /\ run.proofs # {}
  /\ run' = [run EXCEPT !.now = @ + 1]
  /\ UNCHANGED <<work, skill, held, acted, runs, lost>>

-----------------------------------------------------------------------------
(* The secrets of both.                                                    *)

ResolveSecret ==
  /\ run.at = "resolve"
  /\ run' = [run EXCEPT !.at = IF run.worker = "PLAYWRIGHT" THEN "call" ELSE "act"]
  /\ UNCHANGED <<work, skill, held, acted, runs, lost>>
\* The resolver throws, or there is none.
ResolveFails(thrown) ==
  /\ run.at = "resolve"
  /\ IF run.worker = "PLAYWRIGHT"
     THEN AttemptFails(IF thrown = "NoResolver" THEN "RHIA_BROWSER_SECRET_UNAVAILABLE"
                       ELSE ClassifyStepError(thrown))
     ELSE EndRun("FAILED", Trace("FAILED", ClassifyTaskError(thrown)))
  /\ UNCHANGED <<work, skill, held, acted, runs, lost>>

-----------------------------------------------------------------------------
(* SkillRunner.                                                            *)

EndSkill(outcome) == skill' = [skill EXCEPT !.at = "ended", !.outcome = outcome]

\* workers are those the runner was given.
RunSkill(manifest, tool, workers) ==
  /\ ByCaller /\ run.at = "idle"
  /\ skill' = IF ~ValidSkill(manifest) THEN [NoSkill EXCEPT !.at = "ended", !.outcome = "REJECTED"]
              ELSE IF IsSkillStale(manifest, tool)
              THEN [NoSkill EXCEPT !.at = "ended", !.outcome = "STALE"]
              ELSE [NoSkill EXCEPT !.at = "preconditions", !.of = manifest, !.item = 1,
                                   !.workers = workers]
  /\ work' = NoWork
  /\ held' = NoCheckpoint /\ acted' = << >> /\ History(0, 0)
  /\ UNCHANGED <<run>>

CheckPrecondition(ok) ==
  /\ skill.at = "preconditions" /\ skill.item <= skill.of.preconditions
  /\ IF ok THEN skill' = [skill EXCEPT !.item = @ + 1] ELSE EndSkill("PRECONDITION_FAILED")
  /\ UNCHANGED <<work, run, held, acted, runs, lost>>

\* Neither worker gets a checkpoint or an approval.
StartProcedure(procedure) ==
  IF procedure.kind = "PLAYWRIGHT" THEN StartScenario(procedure.work, NoCheckpoint)
  ELSE StartTask(procedure.work, {})

RunProcedure ==
  /\ skill.at = "preconditions" /\ skill.item > skill.of.preconditions
  /\ IF skill.of.procedure.kind \in skill.workers
     THEN skill' = [skill EXCEPT !.at = "procedure"] /\ StartProcedure(skill.of.procedure)
     ELSE EndSkill("UNEXPECTED_FAILURE") /\ UNCHANGED <<work, run>>
  /\ UNCHANGED <<held, acted, runs, lost>>

\* Tried once: how it ends is only reported.
RunRollback ==
  /\ skill.at = "rollback"
  /\ LET procedure == skill.of.rollback[1] IN
     IF procedure.kind \in skill.workers
     THEN skill' = [skill EXCEPT !.at = "rolling"] /\ StartProcedure(procedure)
     ELSE EndSkill("PROCEDURE_FAILED") /\ UNCHANGED <<work, run>>
  /\ UNCHANGED <<held, acted, runs, lost>>

CheckValidation(ok) ==
  /\ skill.at = "validations" /\ skill.item <= skill.of.validations
  /\ IF ~ok THEN EndSkill("VALIDATION_FAILED")
     ELSE IF skill.item < skill.of.validations THEN skill' = [skill EXCEPT !.item = @ + 1]
     ELSE EndSkill("COMPLETED")
  /\ UNCHANGED <<work, run, held, acted, runs, lost>>

AfterProcedure_escalatedGoesOn(result) ==
  IF result # "FAILED" THEN "validations"
  ELSE IF skill.of.rollback # << >> THEN "rollback"
  ELSE "ended"
AfterProcedure(result) ==
  IF result = "COMPLETED" THEN "validations"
  ELSE IF skill.of.rollback # << >> THEN "rollback"
  ELSE "ended"

ReturnSkill ==
  /\ skill.at = "ended"
  /\ skill' = NoSkill /\ work' = NoWork
  /\ held' = NoCheckpoint /\ acted' = << >> /\ History(0, 0)
  /\ UNCHANGED <<run>>

-----------------------------------------------------------------------------
(* How a run ends, whoever asked for it.                                   *)

\* The context is closed and the result returned: the caller has its checkpoint,
\* the skill goes on with what it tells.
ToSkill(result) ==
  IF skill.at = "rolling"
  THEN skill' = [skill EXCEPT !.at = "ended", !.outcome = "PROCEDURE_FAILED", !.rollback = result]
  ELSE skill' = [skill EXCEPT !.at = AfterProcedure(result), !.procedure = result, !.item = 1,
                              !.outcome = IF AfterProcedure(result) = "ended"
                                          THEN "PROCEDURE_FAILED" ELSE @]

CloseContext ==
  /\ run.at = "close"
  /\ run' = NoRun
  /\ IF ByCaller
     THEN /\ held' = IF run.worker = "PLAYWRIGHT" THEN run.checkpoint ELSE held
          /\ UNCHANGED skill
     ELSE ToSkill(run.result) /\ UNCHANGED held
  /\ UNCHANGED <<work, acted, runs, lost>>

ReturnRejected ==
  /\ run.at = "return"
  /\ run' = NoRun /\ History(0, 0)
  /\ UNCHANGED <<work, skill, held, acted>>

\* observe or closeContext throws: of a procedure that is an unexpected failure, which
\* no rollback follows, of a rollback nothing.
RunThrows ==
  /\ run.at \in {"observe", "after", "close"}
  /\ run' = NoRun
  /\ IF ByCaller THEN UNCHANGED skill
     ELSE IF skill.at = "rolling" THEN EndSkill("PROCEDURE_FAILED")
     ELSE EndSkill("UNEXPECTED_FAILURE")
  /\ History(runs, lost + 1)
  /\ UNCHANGED <<work, held, acted>>

\* Or a checker of the skill throws.
ProcessDies ==
  /\ run.at \notin {"idle", "return"} \/ skill.at \in {"preconditions", "rollback", "validations"}
  /\ run' = NoRun /\ skill' = NoSkill
  /\ IF ByCaller THEN History(runs, lost + 1) /\ UNCHANGED <<work, acted>>
     ELSE acted' = << >> /\ History(0, 0) /\ work' = NoWork
  /\ UNCHANGED <<held>>

BrowserNext ==
  \/ \E scenario \in Scenarios : RunScenario(scenario) \/ ResumeScenario(scenario)
  \/ NavigateForbidden \/ FindElement \/ CallSucceeds \/ AssertionFails \/ ScenarioEnds
  \/ \E thrown \in {"AbortError", "BrowserSelectorNotFoundError", "BrowserSessionExpiredError"} :
       FindFails(thrown)
  \/ \E thrown \in {"Error", "BrowserSessionExpiredError"} : CallFails(thrown)
  \/ \E task \in ComputerTasks : \E proof \in ApprovalProofs : RunTask(task, {proof}) \/ RunTask(task, {})
  \/ \E modal \in BOOLEAN, host \in Hosts : ScreenBlocks(modal, host)
  \/ \E host \in Hosts : WrongPage(host) \/ ScreenIsExpected(host)
  \/ \E thrown \in {"AbortError", "Error"} : ActionFails(thrown)
  \/ ActionSucceeds \/ ObserveAfter \/ TaskEnds \/ ProofsAge
  \/ ResolveSecret \/ \E thrown \in {"NoResolver", "AbortError"} : ResolveFails(thrown)
  \/ \E manifest \in Skills, tool \in ToolManifests :
       \E workers \in {{"COMPUTER_USE"}, {"PLAYWRIGHT", "COMPUTER_USE"}} : RunSkill(manifest, tool, workers)
  \/ \E ok \in BOOLEAN : CheckPrecondition(ok) \/ CheckValidation(ok)
  \/ RunProcedure \/ RunRollback \/ ReturnSkill
  \/ CloseContext \/ ReturnRejected \/ RunThrows \/ ProcessDies

BrowserSpec == BrowserInit /\ [][BrowserNext]_browserVars

-----------------------------------------------------------------------------
(* Properties.                                                             *)

BrowserTypeOK ==
  /\ run.worker \in {"none", "PLAYWRIGHT", "COMPUTER_USE"}
  /\ run.at \in {"idle", "step", "resolve", "call", "observe", "act", "after", "close", "return"}
  /\ run.result \in {"none", "COMPLETED", "FAILED", "REJECTED", "ESCALATED_TO_HUMAN"}
  /\ skill.at \in {"idle", "preconditions", "procedure", "rollback", "rolling", "validations", "ended"}
  /\ \/ held = NoCheckpoint
     \/ \E scenario \in Scenarios : held.of = scenario.id /\ held.step \in 0..Len(scenario.steps)
  /\ runs \in 0..MaxRuns /\ lost \in 0..2 * MaxRuns

LastOf(seq) == seq[Len(seq)]
WorkOf(id) == CHOOSE given \in Scenarios \cup ComputerTasks : given.id = id
OfRun == {k \in DOMAIN acted : acted[k].undoing = Undoing}

\* Over all the runs of a scenario, each with the checkpoint that the one before
\* told: a CLICK or TYPE is tried once per run, a step that succeeded is repeated
\* only after a run whose progress was lost, and what a checkpoint counts was done.
ProgressIsKept ==
  ByCaller => \A scenario \in Scenarios : \A s \in DOMAIN scenario.steps :
    /\ Succeeded(scenario.id, s) <= 1 + lost
    /\ scenario.steps[s].kind \in {"CLICK", "TYPE"} => Tried(scenario.id, s) <= runs
    /\ held.of = scenario.id /\ s <= held.step => Succeeded(scenario.id, s) >= 1

\* The evidence is of the steps in their order, of which only the last may have
\* failed, with no fewer attempts than actions; the checkpoint is where it failed.
EvidenceIsWhole ==
  run.worker = "PLAYWRIGHT" /\ run.at = "close" =>
    /\ \A i \in DOMAIN run.log :
         /\ run.log[i].step = run.log[1].step + i - 1
         /\ run.log[i].outcome = "FAILED" <=> i = Len(run.log) /\ run.result = "FAILED"
         /\ runs <= 1 => Tried(work.id, run.log[i].step) <= run.log[i].attempts
    /\ run.result = "COMPLETED" => run.checkpoint = [of |-> work.id, step |-> Len(work.steps)]
    /\ run.result = "FAILED" => StartIndex(work, run.checkpoint) = LastOf(run.log).step

\* What computer use tells is what it did, in its order, and a risky step it has
\* tried somebody else of the organization approved, which for a skill nobody does.
TraceIsWhole ==
  run.worker = "COMPUTER_USE" /\ run.at = "close" =>
    /\ \A i \in DOMAIN run.log :
         /\ run.log[i].step = i
         /\ run.log[i].outcome = "EXECUTED" => \E k \in OfRun : acted[k].step = i
         /\ i < Len(run.log) => run.log[i].outcome = "EXECUTED"
    /\ \A k \in OfRun :
         /\ \A j \in OfRun : j < k => acted[j].step < acted[k].step
         /\ acted[k].of = work.id /\ acted[k].step \in DOMAIN run.log
         /\ run.log[acted[k].step].outcome = IF acted[k].ok THEN "EXECUTED" ELSE "FAILED"
    /\ run.result = "COMPLETED" => \A s \in DOMAIN work.steps : \E k \in OfRun : acted[k].step = s
    /\ \A k \in OfRun : LET step == work.steps[acted[k].step] IN
         RequiresApproval(step.riskLevel) => \E proof \in run.proofs :
           /\ proof.stepId = step.id /\ proof.organizationId = work.organizationId
           /\ proof.approvedBy # RequestingHuman

\* Nothing typed looks like a credential, and nothing is done off the allowlist.
ActionsAreAllowed ==
  \A i \in DOMAIN acted : LET given == WorkOf(acted[i].of)
                              step == given.steps[acted[i].step] IN
    /\ step.kind = "NAVIGATE" => step.host \in given.allowedDomains
    /\ step.kind = "TYPE" /\ step.input.kind = "LITERAL" => ~LooksLikeRawSecret(step.input.value)

\* A skill is COMPLETED only when all its procedure was done, once; one that was
\* not run did nothing; and it is rolled back only after a procedure that told that
\* it had failed.
SkillsTellWhatTheyDid ==
  /\ skill.outcome \in {"REJECTED", "STALE", "PRECONDITION_FAILED"} => acted = << >>
  /\ skill.outcome \in {"COMPLETED", "VALIDATION_FAILED"} =>
       \A s \in DOMAIN skill.of.procedure.work.steps : Succeeded(skill.of.procedure.work.id, s) = 1
  /\ (\E i \in DOMAIN acted : acted[i].undoing) =>
       /\ skill.procedure \in {"FAILED", "ESCALATED_TO_HUMAN"}
       /\ skill.outcome \in {"none", "PROCEDURE_FAILED"}

\* Whoever is told how a run went can rely on it.
RunsTellWhatTheyDid ==
  ProgressIsKept /\ EvidenceIsWhole /\ TraceIsWhole /\ ActionsAreAllowed /\ SkillsTellWhatTheyDid
=============================================================================

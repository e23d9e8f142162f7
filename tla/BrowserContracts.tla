-------------------------- MODULE BrowserContracts --------------------------
(***************************************************************************)
(* What the browser workers are given, which may be the JSON of an agent:  *)
(* the scenarios of PlaywrightWorker, the tasks of ComputerUseWorker, the  *)
(* manifests of SkillRunner, and what validateScenario, validateTask and   *)
(* validateSkillManifest let through.                                      *)
(*                                                                         *)
(* A text is "" when it is empty and "credential" when it looks like one;  *)
(* a host is "" when the address it is read from is none.  Shapes, times   *)
(* and the wording of the errors are left out.                             *)
(***************************************************************************)
EXTENDS Naturals, Sequences, FiniteSets

\* A step of a scenario is [id, kind, host, selector, input, expected], one of a
\* task [id, riskLevel, kind, target, input]: fields a kind does not use are "".
SelectorKinds == {"testId", "role", "css", "text"}
StepActionKinds == {"NAVIGATE", "CLICK", "TYPE", "WAIT_FOR", "ASSERT_TEXT"}
ComputerUseActionKinds == {"MOVE_CLICK", "TYPE", "KEY_PRESS", "WAIT"}
RiskLevels == {"LOW", "MEDIUM", "HIGH", "CRITICAL"}

IsRobustSelector(strategies) ==
  /\ strategies \subseteq SelectorKinds
  /\ strategies \ {"text"} # {}

LooksLikeRawSecret(value) == value = "credential"

ValidInput_typesAnything(input) ==
  input.kind \in {"LITERAL", "SECRET_REF"} /\ input.value # ""

\* A TYPE takes a literal, which never looks like a credential, or a reference.
ValidInput(input) ==
  \/ input.kind = "LITERAL" /\ input.value # "" /\ ~LooksLikeRawSecret(input.value)
  \/ input.kind = "SECRET_REF" /\ input.value # ""

UniqueIds(steps) ==
  /\ \A i \in DOMAIN steps : steps[i].id # ""
  /\ \A i, j \in DOMAIN steps : steps[i].id = steps[j].id => i = j

\* The host of a NAVIGATE is looked for in allowedDomains when it is run.
ValidStep(step) ==
  /\ step.kind \in StepActionKinds
  /\ IF step.kind = "NAVIGATE" THEN step.host # "" ELSE IsRobustSelector(step.selector)
  /\ step.kind = "ASSERT_TEXT" => step.expected # ""
  /\ step.kind = "TYPE" => ValidInput(step.input)

ValidScenario(scenario) ==
  /\ scenario.id # ""
  /\ scenario.allowedDomains # {} /\ "" \notin scenario.allowedDomains
  /\ scenario.maxStepAttempts >= 1
  /\ scenario.steps # << >> /\ UniqueIds(scenario.steps)
  /\ \A i \in DOMAIN scenario.steps : ValidStep(scenario.steps[i])

ValidTaskStep(step) ==
  /\ step.riskLevel \in RiskLevels
  /\ step.kind \in ComputerUseActionKinds
  /\ step.kind # "WAIT" => step.target # ""
  /\ step.kind = "TYPE" => ValidInput(step.input)

ValidTask(task) ==
  /\ task.id # "" /\ task.organizationId # ""
  /\ task.allowedDomains # {} /\ "" \notin task.allowedDomains
  /\ task.maxSteps >= 1 /\ Len(task.steps) \in 1..task.maxSteps
  /\ UniqueIds(task.steps)
  /\ \A i \in DOMAIN task.steps : ValidTaskStep(task.steps[i])

ValidProcedure(procedure) ==
  \/ procedure.kind = "PLAYWRIGHT" /\ ValidScenario(procedure.work)
  \/ procedure.kind = "COMPUTER_USE" /\ ValidTask(procedure.work)

\* rollback is a sequence of at most one procedure, inputs the names of what goes in.
ValidSkill(skill) ==
  /\ skill.id # "" /\ skill.targetToolId # ""
  /\ skill.validations >= 1
  /\ ValidProcedure(skill.procedure)
  /\ \A i \in DOMAIN skill.rollback : ValidProcedure(skill.rollback[i])
  /\ \A name \in skill.inputs : name # "" /\ ~LooksLikeRawSecret(name)

\* What of a tool's manifest a skill was built against: its owner and risk are not in it.
ToolContractFingerprint(tool) ==
  [requiredCapability |-> tool.requiredCapability, allowedActions |-> tool.allowedActions,
   allowedDomains |-> tool.allowedDomains]
IsSkillStale(skill, tool) ==
  \/ skill.targetToolId # tool.id
  \/ skill.builtAgainst # ToolContractFingerprint(tool)

-----------------------------------------------------------------------------
(* The errors of a step.                                                   *)

\* What a driver or a resolver throws, by the name of its class; the worker's own
\* errors come classified.
ClassifyStepError(name) ==
  CASE name = "AbortError" -> "RHIA_WORKFLOW_TIMEOUT"
    [] name = "BrowserSelectorNotFoundError" -> "RHIA_BROWSER_SELECTOR_NOT_FOUND"
    [] name = "BrowserSessionExpiredError" -> "RHIA_BROWSER_SESSION_EXPIRED"
    [] OTHER -> "RHIA_BROWSER_UNEXPECTED_FAILURE"

ClassifyTaskError(name) ==
  IF name = "AbortError" THEN "RHIA_WORKFLOW_TIMEOUT" ELSE "RHIA_COMPUTER_USE_UNEXPECTED_FAILURE"
=============================================================================

---------------------------- MODULE JobContract -----------------------------
(***************************************************************************)
(* What the agent runtime promises of one job (docs/architecture/          *)
(* agent-runtime.md, Invariantes 1 to 5), without workers, leases, clocks  *)
(* or tables: the job is granted to one execution after another, at most   *)
(* Budget times; each step is recorded once, under the grant that holds    *)
(* the job; the job succeeds only with every step recorded and is buried   *)
(* only when the budget is spent; after that nothing happens to it.        *)
(***************************************************************************)
EXTENDS Naturals

CONSTANTS PlanSteps,   \* the steps of the job's plan
          Budget       \* executions a job may get

VARIABLES phase,       \* "ready", "granted", "succeeded" or "buried"
          grant,       \* number of executions granted so far
          recorded     \* steps whose result is recorded

contractVars == <<phase, grant, recorded>>

Start == phase = "ready" /\ grant = 0 /\ recorded = {}

\* To the first execution, to a retry, or to the one that takes over.
Grant ==
  /\ phase \in {"ready", "granted"}
  /\ grant < Budget
  /\ phase' = "granted"
  /\ grant' = grant + 1
  /\ UNCHANGED recorded

Record(s) ==
  /\ phase = "granted"
  /\ s \notin recorded
  /\ recorded' = recorded \cup {s}
  /\ UNCHANGED <<phase, grant>>

\* The attempt failed and another one is left.
Yield ==
  /\ phase = "granted"
  /\ grant < Budget
  /\ phase' = "ready"
  /\ UNCHANGED <<grant, recorded>>

Succeed ==
  /\ phase = "granted"
  /\ recorded = PlanSteps
  /\ phase' = "succeeded"
  /\ UNCHANGED <<grant, recorded>>

Bury ==
  /\ phase = "granted"
  /\ grant = Budget
  /\ phase' = "buried"
  /\ UNCHANGED <<grant, recorded>>

Advance == Grant \/ (\E s \in PlanSteps : Record(s)) \/ Yield \/ Succeed \/ Bury

Contract == Start /\ [][Advance]_contractVars
=============================================================================

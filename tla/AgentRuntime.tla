---------------------------- MODULE AgentRuntime ----------------------------
(***************************************************************************)
(* The recoverable job runtime of apps/agent-runtime: worker processes     *)
(* (runner.ts, worker.ts) that claim jobs from PostgreSQL under a lease,   *)
(* run them step by step, and can die at any point (store.ts).             *)
(*                                                                         *)
(* Every store operation is one transaction that begins by locking the job *)
(* row (FOR UPDATE, or the row lock of its UPDATE) and touches only rows   *)
(* of that job, so it is one atomic action here.  What is not atomic is    *)
(* the runner between two operations: its program counter, its immutable   *)
(* ClaimedJob and its heartbeat flag are variables of their own.           *)
(*                                                                         *)
(* An execution row, its lease token and its attempt number are created    *)
(* together by claim and never reused, so one number, the attempt, stands  *)
(* for the three.                                                          *)
(*                                                                         *)
(* Time.  lease_expires_at is compared with the local clock of whichever   *)
(* worker asks, sampled before the row lock is obtained.  lease[j] is what *)
(* the clocks say of it: "live" (every clock: not expired), "disputed"     *)
(* (some clocks say expired and some do not: skew or a stale sample) and   *)
(* "expired" (every clock).                                                *)
(***************************************************************************)
EXTENDS Naturals

CONSTANTS
  Jobs,          \* rows of rhia.job of one organization
  NoJob,         \* the absence of a job
  Workers,       \* worker processes
  NSteps,        \* length of the plan; the step keys are 1..NSteps
  ActionSteps,   \* the steps whose plan entry has an action to reserve
  Supported,     \* the jobs whose job_type has a plan
  Rank,          \* claim order: priority DESC, created_at, id
  Hashes,        \* values checkpointInputHash can take
  MaxRetries,    \* 3 in the source
  MaxAttempts    \* bound on the attempt numbers of a job

Steps == 1..NSteps
Attempts == 1..MaxAttempts
NoToken == 0     \* lease_token IS NULL
NoStep == 0      \* current_step IS NULL

ASSUME ConstantsAssumption ==
  /\ NoJob \notin Jobs
  /\ NSteps \in Nat
  /\ ActionSteps \subseteq Steps
  /\ Supported \subseteq Jobs
  /\ Rank \in [Jobs -> Nat]
  /\ MaxRetries \in Nat
  /\ MaxAttempts \in Nat
  /\ MaxAttempts > MaxRetries

VARIABLES
  status, retries,     \* rhia.job: status, retry_count
  token, lease,        \* rhia.job: lease_token, lease_expires_at
  waiting,             \* rhia.job: next_attempt_at lies in the future
  currentStep,         \* rhia.job: current_step
  lastAttempt,         \* rhia.execution: MAX(attempt) of the job, 0 if none
  execution,           \* rhia.execution: ended_at, outcome and error_code
  checkpoint,          \* rhia.job_step_checkpoint, one row per job and step
  action,              \* rhia.action: status of the action the row links to
  pc, claim, idx,      \* runOnce: where it is, its ClaimedJob, its step
  lost, err,           \* runOnce: lostError of the heartbeat, error to report
  performed            \* the outside world: attempts whose effect happened

jobVars == <<status, retries, token, lease, waiting, currentStep>>
execVars == <<lastAttempt, execution>>
stepVars == <<checkpoint, action>>
workerVars == <<pc, claim, idx, lost, err>>
vars == <<jobVars, execVars, stepVars, workerVars, performed>>

JobStatus == {"PENDING", "RUNNING", "RETRY_SCHEDULED", "SUCCEEDED", "DEAD_LETTER"}
LeasePhase == {"none", "live", "disputed", "expired"}
\* RETRYABLE and FINAL are the error codes of the catalogue by that flag.
ErrorClass == {"RETRYABLE", "FINAL"}
ExecutionState == {"ABSENT", "OPEN", "SUCCEEDED", "TIMEOUT", "EXHAUSTED"} \cup ErrorClass
StepStatus == {"ABSENT", "STARTED", "SUCCEEDED", "FAILED"}
ActionStatus == {"ABSENT", "PENDING", "SUCCEEDED", "FAILED"}
Location == {"idle", "check", "begin", "reserve", "execute", "complete", "finish", "fail"}
Checkpoint == [status : StepStatus, token : Attempts \cup {NoToken}, hash : Hashes \cup {"none"}]
ClaimedJob == [job : Jobs \cup {NoJob}, token : Attempts \cup {NoToken}, retries : 0..MaxRetries]

NoCheckpoint == [status |-> "ABSENT", token |-> NoToken, hash |-> "none"]
NoClaim == [job |-> NoJob, token |-> NoToken, retries |-> 0]

Init ==
  /\ status = [j \in Jobs |-> "PENDING"]
  /\ retries = [j \in Jobs |-> 0]
  /\ token = [j \in Jobs |-> NoToken]
  /\ lease = [j \in Jobs |-> "none"]
  /\ waiting = [j \in Jobs |-> FALSE]
  /\ currentStep = [j \in Jobs |-> NoStep]
  /\ lastAttempt = [j \in Jobs |-> 0]
  /\ execution = [j \in Jobs |-> [a \in Attempts |-> "ABSENT"]]
  /\ checkpoint = [j \in Jobs |-> [s \in Steps |-> NoCheckpoint]]
  /\ action = [j \in Jobs |-> [s \in Steps |-> "ABSENT"]]
  /\ pc = [w \in Workers |-> "idle"]
  /\ claim = [w \in Workers |-> NoClaim]
  /\ idx = [w \in Workers |-> 1]
  /\ lost = [w \in Workers |-> FALSE]
  /\ err = [w \in Workers |-> "none"]
  /\ performed = [j \in Jobs |-> [s \in Steps |-> {}]]

-----------------------------------------------------------------------------
(* What a statement's WHERE clause can see.                                *)

SeenValid(j) == lease[j] \in {"live", "disputed"}
SeenExpired_ignored(j) == lease[j] # "none"
SeenExpired(j) == lease[j] \in {"disputed", "expired"}

\* lease_token = $token AND status = 'RUNNING'
Holds_byIdOnly(c) == TRUE
Holds(c) == token[c.job] = c.token /\ status[c.job] = "RUNNING"

\* assertLease finds the row; in the disputed window it may also miss it.
LeaseAsserted_anyToken(c) == SeenValid(c.job)
LeaseAsserted(c) == Holds(c) /\ SeenValid(c.job)
LeaseRefused(c) == ~Holds(c) \/ SeenExpired(c.job)

\* The checkpoint row is STARTED under the token of this claim.
OwnsCheckpoint(c, s) ==
  checkpoint[c.job][s].token = c.token /\ checkpoint[c.job][s].status = "STARTED"

Exhausted(j) == status[j] = "RUNNING" /\ SeenExpired(j) /\ retries[j] >= MaxRetries

Claimable_neverRecovers(j) ==
  status[j] = "PENDING" \/ (status[j] = "RETRY_SCHEDULED" /\ ~waiting[j])
Claimable(j) ==
  \/ status[j] = "PENDING"
  \/ status[j] = "RETRY_SCHEDULED" /\ ~waiting[j]
  \/ status[j] = "RUNNING" /\ SeenExpired(j) /\ retries[j] < MaxRetries

\* UPDATE rhia.execution SET ended_at ... WHERE job_id = j AND ended_at IS NULL
CloseOpen_skipped(j, outcome) == execution[j]
CloseOpen(j, outcome) ==
  [a \in Attempts |-> IF execution[j][a] = "OPEN" THEN outcome ELSE execution[j][a]]

-----------------------------------------------------------------------------
(* How a runOnce goes on.                                                  *)

\* runOnce returns, or its process dies: nothing of it is left in memory.
Release(w) ==
  /\ pc' = [pc EXCEPT ![w] = "idle"]
  /\ claim' = [claim EXCEPT ![w] = NoClaim]
  /\ idx' = [idx EXCEPT ![w] = 1]
  /\ lost' = [lost EXCEPT ![w] = FALSE]
  /\ err' = [err EXCEPT ![w] = "none"]

Goto(w, location, step) ==
  /\ pc' = [pc EXCEPT ![w] = location]
  /\ idx' = [idx EXCEPT ![w] = step]
  /\ UNCHANGED <<claim, lost, err>>

\* The catch block: a lost lease is never reported to the store.
Throw(w, error) ==
  IF lost[w]
  THEN Release(w)
  ELSE /\ pc' = [pc EXCEPT ![w] = "fail"]
       /\ err' = [err EXCEPT ![w] = error]
       /\ UNCHANGED <<claim, idx, lost>>

\* The transaction committed: its answer arrives, or is lost with the
\* connection and surfaces as an error without a RHIA_ code.
Commit(w, location, step) == Goto(w, location, step) \/ Throw(w, "FINAL")

\* The transaction did not commit: nothing changed but the runner.
Rollback(w) == Throw(w, "FINAL") /\ UNCHANGED <<jobVars, execVars, stepVars>>

LeaseLost(w) == Release(w) /\ UNCHANGED <<jobVars, execVars, stepVars>>

-----------------------------------------------------------------------------
(* claim.  seen is the set of rows the transaction gets: not locked by     *)
(* another one (SKIP LOCKED) and, in the disputed window, expired by this  *)
(* worker's clock.  Its first statement buries the exhausted jobs, its     *)
(* second picks the first claimable one.                                   *)

Swept(seen) == {j \in seen : Exhausted(j)}
Ready(seen) == {j \in seen : Claimable(j)}
FirstOf(J) == {j \in J : \A k \in J : Rank[j] <= Rank[k]}

Sweep(f, J, value) == [j \in Jobs |-> IF j \in J THEN value ELSE f[j]]
SweptExecution(J) ==
  [j \in Jobs |-> IF j \in J THEN CloseOpen(j, "EXHAUSTED") ELSE execution[j]]

\* SELECT COALESCE(MAX(attempt), 0) + 1, and the new lease token with it.
NextAttempt_reused(j) == IF lastAttempt[j] = 0 THEN 1 ELSE lastAttempt[j]
NextAttempt(j) == lastAttempt[j] + 1

\* Taking over the expired lease of a RUNNING job costs a retry.
TakeoverCost(j) == IF status[j] = "RUNNING" THEN 1 ELSE 0

\* The retryCount of the returned ClaimedJob: of the row after the update.
ReturnedRetries(j) == retries[j] + TakeoverCost(j)

\* The claim of job j; a job taken over has its open executions closed.
Take(w, seen, j) ==
  LET attempt == NextAttempt(j)
      previous == IF status[j] = "RUNNING" THEN CloseOpen(j, "TIMEOUT") ELSE execution[j]
  IN
  /\ status' = [Sweep(status, Swept(seen), "DEAD_LETTER") EXCEPT ![j] = "RUNNING"]
  /\ token' = [Sweep(token, Swept(seen), NoToken) EXCEPT ![j] = attempt]
  /\ lease' = [Sweep(lease, Swept(seen), "none") EXCEPT ![j] = "live"]
  /\ execution' = [SweptExecution(Swept(seen)) EXCEPT ![j] = [previous EXCEPT ![attempt] = "OPEN"]]
  /\ lastAttempt' = [lastAttempt EXCEPT ![j] = attempt]
  /\ retries' = [retries EXCEPT ![j] = @ + TakeoverCost(j)]
  /\ waiting' = [waiting EXCEPT ![j] = FALSE]
  /\ currentStep' = [currentStep EXCEPT ![j] = NoStep]
  /\ claim' = [claim EXCEPT ![w] =
                 [job |-> j, token |-> attempt, retries |-> ReturnedRetries(j)]]
  /\ pc' = [pc EXCEPT ![w] = IF j \in Supported THEN "check" ELSE "fail"]
  /\ err' = [err EXCEPT ![w] = IF j \in Supported THEN "none" ELSE "FINAL"]
  /\ UNCHANGED <<idx, lost, stepVars, performed>>

ClaimJob(w, seen) ==
  /\ pc[w] = "idle"
  /\ \E j \in FirstOf(Ready(seen)) : Take(w, seen, j)

\* No candidate: runOnce returns IDLE, the sweep commits all the same.
ClaimNothing(w, seen) ==
  /\ pc[w] = "idle"
  /\ Ready(seen) = {}
  /\ status' = Sweep(status, Swept(seen), "DEAD_LETTER")
  /\ token' = Sweep(token, Swept(seen), NoToken)
  /\ lease' = Sweep(lease, Swept(seen), "none")
  /\ execution' = SweptExecution(Swept(seen))
  /\ UNCHANGED <<retries, waiting, currentStep, lastAttempt, stepVars, workerVars, performed>>

Poll(w, seen) == ClaimJob(w, seen) \/ ClaimNothing(w, seen)

-----------------------------------------------------------------------------
(* The loop over the steps of the plan.                                    *)

NextLocation_dropsLast(w) == IF idx[w] < NSteps THEN "begin" ELSE "finish"
NextLocation(w) == IF idx[w] \in Steps THEN "begin" ELSE "finish"

\* heartbeat.assertActive() before each step, and before finish.
Check(w) ==
  /\ pc[w] = "check"
  /\ IF lost[w] THEN Release(w) ELSE Goto(w, NextLocation(w), idx[w])
  /\ UNCHANGED <<jobVars, execVars, stepVars, performed>>

AfterBegin(s) == IF s \in ActionSteps THEN "reserve" ELSE "execute"

\* The row of a step begun by claim c; it may replace the one of an earlier attempt.
StartedRow_keepsToken(c, h, prior) ==
  [status |-> "STARTED", token |-> IF prior.status = "ABSENT" THEN c.token ELSE prior.token, hash |-> h]
StartedRow(c, h, prior) == [status |-> "STARTED", token |-> c.token, hash |-> h]

\* beginStep for a step whose input hashes to h.
BeginCommits(w, h) ==
  LET c == claim[w]
      s == idx[w]
      prior == checkpoint[c.job][s]
  IN
  /\ LeaseAsserted(c)
  /\ prior.status = "ABSENT" \/ prior.hash = h
  /\ IF prior.status = "SUCCEEDED"
     THEN Commit(w, "check", s + 1) /\ UNCHANGED <<checkpoint, currentStep>>
     ELSE /\ checkpoint' = [checkpoint EXCEPT ![c.job][s] = StartedRow(c, h, prior)]
          /\ currentStep' = [currentStep EXCEPT ![c.job] = s]
          /\ Commit(w, AfterBegin(s), s)
  /\ UNCHANGED <<status, retries, token, lease, waiting, execVars, action>>

\* The step key already belongs to another input.
OtherInput(w, h) ==
  LET prior == checkpoint[claim[w].job][idx[w]] IN
  prior.status # "ABSENT" /\ prior.hash # h

BeginStep(w) ==
  /\ pc[w] = "begin"
  /\ \/ \E h \in Hashes :
          \/ BeginCommits(w, h)
          \/ LeaseAsserted(claim[w]) /\ OtherInput(w, h) /\ Rollback(w)
     \/ Rollback(w)
     \/ LeaseRefused(claim[w]) /\ LeaseLost(w)
  /\ UNCHANGED performed

\* reserveAction: a new action, or the one an earlier attempt linked.
ReserveCommits(w) ==
  LET c == claim[w] s == idx[w] IN
  /\ LeaseAsserted(c) /\ OwnsCheckpoint(c, s)
  /\ action' = [action EXCEPT ![c.job][s] = "PENDING"]
  /\ Commit(w, "execute", s)
  /\ UNCHANGED <<jobVars, execVars, checkpoint>>

ReserveAction(w) ==
  /\ pc[w] = "reserve"
  /\ \/ ReserveCommits(w)
     \/ Rollback(w)
     \/ (LeaseRefused(claim[w]) \/ ~OwnsCheckpoint(claim[w], idx[w])) /\ LeaseLost(w)
  /\ UNCHANGED performed

Execute_swallowsErrors(w) ==
  /\ pc[w] = "execute"
  /\ Goto(w, "complete", idx[w])
  /\ performed' \in {performed, [performed EXCEPT ![claim[w].job][idx[w]] = @ \cup {claim[w].token}]}
  /\ UNCHANGED <<jobVars, execVars, stepVars>>

\* step.execute: it acts outside under the key of the checkpoint and returns,
\* or throws before or after having acted.  The signal is only advice.
Execute(w) ==
  LET c == claim[w]
      acted == [performed EXCEPT ![c.job][idx[w]] = @ \cup {c.token}]
  IN
  /\ pc[w] = "execute"
  /\ \/ /\ performed' = acted
        /\ IF lost[w] THEN Release(w) ELSE Goto(w, "complete", idx[w])
     \/ /\ performed' \in {performed, acted}
        /\ \E e \in ErrorClass : Throw(w, e)
  /\ UNCHANGED <<jobVars, execVars, stepVars>>

\* The action of a completed step, if it has one.
Completed_separately(a) == a
Completed(a) == IF a = "ABSENT" THEN a ELSE "SUCCEEDED"

\* completeStep: the checkpoint and its action, in one transaction.
CompleteCommits(w) ==
  LET c == claim[w] s == idx[w] IN
  /\ LeaseAsserted(c) /\ OwnsCheckpoint(c, s)
  /\ checkpoint' = [checkpoint EXCEPT ![c.job][s].status = "SUCCEEDED"]
  /\ action' = [action EXCEPT ![c.job][s] = Completed(@)]
  /\ Commit(w, "check", s + 1)
  /\ UNCHANGED <<jobVars, execVars>>

CompleteStep(w) ==
  /\ pc[w] = "complete"
  /\ \/ CompleteCommits(w)
     \/ Rollback(w)
     \/ (LeaseRefused(claim[w]) \/ ~OwnsCheckpoint(claim[w], idx[w])) /\ LeaseLost(w)
  /\ UNCHANGED performed

-----------------------------------------------------------------------------
(* The end of an attempt.  Neither statement looks at lease_expires_at.    *)

\* UPDATE rhia.execution ... WHERE id = $1 AND ended_at IS NULL
EndExecution(c, outcome) ==
  execution' = [execution EXCEPT ![c.job][c.token] = IF @ = "OPEN" THEN outcome ELSE @]

GiveUpLease(j) ==
  /\ token' = [token EXCEPT ![j] = NoToken]
  /\ lease' = [lease EXCEPT ![j] = "none"]
  /\ currentStep' = [currentStep EXCEPT ![j] = NoStep]

FinishCommits(w) ==
  LET c == claim[w] IN
  /\ Holds(c)
  /\ status' = [status EXCEPT ![c.job] = "SUCCEEDED"]
  /\ GiveUpLease(c.job)
  /\ EndExecution(c, "SUCCEEDED")
  /\ Release(w) \/ Throw(w, "FINAL")
  /\ UNCHANGED <<retries, waiting, lastAttempt, stepVars>>

Finish(w) ==
  /\ pc[w] = "finish"
  /\ FinishCommits(w) \/ Rollback(w) \/ (~Holds(claim[w]) /\ LeaseLost(w))
  /\ UNCHANGED performed

\* fail decides by the retryCount the claim returned, not by the row.
OutOfRetries(c) == c.retries >= MaxRetries

FailedSteps(c) == {s \in Steps : OwnsCheckpoint(c, s)}

\* The checkpoints of the attempt that were under way fail with their actions.
FailSteps(c) ==
  /\ checkpoint' = [checkpoint EXCEPT ![c.job] = [s \in Steps |->
       IF s \in FailedSteps(c) THEN [@[s] EXCEPT !.status = "FAILED"] ELSE @[s]]]
  /\ action' = [action EXCEPT ![c.job] = [s \in Steps |->
       IF s \in FailedSteps(c) /\ @[s] # "ABSENT" THEN "FAILED" ELSE @[s]]]

FailCommits(w) ==
  LET c == claim[w] IN
  /\ Holds(c)
  /\ status' = [status EXCEPT ![c.job] =
                  IF OutOfRetries(c) THEN "DEAD_LETTER" ELSE "RETRY_SCHEDULED"]
  /\ retries' = [retries EXCEPT ![c.job] = IF OutOfRetries(c) THEN @ ELSE @ + 1]
  /\ waiting' = [waiting EXCEPT ![c.job] = ~OutOfRetries(c)]
  /\ GiveUpLease(c.job)
  /\ FailSteps(c)
  /\ EndExecution(c, err[w])
  /\ Release(w)
  /\ UNCHANGED lastAttempt

\* An error of fail itself leaves runOnce and ends the worker process.
Fail(w) ==
  /\ pc[w] = "fail"
  /\ FailCommits(w) \/ LeaseLost(w)
  /\ UNCHANGED performed

-----------------------------------------------------------------------------
(* What happens beside the loop.                                           *)

\* The interval runs from the claim of a job with a plan to the end of runOnce;
\* at "fail" it is cleared, but the renewal under way may still commit.
Beating(w) == pc[w] # "idle" /\ claim[w].job \in Supported

\* renewLease commits; its answer may be lost.
RenewLease(w) ==
  /\ Beating(w)
  /\ LeaseAsserted(claim[w])
  /\ lease' = [lease EXCEPT ![claim[w].job] = "live"]
  /\ lost' \in {lost, [lost EXCEPT ![w] = TRUE]}
  /\ UNCHANGED <<status, retries, token, waiting, currentStep, execVars, stepVars,
                 pc, claim, idx, err, performed>>

\* Any error of the heartbeat counts as a lost lease: refused, or unreachable.
HeartbeatFails(w) ==
  /\ Beating(w)
  /\ ~lost[w]
  /\ lost' = [lost EXCEPT ![w] = TRUE]
  /\ UNCHANGED <<jobVars, execVars, stepVars, pc, claim, idx, err, performed>>

Crash(w) ==
  /\ pc[w] # "idle"
  /\ Release(w)
  /\ UNCHANGED <<jobVars, execVars, stepVars, performed>>

\* Time passes: first some clock reaches lease_expires_at, then every clock.
LeaseAges(j) ==
  /\ lease[j] \in {"live", "disputed"}
  /\ lease' = [lease EXCEPT ![j] = IF @ = "live" THEN "disputed" ELSE "expired"]
  /\ UNCHANGED <<status, retries, token, waiting, currentStep, execVars, stepVars,
                 workerVars, performed>>

\* next_attempt_at arrives.
BackoffElapses(j) ==
  /\ waiting[j]
  /\ waiting' = [waiting EXCEPT ![j] = FALSE]
  /\ UNCHANGED <<status, retries, token, lease, currentStep, execVars, stepVars,
                 workerVars, performed>>

-----------------------------------------------------------------------------
\* One step of the runOnce under way in w.
Step(w) ==
  \/ Check(w) \/ BeginStep(w) \/ ReserveAction(w) \/ Execute(w) \/ CompleteStep(w)
  \/ Finish(w) \/ Fail(w)

Next ==
  \/ \E w \in Workers :
       \/ \E seen \in SUBSET Jobs : Poll(w, seen)
       \/ Step(w)
       \/ RenewLease(w) \/ HeartbeatFails(w) \/ Crash(w)
  \/ \E j \in Jobs : LeaseAges(j) \/ BackoffElapses(j)

Spec == Init /\ [][Next]_vars

\* Time passes, a worker that runs an attempt goes on with it (execute returns
\* or throws), and some idle worker polls without its rows being locked.
Fairness ==
  /\ \A w \in Workers : WF_vars(Step(w))
  /\ WF_vars(\E w \in Workers : Poll(w, Jobs))
  /\ \A j \in Jobs : WF_vars(LeaseAges(j)) /\ WF_vars(BackoffElapses(j))

FairSpec == Spec /\ Fairness
-----------------------------------------------------------------------------
(* Properties.                                                             *)

TypeOK ==
  /\ status \in [Jobs -> JobStatus]
  /\ retries \in [Jobs -> 0..MaxRetries]
  /\ token \in [Jobs -> Attempts \cup {NoToken}]
  /\ lease \in [Jobs -> LeasePhase]
  /\ waiting \in [Jobs -> BOOLEAN]
  /\ currentStep \in [Jobs -> Steps \cup {NoStep}]
  /\ lastAttempt \in [Jobs -> 0..MaxAttempts]
  /\ execution \in [Jobs -> [Attempts -> ExecutionState]]
  /\ checkpoint \in [Jobs -> [Steps -> Checkpoint]]
  /\ action \in [Jobs -> [Steps -> ActionStatus]]
  /\ pc \in [Workers -> Location]
  /\ claim \in [Workers -> ClaimedJob]
  /\ idx \in [Workers -> 1..(NSteps + 1)]
  /\ lost \in [Workers -> BOOLEAN]
  /\ err \in [Workers -> ErrorClass \cup {"none"}]
  /\ performed \in [Jobs -> [Steps -> SUBSET Attempts]]

Ended(j) == status[j] \in {"SUCCEEDED", "DEAD_LETTER"}
HoldsNow(w) == claim[w].job # NoJob /\ Holds(claim[w])

\* "El execution anterior queda cerrado": an execution is open only while its
\* own lease token is on a RUNNING job, so a job has at most one, however many
\* crashes, takeovers and late answers came before.
OpenExecutionHoldsTheLease ==
  \A j \in Jobs, a \in Attempts :
    execution[j][a] = "OPEN" <=> (status[j] = "RUNNING" /\ token[j] = a)

\* "Nunca existe retry infinito": takeovers of expired leases and failed
\* attempts draw on one budget, so a job gets at most MaxRetries + 1 executions.
RetryBudget ==
  \A j \in Jobs :
    /\ lastAttempt[j] = retries[j] + (IF status[j] \in {"RUNNING", "SUCCEEDED", "DEAD_LETTER"}
                                      THEN 1 ELSE 0)
    /\ status[j] = "DEAD_LETTER" => retries[j] = MaxRetries

\* fail decides between retry and DEAD_LETTER by the retry count its worker
\* got at claim time: while that worker holds the job, it is the row's.
ClaimedRetriesAreCurrent ==
  \A w \in Workers : HoldsNow(w) => claim[w].retries = retries[claim[w].job]

\* Two workers never hold the same job, whatever their clocks say.
OneHolder ==
  \A v, w \in Workers : HoldsNow(v) /\ HoldsNow(w) /\ claim[v].job = claim[w].job => v = w

\* A worker about to run or record a step, that still holds the job, owns the
\* STARTED checkpoint of that step: the holder never runs a recorded step again.
HolderRunsUnrecordedSteps ==
  \A w \in Workers :
    HoldsNow(w) /\ pc[w] \in {"reserve", "execute", "complete"} => OwnsCheckpoint(claim[w], idx[w])

\* A step is recorded as SUCCEEDED only by the attempt that really performed it.
RecordedStepsWerePerformed ==
  \A j \in Jobs, s \in Steps :
    checkpoint[j][s].status = "SUCCEEDED" => checkpoint[j][s].token \in performed[j][s]

\* finish reads no checkpoint: that every step of a SUCCEEDED job is recorded,
\* by whichever attempts, rests on the runner's loop and on fencing alone.
SucceededJobsAreComplete ==
  \A j \in Jobs : status[j] = "SUCCEEDED" =>
    /\ j \in Supported
    /\ \A s \in Steps : checkpoint[j][s].status = "SUCCEEDED"

\* "El resultado de un step y su action/checkpoint se confirman en una sola
\* transaccion": the action of a step succeeds exactly when its checkpoint does.
ActionFollowsCheckpoint ==
  \A j \in Jobs, s \in ActionSteps :
    action[j][s] = "SUCCEEDED" <=> checkpoint[j][s].status = "SUCCEEDED"

\* What a checkpoint says is written under the lease token that is on the job,
\* never by a worker that lost it, and a SUCCEEDED one is written no more.
StepWritesAreFenced ==
  [][\A j \in Jobs, s \in Steps :
       <<checkpoint[j][s], action[j][s]>>' # <<checkpoint[j][s], action[j][s]>> =>
         /\ status[j] = "RUNNING"
         /\ checkpoint'[j][s].token = token[j]
         /\ checkpoint[j][s].status # "SUCCEEDED"]_vars

\* An ended job is never touched again by a zombie: none of its rows changes.
EndedJobsAreFrozen ==
  [][\A j \in Jobs : Ended(j) =>
       UNCHANGED <<status[j], retries[j], token[j], currentStep[j], lastAttempt[j],
                   execution[j], checkpoint[j], action[j]>>]_vars

\* While no clock says that its lease expired, only its holder ends a claim.
LeaseIsNotStolen ==
  [][\A j \in Jobs : lease[j] = "live" /\ token'[j] # token[j] =>
       \E w \in Workers : /\ claim[w].job = j /\ claim[w].token = token[j]
                          /\ pc[w] \in {"finish", "fail"}]_vars

\* Whatever crashes and whoever loses a lease, every job ends.
EveryJobEnds == \A j \in Jobs : <>[]Ended(j)

\* "El runtime solo reintenta cuando el catalogo marca retryable=true": a job
\* is not scheduled again after an attempt that ended with a final error.
OnlyRetryableErrorsRetry ==
  \A j \in Jobs : status[j] = "RETRY_SCHEDULED" => execution[j][lastAttempt[j]] # "FINAL"
-----------------------------------------------------------------------------
(* The inductive invariant behind the safety properties.                   *)

\* CONSTRAINT job_lease_complete, and which attempts can be on a job row.
LeaseShape ==
  \A j \in Jobs :
    /\ status[j] = "RUNNING" <=> token[j] # NoToken
    /\ lease[j] = "none" <=> token[j] = NoToken
    /\ token[j] <= lastAttempt[j]

\* What a worker knows of the job it claimed, held or not.
ClaimShape(w) ==
  IF pc[w] = "idle"
  THEN claim[w] = NoClaim /\ idx[w] = 1
  ELSE /\ claim[w].job \in Jobs
       /\ claim[w].token \in 1..lastAttempt[claim[w].job]
       /\ pc[w] = "fail" => err[w] \in ErrorClass
       /\ pc[w] # "fail" => claim[w].job \in Supported
       /\ Holds(claim[w]) => claim[w].retries = retries[claim[w].job]

\* Where a worker is in its plan: every step before idx is recorded.
LoopShape(w) ==
  /\ pc[w] \in {"begin", "reserve", "execute", "complete"} => idx[w] \in Steps
  /\ pc[w] = "reserve" => idx[w] \in ActionSteps
  /\ pc[w] = "finish" => idx[w] = NSteps + 1
  /\ pc[w] = "complete" => claim[w].token \in performed[claim[w].job][idx[w]]
  /\ pc[w] # "idle" =>
       \A s \in Steps : s < idx[w] => checkpoint[claim[w].job][s].status = "SUCCEEDED"

\* What the holder of a job may rely on about the step it is at.
StepShape(w) ==
  pc[w] # "idle" /\ Holds(claim[w]) =>
    /\ pc[w] \in {"reserve", "execute", "complete"} => OwnsCheckpoint(claim[w], idx[w])
    /\ pc[w] \in {"execute", "complete"} /\ idx[w] \in ActionSteps =>
         action[claim[w].job][idx[w]] # "ABSENT"

\* No attempt is ever in the hands of two workers.
TokensDistinct ==
  \A v, w \in Workers :
    pc[v] # "idle" /\ pc[w] # "idle" /\ claim[v].job = claim[w].job
      /\ claim[v].token = claim[w].token => v = w

Local(w) == ClaimShape(w) /\ LoopShape(w) /\ StepShape(w)

\* Everything above: with it every step of the runtime re-establishes itself.
IInv ==
  /\ TypeOK
  /\ LeaseShape
  /\ OpenExecutionHoldsTheLease
  /\ RetryBudget
  /\ RecordedStepsWerePerformed
  /\ SucceededJobsAreComplete
  /\ ActionFollowsCheckpoint
  /\ TokensDistinct
  /\ \A w \in Workers : Local(w)

-----------------------------------------------------------------------------
(* The runtime implements JobContract for every job.                       *)

PhaseOf(j) ==
  CASE status[j] = "RUNNING" -> "granted"
    [] status[j] = "SUCCEEDED" -> "succeeded"
    [] status[j] = "DEAD_LETTER" -> "buried"
    [] OTHER -> "ready"

RecordedOf(j) == {s \in Steps : checkpoint[j][s].status = "SUCCEEDED"}

Of(j) == INSTANCE JobContract WITH
  PlanSteps <- Steps, Budget <- MaxRetries + 1,
  phase <- PhaseOf(j), grant <- lastAttempt[j], recorded <- RecordedOf(j)

\* Seen from outside, every job goes the way the contract says: it starts as
\* Contract does and each step is one of the contract's or leaves it alone.
ImplementsContract ==
  /\ \A j \in Jobs : Of(j)!Start
  /\ [][\A j \in Jobs : Of(j)!Advance \/ UNCHANGED Of(j)!contractVars]_vars

=============================================================================

------------------------ MODULE AgentRuntime_proofs -------------------------
(* Proofs about AgentRuntime, for every set of jobs and workers, every     *)
(* plan and every retry limit.                                             *)
EXTENDS AgentRuntime, TLAPS

\* What a step of somebody else may do to the tables behind worker v: they
\* only move forward for its job, and nothing is done under its lease.
Respects(v) ==
  /\ lastAttempt[claim[v].job] <= lastAttempt'[claim[v].job]
  /\ \A s \in Steps :
       /\ checkpoint[claim[v].job][s].status = "SUCCEEDED" =>
            checkpoint'[claim[v].job][s].status = "SUCCEEDED"
       /\ performed[claim[v].job][s] \subseteq performed'[claim[v].job][s]
  /\ Holds(claim[v])' =>
       /\ Holds(claim[v])
       /\ retries'[claim[v].job] = retries[claim[v].job]
       /\ checkpoint'[claim[v].job] = checkpoint[claim[v].job]
       /\ action'[claim[v].job] = action[claim[v].job]

Stays(v) == pc'[v] = pc[v] /\ claim'[v] = claim[v] /\ idx'[v] = idx[v] /\ err'[v] = err[v]

\* Worker w ends its runOnce, or goes on with the same claim.
KeepsClaim(w) == pc'[w] = "idle" \/ (pc[w] # "idle" /\ claim'[w] = claim[w])

\* A worker that does not move keeps its local invariant when it is respected.
LEMMA Bystander ==
  ASSUME NEW v \in Workers, TypeOK, TypeOK', Local(v), Stays(v), pc[v] # "idle" => Respects(v)
  PROVE  Local(v)'
<1>1. CASE pc[v] = "idle"
  BY <1>1 DEF Local, ClaimShape, LoopShape, StepShape, Stays
<1>2. CASE pc[v] # "idle"
  <2>1. claim[v].job \in Jobs
    BY <1>2 DEF Local, ClaimShape
  <2>2. ClaimShape(v)'
    BY <1>2, <2>1 DEF Local, ClaimShape, TypeOK, ClaimedJob, Attempts, Stays, Respects
  <2>3. LoopShape(v)'
    BY <1>2, <2>1 DEF Local, LoopShape, TypeOK, Stays, Respects
  <2>4. StepShape(v)'
    BY <1>2, <2>1 DEF Local, StepShape, OwnsCheckpoint, Stays, Respects
  <2>5. QED
    BY <2>2, <2>3, <2>4 DEF Local
<1>3. QED
  BY <1>1, <1>2

\* A worker whose runOnce ended knows nothing that could be wrong.
LEMMA ReleasedLocal ==
  ASSUME NEW w \in Workers, TypeOK, Release(w)
  PROVE  Local(w)' /\ pc'[w] = "idle"
BY DEF Release, Local, ClaimShape, LoopShape, StepShape, TypeOK

\* Claim c holds its job after the step.
HeldAfter(c) == token'[c.job] = c.token /\ status'[c.job] = "RUNNING"

\* A worker in its catch block keeps what it knows of its claim.
LEMMA ThrownLocal ==
  ASSUME NEW w \in Workers, NEW e \in ErrorClass, TypeOK, TypeOK', Local(w), pc[w] # "idle",
         Throw(w, e),
         lastAttempt[claim[w].job] <= lastAttempt'[claim[w].job],
         \A s \in Steps : checkpoint[claim[w].job][s].status = "SUCCEEDED" =>
                            checkpoint'[claim[w].job][s].status = "SUCCEEDED",
         HeldAfter(claim[w]) =>
           Holds(claim[w]) /\ retries'[claim[w].job] = retries[claim[w].job]
  PROVE  Local(w)'
<1>1. CASE lost[w]
  BY <1>1, ReleasedLocal DEF Throw, Release, TypeOK
<1>2. CASE ~lost[w]
  <2>1. /\ pc'[w] = "fail" /\ err'[w] = e /\ claim'[w] = claim[w] /\ idx'[w] = idx[w]
    BY <1>2 DEF Throw, TypeOK
  <2>2. claim[w].job \in Jobs
    BY DEF Local, ClaimShape
  <2>3. ClaimShape(w)'
    BY <2>1, <2>2 DEF Local, ClaimShape, TypeOK, ClaimedJob, Attempts, Holds, HeldAfter
  <2>4. LoopShape(w)'
    BY <2>1, <2>2 DEF Local, LoopShape, TypeOK
  <2>5. StepShape(w)'
    BY <2>1 DEF StepShape
  <2>6. QED
    BY <2>1, <2>3, <2>4, <2>5 DEF Local
<1>3. QED
  BY <1>1, <1>2

\* The workers after a step of w that starts no claim.
LEMMA WorkersAfter ==
  ASSUME NEW w \in Workers, IInv, TypeOK', Local(w)', KeepsClaim(w),
         \A v \in Workers \ {w} : Stays(v) /\ (pc[v] # "idle" => Respects(v))
  PROVE  TokensDistinct' /\ \A v \in Workers : Local(v)'
<1>1. \A v \in Workers : Local(v)'
  BY Bystander DEF IInv
<1>2. TokensDistinct'
  BY DEF TokensDistinct, IInv, KeepsClaim, Stays
<1>3. QED
  BY <1>1, <1>2

\* A step that leaves the rows alone: only the runner of w, clocks, and the
\* outside world move.
LEMMA RowsUntouched ==
  ASSUME NEW w \in Workers, IInv, TypeOK', LeaseShape', Local(w)', KeepsClaim(w),
         \A v \in Workers \ {w} : Stays(v),
         UNCHANGED <<status, retries, token, lastAttempt, execution, checkpoint, action>>,
         \A j \in Jobs, s \in Steps : performed[j][s] \subseteq performed'[j][s]
  PROVE  IInv'
<1>1. \A v \in Workers \ {w} : pc[v] # "idle" => Respects(v)
  BY DEF Respects, Stays, Holds, IInv, Local, ClaimShape, TypeOK
<1>2. OpenExecutionHoldsTheLease' /\ RetryBudget' /\ SucceededJobsAreComplete'
      /\ ActionFollowsCheckpoint'
  BY DEF IInv, OpenExecutionHoldsTheLease, RetryBudget, SucceededJobsAreComplete,
         ActionFollowsCheckpoint
<1>3. RecordedStepsWerePerformed'
  BY DEF IInv, RecordedStepsWerePerformed
<1>4. QED
  BY <1>1, <1>2, <1>3, WorkersAfter DEF IInv

\* The runner of w as the step operators leave it.
LEMMA RunnerMoves ==
  ASSUME NEW w \in Workers, TypeOK, pc[w] # "idle",
         \/ Release(w)
         \/ \E e \in ErrorClass : Throw(w, e)
         \/ \E l \in Location, s \in 1..(NSteps + 1) : Goto(w, l, s)
  PROVE  /\ pc' \in [Workers -> Location]
         /\ claim' \in [Workers -> ClaimedJob]
         /\ idx' \in [Workers -> 1..(NSteps + 1)]
         /\ lost' \in [Workers -> BOOLEAN]
         /\ err' \in [Workers -> ErrorClass \cup {"none"}]
         /\ KeepsClaim(w)
         /\ \A v \in Workers \ {w} : Stays(v)
<1>1. CASE Release(w)
  BY <1>1, ConstantsAssumption
     DEF ConstantsAssumption, Release, TypeOK, KeepsClaim, Stays, NoClaim, ClaimedJob, Location
<1>2. CASE \E e \in ErrorClass : Throw(w, e)
  BY <1>1, <1>2 DEF Throw, TypeOK, KeepsClaim, Stays, Location
<1>3. CASE \E l \in Location, s \in 1..(NSteps + 1) : Goto(w, l, s)
  BY <1>3 DEF Goto, TypeOK, KeepsClaim, Stays
<1>4. QED
  BY <1>1, <1>2, <1>3

LEMMA LeaseLostPreserves ==
  ASSUME NEW w \in Workers, IInv, pc[w] # "idle", LeaseLost(w), UNCHANGED performed
  PROVE  IInv'
<1>1. TypeOK' /\ KeepsClaim(w) /\ \A v \in Workers \ {w} : Stays(v)
  BY RunnerMoves DEF LeaseLost, IInv, TypeOK, jobVars, execVars, stepVars
<1>2. Local(w)'
  BY ReleasedLocal DEF LeaseLost, IInv
<1>3. LeaseShape'
  BY DEF IInv, LeaseShape, LeaseLost, jobVars, execVars
<1>4. QED
  BY <1>1, <1>2, <1>3, RowsUntouched DEF LeaseLost, jobVars, execVars, stepVars

\* Throwing without having changed a row, whatever happened outside.
LEMMA ThrowPreserves ==
  ASSUME NEW w \in Workers, NEW e \in ErrorClass, IInv, pc[w] # "idle", Throw(w, e),
         UNCHANGED <<jobVars, execVars, stepVars>>,
         performed' \in [Jobs -> [Steps -> SUBSET Attempts]],
         \A j \in Jobs, s \in Steps : performed[j][s] \subseteq performed'[j][s]
  PROVE  IInv'
<1>1. TypeOK' /\ KeepsClaim(w) /\ \A v \in Workers \ {w} : Stays(v)
  BY RunnerMoves DEF IInv, TypeOK, jobVars, execVars, stepVars
<1>2. claim[w].job \in Jobs /\ lastAttempt[claim[w].job] <= lastAttempt'[claim[w].job]
  BY DEF IInv, TypeOK, Local, ClaimShape, execVars
<1>3. Local(w)'
  BY <1>1, <1>2, ThrownLocal DEF IInv, Holds, HeldAfter, jobVars, stepVars
<1>4. LeaseShape'
  BY DEF IInv, LeaseShape, jobVars, execVars
<1>5. QED
  BY <1>1, <1>3, <1>4, RowsUntouched DEF jobVars, execVars, stepVars

LEMMA RollbackPreserves ==
  ASSUME NEW w \in Workers, IInv, pc[w] # "idle", Rollback(w), UNCHANGED performed
  PROVE  IInv'
BY ThrowPreserves DEF Rollback, ErrorClass, IInv, TypeOK

-----------------------------------------------------------------------------
(* The steps beside the loop.                                              *)

LEMMA NobodyMoves ==
  ASSUME IInv, TypeOK', LeaseShape',
         UNCHANGED <<status, retries, token, execVars, stepVars, pc, claim, idx, err, performed>>
  PROVE  IInv'
<1>1. \A w \in Workers : Local(w)'
  BY DEF IInv, Local, ClaimShape, LoopShape, StepShape, Holds, OwnsCheckpoint, execVars, stepVars
<1>2. TokensDistinct' /\ OpenExecutionHoldsTheLease' /\ RetryBudget' /\ SucceededJobsAreComplete'
  BY DEF IInv, TokensDistinct, OpenExecutionHoldsTheLease, RetryBudget, SucceededJobsAreComplete,
         execVars, stepVars
<1>3. ActionFollowsCheckpoint' /\ RecordedStepsWerePerformed'
  BY DEF IInv, ActionFollowsCheckpoint, RecordedStepsWerePerformed, stepVars
<1>4. QED
  BY <1>1, <1>2, <1>3 DEF IInv

LEMMA RenewLeasePreserves ==
  ASSUME NEW w \in Workers, IInv, RenewLease(w)
  PROVE  IInv'
<1>1. claim[w].job \in Jobs /\ Holds(claim[w]) /\ token[claim[w].job] # NoToken
  BY DEF RenewLease, Beating, LeaseAsserted, Holds, IInv, Local, ClaimShape, LeaseShape
<1>2. TypeOK'
  BY <1>1 DEF RenewLease, IInv, TypeOK, LeasePhase, execVars, stepVars
<1>3. LeaseShape'
  BY <1>1 DEF RenewLease, IInv, TypeOK, LeaseShape, execVars
<1>4. QED
  BY <1>2, <1>3, NobodyMoves DEF RenewLease

LEMMA HeartbeatFailsPreserves ==
  ASSUME NEW w \in Workers, IInv, HeartbeatFails(w)
  PROVE  IInv'
<1>1. TypeOK'
  BY DEF HeartbeatFails, IInv, TypeOK, jobVars, execVars, stepVars
<1>2. LeaseShape'
  BY DEF HeartbeatFails, IInv, LeaseShape, jobVars, execVars
<1>3. QED
  BY <1>1, <1>2, NobodyMoves DEF HeartbeatFails, jobVars

LEMMA CrashPreserves ==
  ASSUME NEW w \in Workers, IInv, Crash(w)
  PROVE  IInv'
BY LeaseLostPreserves DEF Crash, LeaseLost

LEMMA LeaseAgesPreserves ==
  ASSUME NEW j \in Jobs, IInv, LeaseAges(j)
  PROVE  IInv'
<1>1. TypeOK'
  BY DEF LeaseAges, IInv, TypeOK, LeasePhase, execVars, stepVars, workerVars
<1>2. LeaseShape'
  BY DEF LeaseAges, IInv, TypeOK, LeaseShape, execVars
<1>3. QED
  BY <1>1, <1>2, NobodyMoves DEF LeaseAges, workerVars

LEMMA BackoffElapsesPreserves ==
  ASSUME NEW j \in Jobs, IInv, BackoffElapses(j)
  PROVE  IInv'
<1>1. TypeOK'
  BY DEF BackoffElapses, IInv, TypeOK, execVars, stepVars, workerVars
<1>2. LeaseShape'
  BY DEF BackoffElapses, IInv, LeaseShape, execVars
<1>3. QED
  BY <1>1, <1>2, NobodyMoves DEF BackoffElapses, workerVars

-----------------------------------------------------------------------------
(* The steps of the loop.                                                  *)

LEMMA CheckPreserves ==
  ASSUME NEW w \in Workers, IInv, Check(w)
  PROVE  IInv'
<1>1. CASE lost[w]
  BY <1>1, LeaseLostPreserves DEF Check, LeaseLost
<1>2. CASE ~lost[w]
  <2>1. PICK l \in {"begin", "finish"} : /\ l = (IF idx[w] \in Steps THEN "begin" ELSE "finish")
                                        /\ Goto(w, l, idx[w])
    BY <1>2 DEF Check, NextLocation
  <2>2. TypeOK' /\ KeepsClaim(w) /\ \A v \in Workers \ {w} : Stays(v)
    BY <2>1, RunnerMoves DEF Check, IInv, TypeOK, Location, jobVars, execVars, stepVars
  <2>3. LeaseShape'
    BY DEF Check, IInv, LeaseShape, jobVars, execVars
  <2>4. pc'[w] = l /\ idx'[w] = idx[w] /\ claim'[w] = claim[w] /\ err'[w] = err[w]
    BY <2>1 DEF Goto, IInv, TypeOK
  <2>5. idx[w] \in Steps \/ idx[w] = NSteps + 1
    <3>1. idx[w] \in 1..(NSteps + 1) /\ NSteps \in Nat
      BY ConstantsAssumption DEF ConstantsAssumption, IInv, TypeOK
    <3>2. QED
      BY <3>1 DEF Steps
  <2>6. Local(w)'
    BY <2>1, <2>4, <2>5
       DEF Check, IInv, Local, ClaimShape, LoopShape, StepShape, Holds, jobVars, execVars, stepVars
  <2>7. QED
    BY <2>2, <2>3, <2>6, RowsUntouched DEF Check, jobVars, execVars, stepVars
<1>3. QED
  BY <1>1, <1>2

LEMMA ExecutePreserves ==
  ASSUME NEW w \in Workers, IInv, Execute(w)
  PROVE  IInv'
<1> DEFINE acted == [performed EXCEPT ![claim[w].job][idx[w]] = @ \cup {claim[w].token}]
<1>1. /\ pc[w] = "execute" /\ claim[w].job \in Jobs /\ idx[w] \in Steps
      /\ claim[w].token \in Attempts
  BY ConstantsAssumption
     DEF ConstantsAssumption, Execute, IInv, TypeOK, Local, ClaimShape, LoopShape, Attempts
<1>2. /\ acted \in [Jobs -> [Steps -> SUBSET Attempts]]
      /\ claim[w].token \in acted[claim[w].job][idx[w]]
      /\ \A j \in Jobs, s \in Steps : performed[j][s] \subseteq acted[j][s]
  BY <1>1 DEF IInv, TypeOK
<1>3. performed' \in {performed, acted}
  BY DEF Execute
<1>4. ASSUME NEW e \in ErrorClass, Throw(w, e)
      PROVE  IInv'
  BY <1>1, <1>2, <1>3, <1>4, ThrowPreserves DEF Execute, IInv, TypeOK
<1>5. CASE performed' = acted /\ (IF lost[w] THEN Release(w) ELSE Goto(w, "complete", idx[w]))
  <2>1. TypeOK' /\ KeepsClaim(w) /\ \A v \in Workers \ {w} : Stays(v)
    BY <1>1, <1>2, <1>5, RunnerMoves
       DEF Execute, IInv, TypeOK, Location, jobVars, execVars, stepVars
  <2>2. LeaseShape'
    BY DEF Execute, IInv, LeaseShape, jobVars, execVars
  <2>3. Local(w)'
    <3>1. CASE lost[w]
      BY <1>5, <3>1, ReleasedLocal DEF IInv
    <3>2. CASE ~lost[w]
      <4>1. pc'[w] = "complete" /\ idx'[w] = idx[w] /\ claim'[w] = claim[w] /\ err'[w] = err[w]
        BY <1>5, <3>2 DEF Goto, IInv, TypeOK
      <4>2. QED
        BY <1>1, <1>2, <1>5, <4>1
           DEF Execute, IInv, Local, ClaimShape, LoopShape, StepShape, Holds, OwnsCheckpoint,
               jobVars, execVars, stepVars
    <3>3. QED
      BY <3>1, <3>2
  <2>4. QED
    BY <1>2, <1>5, <2>1, <2>2, <2>3, RowsUntouched DEF Execute, jobVars, execVars, stepVars
<1>6. QED
  BY <1>4, <1>5 DEF Execute

\* A step of the holder under its own claim: it may write the step rows of its
\* job and nothing else, so every other claim of that job stays dead.
LEMMA HolderWrites ==
  ASSUME NEW w \in Workers, IInv, TypeOK', pc[w] # "idle", Holds(claim[w]), KeepsClaim(w),
         \A v \in Workers \ {w} : Stays(v), Local(w)',
         UNCHANGED <<status, retries, token, lease, waiting, execVars, performed>>,
         \A j \in Jobs : j # claim[w].job =>
           checkpoint'[j] = checkpoint[j] /\ action'[j] = action[j],
         \A t \in Steps : checkpoint[claim[w].job][t].status = "SUCCEEDED" =>
                            checkpoint'[claim[w].job][t].status = "SUCCEEDED",
         RecordedStepsWerePerformed', ActionFollowsCheckpoint'
  PROVE  IInv'
<1>1. \A v \in Workers \ {w} : pc[v] # "idle" => Respects(v)
  <2>1. SUFFICES ASSUME NEW v \in Workers \ {w}, pc[v] # "idle"
                 PROVE  Respects(v)
    OBVIOUS
  <2>2. claim[v].job \in Jobs /\ Stays(v)
    BY <2>1 DEF IInv, Local, ClaimShape
  <2>3. Holds(claim[v])' => Holds(claim[v])
    BY <2>2 DEF Holds, Stays
  <2>4. Holds(claim[v]) => claim[v].job # claim[w].job
    BY <2>1 DEF Holds, IInv, TokensDistinct
  <2>5. lastAttempt[claim[v].job] <= lastAttempt'[claim[v].job]
    BY <2>2 DEF execVars, IInv, TypeOK
  <2>6. QED
    BY <2>2, <2>3, <2>4, <2>5 DEF Respects
<1>2. LeaseShape' /\ OpenExecutionHoldsTheLease' /\ RetryBudget'
  BY DEF IInv, LeaseShape, OpenExecutionHoldsTheLease, RetryBudget, execVars
<1>3. SucceededJobsAreComplete'
  BY DEF IInv, SucceededJobsAreComplete, Holds
<1>4. QED
  BY <1>1, <1>2, <1>3, WorkersAfter DEF IInv

LEMMA BeginCommitsPreserves ==
  ASSUME NEW w \in Workers, NEW h \in Hashes, IInv, pc[w] = "begin", BeginCommits(w, h),
         UNCHANGED performed
  PROVE  IInv'
<1> DEFINE c == claim[w]
           s == idx[w]
           prior == checkpoint[c.job][s]
           next == IF prior.status = "SUCCEEDED" THEN "check" ELSE AfterBegin(s)
           step == IF prior.status = "SUCCEEDED" THEN s + 1 ELSE s
<1>1. /\ c.job \in Jobs /\ s \in Steps /\ c.token \in Attempts /\ c.token # NoToken
      /\ Holds(c) /\ token[c.job] = c.token /\ status[c.job] = "RUNNING"
  BY DEF BeginCommits, LeaseAsserted, Holds, IInv, TypeOK, Local, ClaimShape, LoopShape, LeaseShape
<1>2. Goto(w, next, step) \/ Throw(w, "FINAL")
  BY DEF BeginCommits, Commit
<1>3. /\ UNCHANGED <<status, retries, token, lease, waiting, execVars, action>>
      /\ IF prior.status = "SUCCEEDED"
         THEN UNCHANGED <<checkpoint, currentStep>>
         ELSE /\ checkpoint' = [checkpoint EXCEPT ![c.job][s] = StartedRow(c, h, prior)]
              /\ currentStep' = [currentStep EXCEPT ![c.job] = s]
  BY DEF BeginCommits
<1>4. /\ StartedRow(c, h, prior) \in Checkpoint
      /\ StartedRow(c, h, prior).status = "STARTED" /\ StartedRow(c, h, prior).token = c.token
  BY <1>1 DEF StartedRow, Checkpoint, StepStatus
<1>5. step \in 1..(NSteps + 1) /\ next \in Location /\ "FINAL" \in ErrorClass
  BY <1>1, ConstantsAssumption DEF ConstantsAssumption, Steps, AfterBegin, Location, ErrorClass
<1>6. /\ pc' \in [Workers -> Location] /\ claim' \in [Workers -> ClaimedJob]
      /\ idx' \in [Workers -> 1..(NSteps + 1)] /\ lost' \in [Workers -> BOOLEAN]
      /\ err' \in [Workers -> ErrorClass \cup {"none"}]
      /\ KeepsClaim(w) /\ \A v \in Workers \ {w} : Stays(v)
  BY <1>2, <1>5, RunnerMoves DEF IInv
<1>7. TypeOK'
  <2>1. checkpoint' \in [Jobs -> [Steps -> Checkpoint]]
    <3>1. checkpoint \in [Jobs -> [Steps -> Checkpoint]]
      BY DEF IInv, TypeOK
    <3>2. [checkpoint EXCEPT ![c.job][s] = StartedRow(c, h, prior)]
             \in [Jobs -> [Steps -> Checkpoint]]
      BY <1>1, <1>4, <3>1
    <3>3. QED
      BY <1>3, <3>1, <3>2
  <2>2. currentStep' \in [Jobs -> Steps \cup {NoStep}]
    BY <1>1, <1>3 DEF IInv, TypeOK
  <2>3. QED
    BY <1>3, <1>6, <2>1, <2>2 DEF IInv, TypeOK, execVars
\* What the step does to the checkpoints.
<1>8. \A j \in Jobs, t \in Steps :
        \/ checkpoint'[j][t] = checkpoint[j][t]
        \/ /\ j = c.job /\ t = s /\ prior.status # "SUCCEEDED"
           /\ checkpoint'[j][t].status = "STARTED"
  BY <1>1, <1>3, <1>4 DEF IInv, TypeOK
<1>9. \A j \in Jobs : j # c.job => checkpoint'[j] = checkpoint[j]
  BY <1>1, <1>3 DEF IInv, TypeOK
<1>10. Local(w)'
  <2>1. CASE Throw(w, "FINAL")
    <3>1. lastAttempt[c.job] <= lastAttempt'[c.job] /\ retries'[c.job] = retries[c.job]
      BY <1>1, <1>3 DEF execVars, IInv, TypeOK
    <3>2. \A t \in Steps : checkpoint[c.job][t].status = "SUCCEEDED" =>
                            checkpoint'[c.job][t].status = "SUCCEEDED"
      BY <1>1, <1>8
    <3>3. TypeOK /\ Local(w) /\ pc[w] # "idle"
      BY DEF IInv
    <3>4. QED
      BY <1>1, <1>5, <1>7, <2>1, <3>1, <3>2, <3>3, ThrownLocal
  <2>2. CASE Goto(w, next, step)
    <3>1. pc'[w] = next /\ idx'[w] = step /\ claim'[w] = c /\ err'[w] = err[w]
      BY <2>2 DEF Goto, IInv, TypeOK
    <3>2. ClaimShape(w)'
      BY <1>1, <1>3, <3>1 DEF IInv, Local, ClaimShape, Holds, execVars, AfterBegin
    <3>3. \A t \in Steps : t < step => checkpoint'[c.job][t].status = "SUCCEEDED"
      BY <1>1, <1>8, ConstantsAssumption DEF ConstantsAssumption, IInv, Local, LoopShape, Steps
    <3>4. LoopShape(w)'
      BY <1>1, <3>1, <3>3 DEF LoopShape, AfterBegin
    <3>5. StepShape(w)'
      <4>1. CASE prior.status = "SUCCEEDED"
        BY <3>1, <4>1 DEF StepShape
      <4>2. CASE prior.status # "SUCCEEDED"
        <5>1. checkpoint'[c.job][s] = StartedRow(c, h, prior)
          <6>1. checkpoint \in [Jobs -> [Steps -> Checkpoint]]
            BY DEF IInv, TypeOK
          <6>2. QED
            BY <1>1, <1>3, <4>2, <6>1
        <5>2. pc'[w] = AfterBegin(s) /\ idx'[w] = s
          BY <3>1, <4>2
        <5>3. pc'[w] = "execute" => s \notin ActionSteps
          BY <5>2 DEF AfterBegin
        <5>4. pc'[w] # "complete"
          BY <5>2 DEF AfterBegin
        <5>5. OwnsCheckpoint(claim[w], idx[w])'
          BY <1>4, <3>1, <5>1, <5>2 DEF OwnsCheckpoint
        <5>6. QED
          BY <5>2, <5>3, <5>4, <5>5 DEF StepShape
      <4>3. QED
        BY <4>1, <4>2
    <3>6. QED
      BY <3>2, <3>4, <3>5 DEF Local
  <2>3. QED
    BY <1>2, <2>1, <2>2
<1>11. RecordedStepsWerePerformed'
  BY <1>8 DEF IInv, RecordedStepsWerePerformed
<1>12. ActionFollowsCheckpoint'
  BY <1>1, <1>3, <1>8, ConstantsAssumption DEF ConstantsAssumption, IInv, ActionFollowsCheckpoint
<1>13. \A t \in Steps : checkpoint[c.job][t].status = "SUCCEEDED" =>
                          checkpoint'[c.job][t].status = "SUCCEEDED"
  BY <1>1, <1>8
<1>14. QED
  BY <1>1, <1>3, <1>6, <1>7, <1>9, <1>10, <1>11, <1>12, <1>13, HolderWrites

LEMMA BeginStepPreserves ==
  ASSUME NEW w \in Workers, IInv, BeginStep(w)
  PROVE  IInv'
<1>1. pc[w] = "begin" /\ UNCHANGED performed
  BY DEF BeginStep
<1>2. CASE \E h \in Hashes : BeginCommits(w, h)
  BY <1>1, <1>2, BeginCommitsPreserves
<1>3. CASE Rollback(w)
  BY <1>1, <1>3, RollbackPreserves
<1>4. CASE LeaseLost(w)
  BY <1>1, <1>4, LeaseLostPreserves
<1>5. QED
  BY <1>2, <1>3, <1>4 DEF BeginStep

LEMMA ReserveCommitsPreserves ==
  ASSUME NEW w \in Workers, IInv, pc[w] = "reserve", ReserveCommits(w), UNCHANGED performed
  PROVE  IInv'
<1> DEFINE c == claim[w]
           s == idx[w]
<1>1. /\ c.job \in Jobs /\ s \in Steps /\ Holds(c) /\ OwnsCheckpoint(c, s)
      /\ action' = [action EXCEPT ![c.job][s] = "PENDING"]
      /\ UNCHANGED <<jobVars, execVars, checkpoint>>
  BY DEF ReserveCommits, LeaseAsserted, IInv, Local, ClaimShape, LoopShape
<1>2. Goto(w, "execute", s) \/ Throw(w, "FINAL")
  BY DEF ReserveCommits, Commit
<1>3. s \in 1..(NSteps + 1) /\ "execute" \in Location /\ "FINAL" \in ErrorClass
  BY DEF IInv, TypeOK, Location, ErrorClass
<1>4. /\ pc' \in [Workers -> Location] /\ claim' \in [Workers -> ClaimedJob]
      /\ idx' \in [Workers -> 1..(NSteps + 1)] /\ lost' \in [Workers -> BOOLEAN]
      /\ err' \in [Workers -> ErrorClass \cup {"none"}]
      /\ KeepsClaim(w) /\ \A v \in Workers \ {w} : Stays(v)
  BY <1>2, <1>3, RunnerMoves DEF IInv
<1>5. action' \in [Jobs -> [Steps -> ActionStatus]]
  <2>1. action \in [Jobs -> [Steps -> ActionStatus]] /\ "PENDING" \in ActionStatus
    BY DEF IInv, TypeOK, ActionStatus
  <2>2. QED
    BY <1>1, <2>1
<1>6. TypeOK'
  BY <1>1, <1>4, <1>5 DEF IInv, TypeOK, jobVars, execVars
<1>7. /\ \A j \in Jobs, t \in Steps :
           action'[j][t] = IF j = c.job /\ t = s THEN "PENDING" ELSE action[j][t]
      /\ \A j \in Jobs : j # c.job => action'[j] = action[j]
  BY <1>1 DEF IInv, TypeOK
<1>8. Local(w)'
  <2>1. CASE Throw(w, "FINAL")
    <3>1. lastAttempt[c.job] <= lastAttempt'[c.job] /\ retries'[c.job] = retries[c.job]
      BY <1>1 DEF execVars, jobVars, IInv, TypeOK
    <3>2. TypeOK /\ Local(w) /\ pc[w] # "idle"
      BY DEF IInv
    <3>3. QED
      BY <1>1, <1>3, <1>6, <2>1, <3>1, <3>2, ThrownLocal
  <2>2. CASE Goto(w, "execute", s)
    <3>1. pc'[w] = "execute" /\ idx'[w] = s /\ claim'[w] = c /\ err'[w] = err[w]
      BY <2>2 DEF Goto, IInv, TypeOK
    <3>2. ClaimShape(w)' /\ LoopShape(w)'
      BY <1>1, <3>1 DEF IInv, Local, ClaimShape, LoopShape, Holds, jobVars, execVars
    <3>3. StepShape(w)'
      BY <1>1, <1>7, <3>1 DEF StepShape, OwnsCheckpoint
    <3>4. QED
      BY <3>2, <3>3 DEF Local
  <2>3. QED
    BY <1>2, <2>1, <2>2
<1>9. RecordedStepsWerePerformed'
  BY <1>1 DEF IInv, RecordedStepsWerePerformed
<1>10. ActionFollowsCheckpoint'
  <2>1. ActionSteps \subseteq Steps /\ checkpoint' = checkpoint
        /\ checkpoint[c.job][s].status # "SUCCEEDED"
    BY <1>1, ConstantsAssumption DEF ConstantsAssumption, OwnsCheckpoint
  <2>2. ActionFollowsCheckpoint
    BY DEF IInv
  <2>3. QED
    BY <1>7, <2>1, <2>2 DEF ActionFollowsCheckpoint
<1>11. QED
  BY <1>1, <1>4, <1>6, <1>7, <1>8, <1>9, <1>10, HolderWrites DEF jobVars

LEMMA ReserveActionPreserves ==
  ASSUME NEW w \in Workers, IInv, ReserveAction(w)
  PROVE  IInv'
BY ReserveCommitsPreserves, RollbackPreserves, LeaseLostPreserves DEF ReserveAction

LEMMA CompleteCommitsPreserves ==
  ASSUME NEW w \in Workers, IInv, pc[w] = "complete", CompleteCommits(w), UNCHANGED performed
  PROVE  IInv'
<1> DEFINE c == claim[w]
           s == idx[w]
           done == [checkpoint[c.job][s] EXCEPT !.status = "SUCCEEDED"]
<1>1. /\ c.job \in Jobs /\ s \in Steps /\ Holds(c) /\ OwnsCheckpoint(c, s)
      /\ c.token \in performed[c.job][s]
      /\ s \in ActionSteps => action[c.job][s] # "ABSENT"
  BY DEF CompleteCommits, LeaseAsserted, IInv, Local, ClaimShape, LoopShape, StepShape
<1>2. /\ checkpoint' = [checkpoint EXCEPT ![c.job][s] = done]
      /\ action' = [action EXCEPT ![c.job][s] = Completed(action[c.job][s])]
      /\ UNCHANGED <<jobVars, execVars>>
  BY <1>1 DEF CompleteCommits, IInv, TypeOK
<1>3. Goto(w, "check", s + 1) \/ Throw(w, "FINAL")
  BY DEF CompleteCommits, Commit
<1>4. s + 1 \in 1..(NSteps + 1) /\ "check" \in Location /\ "FINAL" \in ErrorClass
  BY <1>1, ConstantsAssumption DEF ConstantsAssumption, Steps, Location, ErrorClass
<1>5. /\ pc' \in [Workers -> Location] /\ claim' \in [Workers -> ClaimedJob]
      /\ idx' \in [Workers -> 1..(NSteps + 1)] /\ lost' \in [Workers -> BOOLEAN]
      /\ err' \in [Workers -> ErrorClass \cup {"none"}]
      /\ KeepsClaim(w) /\ \A v \in Workers \ {w} : Stays(v)
  BY <1>3, <1>4, RunnerMoves DEF IInv
<1>6. checkpoint \in [Jobs -> [Steps -> Checkpoint]]
      /\ action \in [Jobs -> [Steps -> ActionStatus]]
  BY DEF IInv, TypeOK
<1>7. done \in Checkpoint /\ done.status = "SUCCEEDED" /\ done.token = c.token
  <2>1. checkpoint[c.job][s] \in Checkpoint
    BY <1>1, <1>6
  <2>2. QED
    BY <1>1, <2>1 DEF Checkpoint, StepStatus, OwnsCheckpoint
<1>8. Completed(action[c.job][s]) \in ActionStatus
      /\ (s \in ActionSteps => Completed(action[c.job][s]) = "SUCCEEDED")
  BY <1>1, <1>6 DEF Completed, ActionStatus
<1>9. checkpoint' \in [Jobs -> [Steps -> Checkpoint]]
      /\ action' \in [Jobs -> [Steps -> ActionStatus]]
  BY <1>1, <1>2, <1>6, <1>7, <1>8
<1>10. TypeOK'
  BY <1>2, <1>5, <1>9 DEF IInv, TypeOK, jobVars, execVars
<1>11. /\ \A j \in Jobs, t \in Steps :
            /\ checkpoint'[j][t] = IF j = c.job /\ t = s THEN done ELSE checkpoint[j][t]
            /\ action'[j][t] = IF j = c.job /\ t = s THEN Completed(action[c.job][s])
                               ELSE action[j][t]
       /\ \A j \in Jobs : j # c.job => checkpoint'[j] = checkpoint[j] /\ action'[j] = action[j]
  BY <1>1, <1>2, <1>6
<1>12. \A t \in Steps : checkpoint[c.job][t].status = "SUCCEEDED" =>
                          checkpoint'[c.job][t].status = "SUCCEEDED"
  BY <1>1, <1>7, <1>11
<1>13. Local(w)'
  <2>1. CASE Throw(w, "FINAL")
    <3>1. lastAttempt[c.job] <= lastAttempt'[c.job] /\ retries'[c.job] = retries[c.job]
      BY <1>1, <1>2 DEF execVars, jobVars, IInv, TypeOK
    <3>2. TypeOK /\ Local(w) /\ pc[w] # "idle"
      BY DEF IInv
    <3>3. QED
      BY <1>1, <1>4, <1>10, <1>12, <2>1, <3>1, <3>2, ThrownLocal
  <2>2. CASE Goto(w, "check", s + 1)
    <3>1. pc'[w] = "check" /\ idx'[w] = s + 1 /\ claim'[w] = c /\ err'[w] = err[w]
      BY <2>2 DEF Goto, IInv, TypeOK
    <3>2. ClaimShape(w)'
      BY <1>1, <1>2, <3>1 DEF IInv, Local, ClaimShape, Holds, jobVars, execVars
    <3>3. \A t \in Steps : t < s + 1 => t < s \/ t = s
      BY <1>1, ConstantsAssumption DEF ConstantsAssumption, Steps
    <3>4. \A t \in Steps : t < s => checkpoint[c.job][t].status = "SUCCEEDED"
      BY DEF IInv, Local, LoopShape
    <3>5. \A t \in Steps : t < s + 1 => checkpoint'[c.job][t].status = "SUCCEEDED"
      BY <1>1, <1>7, <1>11, <1>12, <3>3, <3>4
    <3>6. LoopShape(w)'
      BY <3>1, <3>5 DEF LoopShape
    <3>7. StepShape(w)'
      BY <3>1 DEF StepShape
    <3>8. QED
      BY <3>2, <3>6, <3>7 DEF Local
  <2>3. QED
    BY <1>3, <2>1, <2>2
<1>14. RecordedStepsWerePerformed'
  BY <1>1, <1>7, <1>11 DEF IInv, RecordedStepsWerePerformed
<1>15. ActionFollowsCheckpoint'
  <2>1. ActionSteps \subseteq Steps
    BY ConstantsAssumption DEF ConstantsAssumption
  <2>2. ActionFollowsCheckpoint
    BY DEF IInv
  <2>3. ASSUME NEW j \in Jobs, NEW t \in ActionSteps
        PROVE  action'[j][t] = "SUCCEEDED" <=> checkpoint'[j][t].status = "SUCCEEDED"
    <3>1. CASE j = c.job /\ t = s
      BY <1>7, <1>8, <1>11, <2>1, <3>1
    <3>2. CASE ~(j = c.job /\ t = s)
      <4>1. action'[j][t] = action[j][t] /\ checkpoint'[j][t] = checkpoint[j][t]
        BY <1>11, <2>1, <3>2
      <4>2. QED
        BY <2>2, <4>1 DEF ActionFollowsCheckpoint
    <3>3. QED
      BY <3>1, <3>2
  <2>4. QED
    BY <2>3 DEF ActionFollowsCheckpoint
<1>16. QED
  BY <1>1, <1>2, <1>5, <1>10, <1>11, <1>12, <1>13, <1>14, <1>15, HolderWrites DEF jobVars

LEMMA CompleteStepPreserves ==
  ASSUME NEW w \in Workers, IInv, CompleteStep(w)
  PROVE  IInv'
BY CompleteCommitsPreserves, RollbackPreserves, LeaseLostPreserves DEF CompleteStep

-----------------------------------------------------------------------------
(* The end of an attempt.                                                  *)

\* The holder gives its job up: the lease is gone, its execution is closed,
\* and no claim on the job holds any more.
LEMMA HolderEnds ==
  ASSUME NEW w \in Workers, NEW st \in JobStatus \ {"RUNNING"},
         NEW outcome \in ExecutionState \ {"OPEN"},
         IInv, pc[w] # "idle", Holds(claim[w]),
         Release(w) \/ Throw(w, "FINAL"),
         status' = [status EXCEPT ![claim[w].job] = st],
         GiveUpLease(claim[w].job), EndExecution(claim[w], outcome),
         UNCHANGED <<lastAttempt, performed>>,
         retries' \in [Jobs -> 0..MaxRetries], waiting' \in [Jobs -> BOOLEAN],
         checkpoint' \in [Jobs -> [Steps -> Checkpoint]],
         action' \in [Jobs -> [Steps -> ActionStatus]],
         \A j \in Jobs : j # claim[w].job =>
           /\ retries'[j] = retries[j]
           /\ checkpoint'[j] = checkpoint[j]
           /\ action'[j] = action[j],
         \A t \in Steps : checkpoint[claim[w].job][t].status = "SUCCEEDED" =>
                            checkpoint'[claim[w].job][t].status = "SUCCEEDED",
         RetryBudget', SucceededJobsAreComplete', RecordedStepsWerePerformed',
         ActionFollowsCheckpoint'
  PROVE  IInv'
<1> DEFINE c == claim[w]
<1>1. /\ c.job \in Jobs /\ c.token \in Attempts
      /\ token[c.job] = c.token /\ status[c.job] = "RUNNING"
  BY ConstantsAssumption
     DEF ConstantsAssumption, IInv, TypeOK, Local, ClaimShape, Holds, Attempts
<1>2. /\ status \in [Jobs -> JobStatus] /\ lease \in [Jobs -> LeasePhase]
      /\ token \in [Jobs -> Attempts \cup {NoToken}]
      /\ currentStep \in [Jobs -> Steps \cup {NoStep}]
      /\ execution \in [Jobs -> [Attempts -> ExecutionState]]
  BY DEF IInv, TypeOK
<1>3. "FINAL" \in ErrorClass
  BY DEF ErrorClass
<1>4. /\ pc' \in [Workers -> Location] /\ claim' \in [Workers -> ClaimedJob]
      /\ idx' \in [Workers -> 1..(NSteps + 1)] /\ lost' \in [Workers -> BOOLEAN]
      /\ err' \in [Workers -> ErrorClass \cup {"none"}]
      /\ KeepsClaim(w) /\ \A v \in Workers \ {w} : Stays(v)
  BY <1>3, RunnerMoves DEF IInv
\* The rows of the job and of its executions after the step.
<1>5. /\ status' \in [Jobs -> JobStatus] /\ lease' \in [Jobs -> LeasePhase]
      /\ token' \in [Jobs -> Attempts \cup {NoToken}]
      /\ currentStep' \in [Jobs -> Steps \cup {NoStep}]
      /\ status'[c.job] = st /\ token'[c.job] = NoToken /\ lease'[c.job] = "none"
      /\ \A j \in Jobs : j # c.job =>
           status'[j] = status[j] /\ token'[j] = token[j] /\ lease'[j] = lease[j]
  BY <1>1, <1>2 DEF GiveUpLease, LeasePhase
<1>6. /\ execution' \in [Jobs -> [Attempts -> ExecutionState]]
      /\ \A j \in Jobs, a \in Attempts :
           execution'[j][a] = IF j = c.job /\ a = c.token /\ execution[j][a] = "OPEN"
                              THEN outcome ELSE execution[j][a]
  BY <1>1, <1>2 DEF EndExecution
<1>7. TypeOK'
  BY <1>4, <1>5, <1>6 DEF IInv, TypeOK
<1>8. \A v \in Workers \ {w} : pc[v] # "idle" => Respects(v)
  <2>1. SUFFICES ASSUME NEW v \in Workers \ {w}, pc[v] # "idle"
                 PROVE  Respects(v)
    OBVIOUS
  <2>2. claim[v].job \in Jobs /\ Stays(v)
    BY <1>4, <2>1 DEF IInv, Local, ClaimShape
  <2>3. Holds(claim[v])' => claim[v].job # c.job /\ Holds(claim[v])
    BY <1>5, <2>2 DEF Holds, Stays
  <2>4. lastAttempt[claim[v].job] <= lastAttempt'[claim[v].job]
    BY <2>2 DEF IInv, TypeOK
  <2>5. \A t \in Steps : checkpoint[claim[v].job][t].status = "SUCCEEDED" =>
                            checkpoint'[claim[v].job][t].status = "SUCCEEDED"
    BY <2>2
  <2>6. QED
    BY <2>2, <2>3, <2>4, <2>5 DEF Respects
<1>9. Local(w)'
  <2>1. CASE Release(w)
    BY <2>1, ReleasedLocal DEF IInv
  <2>2. CASE Throw(w, "FINAL")
    <3>1. lastAttempt[c.job] <= lastAttempt'[c.job] /\ ~HeldAfter(c)
      BY <1>1, <1>5 DEF HeldAfter, IInv, TypeOK
    <3>2. TypeOK /\ Local(w)
      BY DEF IInv
    <3>3. QED
      BY <1>3, <1>7, <2>2, <3>1, <3>2, ThrownLocal
  <2>3. QED
    BY <2>1, <2>2
<1>10. LeaseShape'
  <2>1. \A j \in Jobs : lastAttempt[j] >= NoToken
    BY DEF IInv, TypeOK, NoToken
  <2>2. QED
    BY <1>5, <2>1 DEF IInv, LeaseShape
<1>11. OpenExecutionHoldsTheLease'
  <2>1. OpenExecutionHoldsTheLease
    BY DEF IInv
  <2>2. ASSUME NEW j \in Jobs, NEW a \in Attempts
        PROVE  execution'[j][a] = "OPEN" <=> (status'[j] = "RUNNING" /\ token'[j] = a)
    <3>1. execution[j][a] = "OPEN" <=> (status[j] = "RUNNING" /\ token[j] = a)
      BY <2>1 DEF OpenExecutionHoldsTheLease
    <3>2. execution'[j][a] = IF j = c.job /\ a = c.token /\ execution[j][a] = "OPEN"
                              THEN outcome ELSE execution[j][a]
      BY <1>6
    <3>3. CASE j = c.job
      <4>1. execution'[j][a] # "OPEN"
        BY <1>1, <3>1, <3>2, <3>3
      <4>2. status'[j] # "RUNNING"
        BY <1>5, <3>3
      <4>3. QED
        BY <4>1, <4>2
    <3>4. CASE j # c.job
      <4>1. status'[j] = status[j] /\ token'[j] = token[j] /\ execution'[j][a] = execution[j][a]
        BY <1>5, <3>2, <3>4
      <4>2. QED
        BY <3>1, <4>1
    <3>5. QED
      BY <3>3, <3>4
  <2>3. QED
    BY <2>2 DEF OpenExecutionHoldsTheLease
<1>12. QED
  BY <1>4, <1>7, <1>8, <1>9, <1>10, <1>11, WorkersAfter DEF IInv

LEMMA FinishPreserves ==
  ASSUME NEW w \in Workers, IInv, Finish(w)
  PROVE  IInv'
<1> DEFINE c == claim[w]
<1>1. pc[w] = "finish" /\ UNCHANGED performed
  BY DEF Finish
<1>2. CASE FinishCommits(w)
  <2>1. /\ c.job \in Jobs /\ c.job \in Supported /\ Holds(c) /\ status[c.job] = "RUNNING"
        /\ idx[w] = NSteps + 1
    BY <1>1, <1>2 DEF FinishCommits, Holds, IInv, Local, ClaimShape, LoopShape
  <2>2. \A s \in Steps : checkpoint[c.job][s].status = "SUCCEEDED"
    <3>1. \A s \in Steps : s < idx[w]
      BY <2>1, ConstantsAssumption DEF ConstantsAssumption, Steps
    <3>2. QED
      BY <1>1, <3>1 DEF IInv, Local, LoopShape
  <2>3. /\ status' = [status EXCEPT ![c.job] = "SUCCEEDED"]
        /\ UNCHANGED <<retries, waiting, lastAttempt, checkpoint, action, performed>>
        /\ GiveUpLease(c.job) /\ EndExecution(c, "SUCCEEDED")
        /\ Release(w) \/ Throw(w, "FINAL")
    BY <1>1, <1>2 DEF FinishCommits, stepVars
  <2>4. \A j \in Jobs : status'[j] = IF j = c.job THEN "SUCCEEDED" ELSE status[j]
    BY <2>3 DEF IInv, TypeOK
  <2>5. RetryBudget'
    BY <2>1, <2>3, <2>4 DEF IInv, RetryBudget
  <2>6. SucceededJobsAreComplete'
    BY <2>1, <2>2, <2>3, <2>4 DEF IInv, SucceededJobsAreComplete
  <2>7. RecordedStepsWerePerformed' /\ ActionFollowsCheckpoint'
    BY <2>3 DEF IInv, RecordedStepsWerePerformed, ActionFollowsCheckpoint
  <2>8. "SUCCEEDED" \in JobStatus \ {"RUNNING"} /\ "SUCCEEDED" \in ExecutionState \ {"OPEN"}
    BY DEF JobStatus, ExecutionState
  <2>9. /\ retries' \in [Jobs -> 0..MaxRetries] /\ waiting' \in [Jobs -> BOOLEAN]
        /\ checkpoint' \in [Jobs -> [Steps -> Checkpoint]]
        /\ action' \in [Jobs -> [Steps -> ActionStatus]]
    BY <2>3 DEF IInv, TypeOK
  <2>10. QED
    BY <1>1, <2>1, <2>3, <2>5, <2>6, <2>7, <2>8, <2>9, HolderEnds
<1>3. CASE Rollback(w)
  BY <1>1, <1>3, RollbackPreserves
<1>4. CASE LeaseLost(w)
  BY <1>1, <1>4, LeaseLostPreserves
<1>5. QED
  BY <1>2, <1>3, <1>4 DEF Finish

LEMMA FailPreserves ==
  ASSUME NEW w \in Workers, IInv, Fail(w)
  PROVE  IInv'
<1> DEFINE c == claim[w]
           st == IF OutOfRetries(c) THEN "DEAD_LETTER" ELSE "RETRY_SCHEDULED"
<1>1. pc[w] = "fail" /\ UNCHANGED performed
  BY DEF Fail
<1>2. CASE FailCommits(w)
  <2>1. /\ c.job \in Jobs /\ Holds(c) /\ status[c.job] = "RUNNING" /\ err[w] \in ErrorClass
        /\ c.retries = retries[c.job]
    BY <1>1, <1>2 DEF FailCommits, Holds, IInv, Local, ClaimShape
  <2>2. /\ status' = [status EXCEPT ![c.job] = st]
        /\ retries' = [retries EXCEPT ![c.job] = IF OutOfRetries(c) THEN @ ELSE @ + 1]
        /\ waiting' = [waiting EXCEPT ![c.job] = ~OutOfRetries(c)]
        /\ GiveUpLease(c.job) /\ EndExecution(c, err[w]) /\ Release(w)
        /\ FailSteps(c)
        /\ UNCHANGED <<lastAttempt, performed>>
    BY <1>1, <1>2 DEF FailCommits
  <2>3. retries[c.job] \in 0..MaxRetries /\ MaxRetries \in Nat
    BY <2>1, ConstantsAssumption DEF ConstantsAssumption, IInv, TypeOK
  <2>4. /\ retries'[c.job] = IF OutOfRetries(c) THEN retries[c.job] ELSE retries[c.job] + 1
        /\ retries'[c.job] \in 0..MaxRetries
        /\ OutOfRetries(c) => retries[c.job] = MaxRetries
        /\ \A j \in Jobs : j # c.job => retries'[j] = retries[j] /\ status'[j] = status[j]
        /\ status'[c.job] = st
    <3>1. retries \in [Jobs -> 0..MaxRetries] /\ status \in [Jobs -> JobStatus]
      BY DEF IInv, TypeOK
    <3>2. /\ retries'[c.job] = IF OutOfRetries(c) THEN retries[c.job] ELSE retries[c.job] + 1
          /\ \A j \in Jobs : j # c.job => retries'[j] = retries[j] /\ status'[j] = status[j]
          /\ status'[c.job] = st
      BY <2>1, <2>2, <3>1
    <3>3. OutOfRetries(c) <=> retries[c.job] >= MaxRetries
      BY <2>1 DEF OutOfRetries
    <3>4. OutOfRetries(c) => retries[c.job] = MaxRetries
      BY <2>3, <3>3
    <3>5. retries'[c.job] \in 0..MaxRetries
      BY <2>3, <3>2, <3>3
    <3>6. QED
      BY <3>2, <3>4, <3>5
  <2>5. retries' \in [Jobs -> 0..MaxRetries] /\ waiting' \in [Jobs -> BOOLEAN]
    <3>1. retries \in [Jobs -> 0..MaxRetries] /\ waiting \in [Jobs -> BOOLEAN]
      BY DEF IInv, TypeOK
    <3>2. waiting' \in [Jobs -> BOOLEAN]
      BY <2>2, <3>1 DEF OutOfRetries
    <3>3. retries' = [j \in Jobs |-> retries'[j]]
      BY <2>2, <3>1
    <3>4. \A j \in Jobs : retries'[j] \in 0..MaxRetries
      BY <2>4, <3>1
    <3>5. QED
      BY <3>2, <3>3, <3>4
  <2>6. /\ checkpoint \in [Jobs -> [Steps -> Checkpoint]]
        /\ action \in [Jobs -> [Steps -> ActionStatus]]
    BY DEF IInv, TypeOK
  <2>7. \A s \in Steps : /\ [checkpoint[c.job][s] EXCEPT !.status = "FAILED"] \in Checkpoint
                         /\ [checkpoint[c.job][s] EXCEPT !.status = "FAILED"].status = "FAILED"
    <3>1. ASSUME NEW s \in Steps
          PROVE  /\ [checkpoint[c.job][s] EXCEPT !.status = "FAILED"] \in Checkpoint
                 /\ [checkpoint[c.job][s] EXCEPT !.status = "FAILED"].status = "FAILED"
      <4>1. checkpoint[c.job][s] \in Checkpoint
        BY <2>1, <2>6
      <4>2. QED
        BY <4>1 DEF Checkpoint, StepStatus
    <3>2. QED
      BY <3>1
  <2>8. /\ checkpoint' \in [Jobs -> [Steps -> Checkpoint]]
        /\ \A j \in Jobs : j # c.job => checkpoint'[j] = checkpoint[j]
        /\ \A s \in Steps : checkpoint'[c.job][s] =
             IF s \in FailedSteps(c) THEN [checkpoint[c.job][s] EXCEPT !.status = "FAILED"]
             ELSE checkpoint[c.job][s]
    BY <2>1, <2>2, <2>6, <2>7 DEF FailSteps
  <2>9. /\ action' \in [Jobs -> [Steps -> ActionStatus]]
        /\ \A j \in Jobs : j # c.job => action'[j] = action[j]
        /\ \A s \in Steps : action'[c.job][s] =
             IF s \in FailedSteps(c) /\ action[c.job][s] # "ABSENT" THEN "FAILED"
             ELSE action[c.job][s]
    BY <2>1, <2>2, <2>6 DEF FailSteps, ActionStatus
  <2>10. \A s \in FailedSteps(c) : s \in Steps /\ checkpoint[c.job][s].status = "STARTED"
    BY DEF FailedSteps, OwnsCheckpoint
  <2>11. \A s \in Steps : \/ checkpoint'[c.job][s] = checkpoint[c.job][s]
                          \/ /\ checkpoint[c.job][s].status = "STARTED"
                             /\ checkpoint'[c.job][s].status = "FAILED"
    BY <2>7, <2>8, <2>10
  <2>12. RetryBudget'
    BY <2>1, <2>2, <2>3, <2>4 DEF IInv, TypeOK, RetryBudget
  <2>13. SucceededJobsAreComplete'
    BY <2>4, <2>8 DEF IInv, SucceededJobsAreComplete
  <2>14. RecordedStepsWerePerformed'
    BY <1>1, <2>1, <2>8, <2>11 DEF IInv, RecordedStepsWerePerformed
  <2>15. ActionFollowsCheckpoint'
    <3>1. ActionSteps \subseteq Steps /\ ActionFollowsCheckpoint
      BY ConstantsAssumption DEF ConstantsAssumption, IInv
    <3>2. ASSUME NEW j \in Jobs, NEW s \in ActionSteps
          PROVE  action'[j][s] = "SUCCEEDED" <=> checkpoint'[j][s].status = "SUCCEEDED"
      <4>1. s \in Steps /\ (action[j][s] = "SUCCEEDED" <=> checkpoint[j][s].status = "SUCCEEDED")
        BY <3>1 DEF ActionFollowsCheckpoint
      <4>2. CASE j = c.job /\ s \in FailedSteps(c)
        <5>1. checkpoint[j][s].status = "STARTED" /\ checkpoint'[j][s].status = "FAILED"
          BY <2>7, <2>8, <2>10, <4>1, <4>2
        <5>2. action[j][s] # "SUCCEEDED"
          BY <4>1, <5>1
        <5>3. action'[j][s] # "SUCCEEDED"
          BY <2>9, <4>1, <4>2, <5>2
        <5>4. QED
          BY <5>1, <5>3
      <4>3. CASE ~(j = c.job /\ s \in FailedSteps(c))
        <5>1. action'[j][s] = action[j][s] /\ checkpoint'[j][s] = checkpoint[j][s]
          BY <2>8, <2>9, <4>1, <4>3
        <5>2. QED
          BY <4>1, <5>1
      <4>4. QED
        BY <4>2, <4>3
    <3>3. QED
      BY <3>2 DEF ActionFollowsCheckpoint
  <2>16. st \in JobStatus \ {"RUNNING"} /\ err[w] \in ExecutionState \ {"OPEN"}
    BY <2>1 DEF JobStatus, ExecutionState, ErrorClass
  <2>17. \A t \in Steps : checkpoint[c.job][t].status = "SUCCEEDED" =>
                            checkpoint'[c.job][t].status = "SUCCEEDED"
    BY <2>11
  <2>18. \A j \in Jobs : j # c.job =>
           /\ retries'[j] = retries[j]
           /\ checkpoint'[j] = checkpoint[j]
           /\ action'[j] = action[j]
    BY <2>4, <2>8, <2>9
  <2>19. /\ pc[w] # "idle" /\ (Release(w) \/ Throw(w, "FINAL"))
         /\ checkpoint' \in [Jobs -> [Steps -> Checkpoint]]
         /\ action' \in [Jobs -> [Steps -> ActionStatus]]
         /\ status' = [status EXCEPT ![c.job] = st]
         /\ GiveUpLease(c.job) /\ EndExecution(c, err[w])
         /\ UNCHANGED <<lastAttempt, performed>>
    BY <1>1, <2>2, <2>8, <2>9
  <2>20. QED
    BY <2>1, <2>5, <2>12, <2>13, <2>14, <2>15, <2>16, <2>17, <2>18, <2>19, HolderEnds
<1>3. CASE LeaseLost(w)
  BY <1>1, <1>3, LeaseLostPreserves
<1>4. QED
  BY <1>2, <1>3 DEF Fail

-----------------------------------------------------------------------------
(* The claim.                                                              *)

LEMMA SweptJobs ==
  ASSUME IInv, NEW seen \in SUBSET Jobs
  PROVE  \A k \in Swept(seen) :
           k \in Jobs /\ status[k] = "RUNNING" /\ retries[k] = MaxRetries
<1>1. retries \in [Jobs -> 0..MaxRetries] /\ MaxRetries \in Nat
  BY ConstantsAssumption DEF ConstantsAssumption, IInv, TypeOK
<1>2. QED
  BY <1>1 DEF Swept, Exhausted

\* The executions after the sweep: none of a buried job is open.
LEMMA SweptExecutions ==
  ASSUME IInv, NEW J \in SUBSET Jobs
  PROVE  /\ SweptExecution(J) \in [Jobs -> [Attempts -> ExecutionState]]
         /\ \A j \in Jobs, a \in Attempts :
              SweptExecution(J)[j][a] =
                IF j \in J /\ execution[j][a] = "OPEN" THEN "EXHAUSTED" ELSE execution[j][a]
<1>1. execution \in [Jobs -> [Attempts -> ExecutionState]] /\ "EXHAUSTED" \in ExecutionState
  BY DEF IInv, TypeOK, ExecutionState
<1>2. \A j \in Jobs : CloseOpen(j, "EXHAUSTED") \in [Attempts -> ExecutionState]
  BY <1>1 DEF CloseOpen
<1>3. QED
  BY <1>1, <1>2 DEF SweptExecution, CloseOpen

LEMMA ClaimNothingPreserves ==
  ASSUME NEW w \in Workers, NEW seen \in SUBSET Jobs, IInv, ClaimNothing(w, seen)
  PROVE  IInv'
<1> DEFINE J == Swept(seen)
<1>1. /\ J \subseteq Jobs
      /\ \A k \in J : status[k] = "RUNNING" /\ retries[k] = MaxRetries
  BY SweptJobs
<1>2. /\ status \in [Jobs -> JobStatus] /\ lease \in [Jobs -> LeasePhase]
      /\ token \in [Jobs -> Attempts \cup {NoToken}]
      /\ execution \in [Jobs -> [Attempts -> ExecutionState]]
  BY DEF IInv, TypeOK
<1>3. /\ \A k \in Jobs : /\ status'[k] = IF k \in J THEN "DEAD_LETTER" ELSE status[k]
                         /\ token'[k] = IF k \in J THEN NoToken ELSE token[k]
                         /\ lease'[k] = IF k \in J THEN "none" ELSE lease[k]
      /\ UNCHANGED <<retries, waiting, currentStep, lastAttempt, stepVars, workerVars, performed>>
      /\ pc[w] = "idle"
  BY DEF ClaimNothing, Sweep
<1>4. /\ status' \in [Jobs -> JobStatus] /\ lease' \in [Jobs -> LeasePhase]
      /\ token' \in [Jobs -> Attempts \cup {NoToken}]
  BY <1>1, <1>2 DEF ClaimNothing, Sweep, JobStatus, LeasePhase
<1>5. /\ execution' \in [Jobs -> [Attempts -> ExecutionState]]
      /\ \A k \in Jobs, a \in Attempts :
           execution'[k][a] =
             IF k \in J /\ execution[k][a] = "OPEN" THEN "EXHAUSTED" ELSE execution[k][a]
  BY <1>1, SweptExecutions DEF ClaimNothing
<1>6. TypeOK'
  BY <1>3, <1>4, <1>5 DEF IInv, TypeOK, stepVars, workerVars
<1>7. \A v \in Workers : Stays(v) /\ (pc[v] # "idle" => Respects(v))
  <2>1. SUFFICES ASSUME NEW v \in Workers, pc[v] # "idle"
                 PROVE  Respects(v)
    BY <1>3 DEF Stays, workerVars
  <2>2. claim[v].job \in Jobs /\ Stays(v) /\ lastAttempt[claim[v].job] \in 0..MaxAttempts
    BY <1>3, <2>1 DEF IInv, TypeOK, Local, ClaimShape, Stays, workerVars
  <2>3. Holds(claim[v])' => Holds(claim[v])
    BY <1>3, <2>2 DEF Holds, Stays
  <2>4. QED
    BY <1>3, <2>2, <2>3 DEF Respects, stepVars
<1>8. Local(w)' /\ KeepsClaim(w)
  BY <1>3, <1>6, <1>7, Bystander DEF IInv, KeepsClaim, workerVars
<1>9. LeaseShape'
  <2>1. \A k \in Jobs : lastAttempt[k] >= NoToken
    BY DEF IInv, TypeOK, NoToken
  <2>2. QED
    BY <1>3, <2>1 DEF IInv, LeaseShape
<1>10. OpenExecutionHoldsTheLease'
  <2>1. ASSUME NEW k \in Jobs, NEW a \in Attempts
        PROVE  execution'[k][a] = "OPEN" <=> (status'[k] = "RUNNING" /\ token'[k] = a)
    <3>1. execution[k][a] = "OPEN" <=> (status[k] = "RUNNING" /\ token[k] = a)
      BY DEF IInv, OpenExecutionHoldsTheLease
    <3>2. CASE k \in J
      BY <1>3, <1>5, <3>2
    <3>3. CASE k \notin J
      <4>1. execution'[k][a] = execution[k][a] /\ status'[k] = status[k] /\ token'[k] = token[k]
        BY <1>3, <1>5, <3>3
      <4>2. QED
        BY <3>1, <4>1
    <3>4. QED
      BY <3>2, <3>3
  <2>2. QED
    BY <2>1 DEF OpenExecutionHoldsTheLease
<1>11. RetryBudget'
  BY <1>1, <1>3 DEF IInv, RetryBudget
<1>12. SucceededJobsAreComplete' /\ RecordedStepsWerePerformed' /\ ActionFollowsCheckpoint'
  BY <1>3 DEF IInv, SucceededJobsAreComplete, RecordedStepsWerePerformed,
              ActionFollowsCheckpoint, stepVars
<1>13. QED
  BY <1>6, <1>7, <1>8, <1>9, <1>10, <1>11, <1>12, WorkersAfter DEF IInv

\* The attempt of a new claim is new for the job, and within the bound.
LEMMA NextAttemptIsFresh ==
  ASSUME NEW j \in Jobs, IInv, Claimable(j)
  PROVE  /\ NextAttempt(j) = lastAttempt[j] + 1
         /\ NextAttempt(j) \in Attempts
         /\ retries[j] + TakeoverCost(j) \in 0..MaxRetries
         /\ NextAttempt(j) = retries[j] + TakeoverCost(j) + 1
<1>1. /\ retries[j] \in 0..MaxRetries /\ MaxRetries \in Nat /\ lastAttempt[j] \in 0..MaxAttempts
      /\ MaxAttempts \in Nat /\ MaxAttempts > MaxRetries
  BY ConstantsAssumption DEF ConstantsAssumption, IInv, TypeOK
<1>2. CASE status[j] = "RUNNING"
  <2>1. retries[j] < MaxRetries /\ lastAttempt[j] = retries[j] + 1 /\ TakeoverCost(j) = 1
    BY <1>2 DEF Claimable, IInv, RetryBudget, TakeoverCost
  <2>2. QED
    BY <1>1, <2>1 DEF NextAttempt, Attempts
<1>3. CASE status[j] \in {"PENDING", "RETRY_SCHEDULED"}
  <2>1. lastAttempt[j] = retries[j] /\ TakeoverCost(j) = 0
    BY <1>1, <1>3 DEF IInv, RetryBudget, TakeoverCost
  <2>2. QED
    BY <1>1, <2>1 DEF NextAttempt, Attempts
<1>4. QED
  BY <1>2, <1>3 DEF Claimable

LEMMA TakePreserves ==
  ASSUME NEW w \in Workers, NEW seen \in SUBSET Jobs, NEW j \in Ready(seen), IInv,
         pc[w] = "idle", Take(w, seen, j)
  PROVE  IInv'
<1> DEFINE J == Swept(seen)
           attempt == NextAttempt(j)
           previous == IF status[j] = "RUNNING" THEN CloseOpen(j, "TIMEOUT") ELSE execution[j]
           location == IF j \in Supported THEN "check" ELSE "fail"
           error == IF j \in Supported THEN "none" ELSE "FINAL"
           granted == [job |-> j, token |-> attempt, retries |-> ReturnedRetries(j)]
<1>1. /\ J \subseteq Jobs /\ j \in Jobs /\ Claimable(j)
      /\ \A k \in J : status[k] = "RUNNING" /\ retries[k] = MaxRetries
  BY SweptJobs DEF Ready
<1>2. j \notin J
  BY <1>1, ConstantsAssumption DEF ConstantsAssumption, Claimable
<1>3. /\ attempt = lastAttempt[j] + 1 /\ attempt \in Attempts
      /\ ReturnedRetries(j) \in 0..MaxRetries /\ ReturnedRetries(j) = retries[j] + TakeoverCost(j)
      /\ attempt = ReturnedRetries(j) + 1
  BY <1>1, NextAttemptIsFresh DEF ReturnedRetries
<1>4. /\ status \in [Jobs -> JobStatus] /\ lease \in [Jobs -> LeasePhase]
      /\ token \in [Jobs -> Attempts \cup {NoToken}] /\ retries \in [Jobs -> 0..MaxRetries]
      /\ execution \in [Jobs -> [Attempts -> ExecutionState]]
      /\ lastAttempt \in [Jobs -> 0..MaxAttempts] /\ waiting \in [Jobs -> BOOLEAN]
      /\ currentStep \in [Jobs -> Steps \cup {NoStep}]
  BY DEF IInv, TypeOK
<1>5. /\ \A k \in Jobs \ {j} : /\ status'[k] = IF k \in J THEN "DEAD_LETTER" ELSE status[k]
                               /\ token'[k] = IF k \in J THEN NoToken ELSE token[k]
                               /\ lease'[k] = IF k \in J THEN "none" ELSE lease[k]
                               /\ retries'[k] = retries[k] /\ lastAttempt'[k] = lastAttempt[k]
      /\ status'[j] = "RUNNING" /\ token'[j] = attempt /\ lease'[j] = "live"
      /\ retries'[j] = ReturnedRetries(j) /\ lastAttempt'[j] = attempt
  BY <1>1, <1>3, <1>4 DEF Take, Sweep
<1>6. /\ status' \in [Jobs -> JobStatus] /\ lease' \in [Jobs -> LeasePhase]
      /\ token' \in [Jobs -> Attempts \cup {NoToken}]
  <2>1. /\ Sweep(status, J, "DEAD_LETTER") \in [Jobs -> JobStatus]
        /\ Sweep(lease, J, "none") \in [Jobs -> LeasePhase]
        /\ Sweep(token, J, NoToken) \in [Jobs -> Attempts \cup {NoToken}]
    BY <1>4 DEF Sweep, JobStatus, LeasePhase
  <2>2. QED
    BY <1>1, <1>3, <2>1 DEF Take, JobStatus, LeasePhase
<1>7. retries' \in [Jobs -> 0..MaxRetries] /\ waiting' \in [Jobs -> BOOLEAN]
      /\ currentStep' \in [Jobs -> Steps \cup {NoStep}] /\ lastAttempt' \in [Jobs -> 0..MaxAttempts]
  <2>1. attempt \in 0..MaxAttempts
    BY <1>3, ConstantsAssumption DEF ConstantsAssumption, Attempts
  <2>2. retries' = [retries EXCEPT ![j] = ReturnedRetries(j)]
    BY <1>1, <1>3, <1>4 DEF Take
  <2>3. QED
    BY <1>1, <1>3, <1>4, <2>1, <2>2 DEF Take
\* The executions: those of j are closed but the new one.
<1>8. /\ execution' \in [Jobs -> [Attempts -> ExecutionState]]
      /\ \A k \in Jobs \ {j}, a \in Attempts :
           execution'[k][a] =
             IF k \in J /\ execution[k][a] = "OPEN" THEN "EXHAUSTED" ELSE execution[k][a]
      /\ \A a \in Attempts : execution'[j][a] = "OPEN" <=> a = attempt
  <2>1. /\ SweptExecution(J) \in [Jobs -> [Attempts -> ExecutionState]]
        /\ \A k \in Jobs, a \in Attempts :
             SweptExecution(J)[k][a] =
               IF k \in J /\ execution[k][a] = "OPEN" THEN "EXHAUSTED" ELSE execution[k][a]
    BY <1>1, SweptExecutions
  <2>2. /\ previous \in [Attempts -> ExecutionState]
        /\ \A a \in Attempts : previous[a] # "OPEN"
    <3>1. "TIMEOUT" \in ExecutionState
      BY DEF ExecutionState
    <3>2. \A a \in Attempts : execution[j][a] = "OPEN" => status[j] = "RUNNING"
      BY <1>1 DEF IInv, OpenExecutionHoldsTheLease
    <3>3. QED
      BY <1>1, <1>4, <3>1, <3>2 DEF CloseOpen
  <2>3. execution' = [SweptExecution(J) EXCEPT ![j] = [previous EXCEPT ![attempt] = "OPEN"]]
    BY DEF Take
  <2>4. [previous EXCEPT ![attempt] = "OPEN"] \in [Attempts -> ExecutionState]
    BY <1>3, <2>2 DEF ExecutionState
  <2>5. QED
    BY <1>1, <1>3, <2>1, <2>2, <2>3, <2>4
\* The runner.
<1>9. /\ pc' = [pc EXCEPT ![w] = location] /\ err' = [err EXCEPT ![w] = error]
      /\ claim' = [claim EXCEPT ![w] = granted] /\ idx' = idx /\ lost' = lost
      /\ UNCHANGED <<checkpoint, action, performed>>
  BY DEF Take, stepVars
<1>10. /\ pc'[w] = location /\ err'[w] = error /\ claim'[w] = granted /\ idx'[w] = 1
       /\ pc' \in [Workers -> Location] /\ err' \in [Workers -> ErrorClass \cup {"none"}]
       /\ claim' \in [Workers -> ClaimedJob]
       /\ \A v \in Workers \ {w} : Stays(v)
  <2>1. granted \in ClaimedJob /\ location \in Location /\ error \in ErrorClass \cup {"none"}
    BY <1>1, <1>3 DEF ClaimedJob, Location, ErrorClass
  <2>2. /\ pc \in [Workers -> Location] /\ err \in [Workers -> ErrorClass \cup {"none"}]
        /\ claim \in [Workers -> ClaimedJob] /\ idx[w] = 1
    BY DEF IInv, TypeOK, Local, ClaimShape
  <2>3. QED
    BY <1>9, <2>1, <2>2 DEF Stays
<1>11. TypeOK'
  BY <1>6, <1>7, <1>8, <1>9, <1>10 DEF IInv, TypeOK
<1>12. \A v \in Workers \ {w} : pc[v] # "idle" =>
         /\ claim[v].job \in Jobs
         /\ claim[v].job = j => claim[v].token # attempt
         /\ Respects(v)
  <2>1. SUFFICES ASSUME NEW v \in Workers \ {w}, pc[v] # "idle"
                 PROVE  /\ claim[v].job \in Jobs
                        /\ claim[v].job = j => claim[v].token # attempt
                        /\ Respects(v)
    OBVIOUS
  <2>2. claim[v].job \in Jobs /\ Stays(v) /\ claim[v].token \in 1..lastAttempt[claim[v].job]
    BY <1>10, <2>1 DEF IInv, Local, ClaimShape
  <2>3. lastAttempt[claim[v].job] \in Nat
    BY <1>4, <2>2, ConstantsAssumption DEF ConstantsAssumption
  <2>4. claim[v].job = j => claim[v].token # attempt
    BY <1>3, <2>2, <2>3
  <2>5. Holds(claim[v])' => claim[v].job # j /\ Holds(claim[v])
    BY <1>5, <2>2, <2>4 DEF Holds, Stays
  <2>6. lastAttempt[claim[v].job] <= lastAttempt'[claim[v].job]
    BY <1>3, <1>5, <2>2, <2>3
  <2>7. QED
    BY <1>5, <1>9, <2>2, <2>4, <2>5, <2>6 DEF Respects
<1>13. Local(w)'
  <2>1. ClaimShape(w)'
    <3>1. attempt \in 1..attempt
      BY <1>3 DEF Attempts
    <3>2. QED
      BY <1>1, <1>5, <1>10, <3>1 DEF ClaimShape, ErrorClass
  <2>2. LoopShape(w)'
    BY <1>10, ConstantsAssumption DEF ConstantsAssumption, LoopShape, Steps
  <2>3. StepShape(w)'
    BY <1>10 DEF StepShape
  <2>4. QED
    BY <2>1, <2>2, <2>3 DEF Local
<1>14. \A v \in Workers : Local(v)'
  BY <1>10, <1>11, <1>12, <1>13, Bystander DEF IInv
<1>15. TokensDistinct'
  BY <1>10, <1>12 DEF TokensDistinct, IInv, Stays
<1>16. LeaseShape'
  <2>1. \A k \in Jobs : lastAttempt[k] \in Nat
    BY <1>4, ConstantsAssumption DEF ConstantsAssumption
  <2>2. attempt # NoToken /\ attempt <= attempt
    BY <1>3 DEF Attempts, NoToken
  <2>3. QED
    BY <1>5, <2>1, <2>2 DEF IInv, LeaseShape, NoToken
<1>17. OpenExecutionHoldsTheLease'
  <2>1. ASSUME NEW k \in Jobs, NEW a \in Attempts
        PROVE  execution'[k][a] = "OPEN" <=> (status'[k] = "RUNNING" /\ token'[k] = a)
    <3>1. execution[k][a] = "OPEN" <=> (status[k] = "RUNNING" /\ token[k] = a)
      BY DEF IInv, OpenExecutionHoldsTheLease
    <3>2. CASE k = j
      BY <1>5, <1>8, <3>2
    <3>3. CASE k # j /\ k \in J
      BY <1>5, <1>8, <3>3
    <3>4. CASE k # j /\ k \notin J
      <4>1. execution'[k][a] = execution[k][a] /\ status'[k] = status[k] /\ token'[k] = token[k]
        BY <1>5, <1>8, <3>4
      <4>2. QED
        BY <3>1, <4>1
    <3>5. QED
      BY <3>2, <3>3, <3>4
  <2>2. QED
    BY <2>1 DEF OpenExecutionHoldsTheLease
<1>18. RetryBudget'
  <2>1. ASSUME NEW k \in Jobs
        PROVE  /\ lastAttempt'[k] = retries'[k] +
                    (IF status'[k] \in {"RUNNING", "SUCCEEDED", "DEAD_LETTER"} THEN 1 ELSE 0)
               /\ status'[k] = "DEAD_LETTER" => retries'[k] = MaxRetries
    <3>1. CASE k = j
      BY <1>3, <1>5, <3>1
    <3>2. CASE k # j
      BY <1>1, <1>5, <3>2 DEF IInv, RetryBudget
    <3>3. QED
      BY <3>1, <3>2
  <2>2. QED
    BY <2>1 DEF RetryBudget
<1>19. SucceededJobsAreComplete'
  BY <1>5, <1>9 DEF IInv, SucceededJobsAreComplete
<1>20. RecordedStepsWerePerformed' /\ ActionFollowsCheckpoint'
  BY <1>9 DEF IInv, RecordedStepsWerePerformed, ActionFollowsCheckpoint
<1>21. QED
  BY <1>11, <1>14, <1>15, <1>16, <1>17, <1>18, <1>19, <1>20 DEF IInv

LEMMA PollPreserves ==
  ASSUME NEW w \in Workers, NEW seen \in SUBSET Jobs, IInv, Poll(w, seen)
  PROVE  IInv'
<1>1. CASE ClaimJob(w, seen)
  BY <1>1, TakePreserves DEF ClaimJob, FirstOf
<1>2. CASE ClaimNothing(w, seen)
  BY <1>2, ClaimNothingPreserves
<1>3. QED
  BY <1>1, <1>2 DEF Poll

-----------------------------------------------------------------------------
(* The safety of the runtime.                                              *)

LEMMA InitIInv == Init => IInv
<1> SUFFICES ASSUME Init PROVE IInv
  OBVIOUS
<1>1. TypeOK
  <2>1. NoCheckpoint \in Checkpoint /\ NoClaim \in ClaimedJob
    BY ConstantsAssumption
       DEF ConstantsAssumption, NoCheckpoint, Checkpoint, StepStatus, NoClaim, ClaimedJob
  <2>2. 0 \in 0..MaxRetries /\ 0 \in 0..MaxAttempts /\ 1 \in 1..(NSteps + 1)
    BY ConstantsAssumption DEF ConstantsAssumption
  <2>3. QED
    BY <2>1, <2>2
       DEF Init, TypeOK, JobStatus, LeasePhase, ExecutionState, ActionStatus, Location
<1>2. LeaseShape /\ RetryBudget /\ TokensDistinct
  BY DEF Init, LeaseShape, RetryBudget, TokensDistinct, NoToken
<1>3. OpenExecutionHoldsTheLease /\ SucceededJobsAreComplete
  BY DEF Init, OpenExecutionHoldsTheLease, SucceededJobsAreComplete
<1>4. RecordedStepsWerePerformed /\ ActionFollowsCheckpoint
  <2>1. \A j \in Jobs, s \in Steps : checkpoint[j][s].status = "ABSENT" /\ action[j][s] = "ABSENT"
    BY DEF Init, NoCheckpoint
  <2>2. QED
    BY <2>1, ConstantsAssumption
       DEF ConstantsAssumption, RecordedStepsWerePerformed, ActionFollowsCheckpoint
<1>5. \A w \in Workers : Local(w)
  BY DEF Init, Local, ClaimShape, LoopShape, StepShape
<1>6. QED
  BY <1>1, <1>2, <1>3, <1>4, <1>5 DEF IInv

LEMMA StutterIInv ==
  ASSUME IInv, UNCHANGED vars
  PROVE  IInv'
<1>1. TypeOK' /\ LeaseShape'
  BY DEF IInv, TypeOK, LeaseShape, vars, jobVars, execVars, stepVars, workerVars
<1>2. QED
  BY <1>1, NobodyMoves DEF vars, jobVars, workerVars

LEMMA NextIInv == IInv /\ [Next]_vars => IInv'
<1> SUFFICES ASSUME IInv, [Next]_vars PROVE IInv'
  OBVIOUS
<1>1. ASSUME NEW w \in Workers, NEW seen \in SUBSET Jobs, Poll(w, seen)
      PROVE  IInv'
  BY <1>1, PollPreserves
<1>2. ASSUME NEW w \in Workers, Step(w)
      PROVE  IInv'
  BY <1>2, CheckPreserves, BeginStepPreserves, ReserveActionPreserves, ExecutePreserves,
     CompleteStepPreserves, FinishPreserves, FailPreserves DEF Step
<1>3. ASSUME NEW w \in Workers, RenewLease(w) \/ HeartbeatFails(w) \/ Crash(w)
      PROVE  IInv'
  BY <1>3, RenewLeasePreserves, HeartbeatFailsPreserves, CrashPreserves
<1>4. ASSUME NEW j \in Jobs, LeaseAges(j) \/ BackoffElapses(j)
      PROVE  IInv'
  BY <1>4, LeaseAgesPreserves, BackoffElapsesPreserves
<1>5. QED
  BY <1>1, <1>2, <1>3, <1>4, StutterIInv DEF Next

\* The inductive invariant holds in every reachable state.
THEOREM Invariance == Spec => []IInv
BY InitIInv, NextIInv, PTL DEF Spec

\* Every variable stays in its type; in particular no job gets an attempt
\* number beyond MaxAttempts, so the bound of the model is never hit.
THEOREM TypeCorrect == Spec => []TypeOK
<1>1. IInv => TypeOK
  BY DEF IInv
<1>2. QED
  BY <1>1, Invariance, PTL

\* claim, finish, fail and the sweep close executions exactly when the lease
\* they ran under ends.
THEOREM ExecutionsFollowLeases == Spec => []OpenExecutionHoldsTheLease
<1>1. IInv => OpenExecutionHoldsTheLease
  BY DEF IInv
<1>2. QED
  BY <1>1, Invariance, PTL

\* Takeovers and failed attempts never give a job more than MaxRetries + 1
\* executions, and it is buried only when they are spent.
THEOREM RetriesAreBounded == Spec => []RetryBudget
<1>1. IInv => RetryBudget
  BY DEF IInv
<1>2. QED
  BY <1>1, Invariance, PTL

\* The retry count returned by claim is still the row's when fail decides by it.
THEOREM DecisionsAreCurrent == Spec => []ClaimedRetriesAreCurrent
<1>1. IInv => ClaimedRetriesAreCurrent
  BY DEF IInv, ClaimedRetriesAreCurrent, HoldsNow, Local, ClaimShape, NoClaim
<1>2. QED
  BY <1>1, Invariance, PTL

\* No job has two holders, whatever the clocks of the workers say.
THEOREM MutualExclusion == Spec => []OneHolder
<1>1. IInv => OneHolder
  <2>1. SUFFICES ASSUME IInv, NEW v \in Workers, NEW w \in Workers,
                        HoldsNow(v), HoldsNow(w), claim[v].job = claim[w].job
                 PROVE  v = w
    BY DEF OneHolder
  <2>2. pc[v] # "idle" /\ pc[w] # "idle"
    BY <2>1 DEF IInv, HoldsNow, Local, ClaimShape, NoClaim
  <2>3. claim[v].token = claim[w].token
    BY <2>1 DEF HoldsNow, Holds
  <2>4. QED
    BY <2>1, <2>2, <2>3 DEF IInv, TokensDistinct
<1>2. QED
  BY <1>1, Invariance, PTL

\* The holder of a job never runs or records a step that is already recorded.
THEOREM RecordedStepsAreNotRunAgain == Spec => []HolderRunsUnrecordedSteps
<1>1. IInv => HolderRunsUnrecordedSteps
  <2>1. SUFFICES ASSUME IInv, NEW w \in Workers, HoldsNow(w),
                        pc[w] \in {"reserve", "execute", "complete"}
                 PROVE  OwnsCheckpoint(claim[w], idx[w])
    BY DEF HolderRunsUnrecordedSteps
  <2>2. Local(w) /\ Holds(claim[w]) /\ pc[w] # "idle"
    BY <2>1 DEF IInv, HoldsNow
  <2>3. QED
    BY <2>1, <2>2 DEF Local, StepShape
<1>2. QED
  BY <1>1, Invariance, PTL

\* A recorded step was performed by the attempt that recorded it.
THEOREM RecordsAreTrue == Spec => []RecordedStepsWerePerformed
<1>1. IInv => RecordedStepsWerePerformed
  BY DEF IInv
<1>2. QED
  BY <1>1, Invariance, PTL

\* A job is marked SUCCEEDED only with every step of its plan recorded.
THEOREM SuccessIsComplete == Spec => []SucceededJobsAreComplete
<1>1. IInv => SucceededJobsAreComplete
  BY DEF IInv
<1>2. QED
  BY <1>1, Invariance, PTL

\* The action of a step and its checkpoint succeed together.
THEOREM ActionsAndCheckpointsAgree == Spec => []ActionFollowsCheckpoint
<1>1. IInv => ActionFollowsCheckpoint
  BY DEF IInv
<1>2. QED
  BY <1>1, Invariance, PTL

-----------------------------------------------------------------------------
(* What one step can do to the rows of one job.                            *)

Untouched(j) ==
  /\ UNCHANGED <<status[j], retries[j], token[j], currentStep[j], lastAttempt[j], execution[j]>>
  /\ UNCHANGED <<checkpoint[j], action[j]>>

\* Every step row that changes is written under the lease on the job.
FencedWrites(j) ==
  \A s \in Steps :
    \/ checkpoint'[j][s] = checkpoint[j][s] /\ action'[j][s] = action[j][s]
    \/ checkpoint'[j][s].token = token[j] /\ checkpoint[j][s].status # "SUCCEEDED"

\* The holder writes a step row.
Written(j) ==
  /\ status[j] = "RUNNING"
  /\ UNCHANGED <<status[j], token[j], lastAttempt[j]>>
  /\ FencedWrites(j)
  /\ \/ RecordedOf(j)' = RecordedOf(j)
     \/ \E s \in Steps : s \notin RecordedOf(j) /\ RecordedOf(j)' = RecordedOf(j) \cup {s}

\* The holder gives the job up.
GivenUp(j) ==
  /\ status[j] = "RUNNING"
  /\ UNCHANGED lastAttempt[j]
  /\ FencedWrites(j)
  /\ RecordedOf(j)' = RecordedOf(j)
  /\ \E w \in Workers : claim[w].job = j /\ claim[w].token = token[j] /\ pc[w] \in {"finish", "fail"}
  /\ \/ status'[j] = "SUCCEEDED" /\ RecordedOf(j) = Steps
     \/ status'[j] = "RETRY_SCHEDULED" /\ retries[j] < MaxRetries
     \/ status'[j] = "DEAD_LETTER" /\ retries[j] = MaxRetries

Granted(j) ==
  /\ Claimable(j)
  /\ status'[j] = "RUNNING" /\ lastAttempt'[j] = lastAttempt[j] + 1
  /\ UNCHANGED <<checkpoint[j], action[j]>>

Buried(j) ==
  /\ Exhausted(j)
  /\ status'[j] = "DEAD_LETTER" /\ lastAttempt'[j] = lastAttempt[j]
  /\ UNCHANGED <<checkpoint[j], action[j]>>

\* A holder step touches only the job that worker holds.
LEMMA BeginRows ==
  ASSUME NEW w \in Workers, NEW h \in Hashes, IInv, pc[w] = "begin", BeginCommits(w, h),
         NEW j \in Jobs
  PROVE  Untouched(j) \/ Written(j)
<1> DEFINE c == claim[w]
           s == idx[w]
           prior == checkpoint[c.job][s]
<1>1. /\ c.job \in Jobs /\ s \in Steps /\ token[c.job] = c.token /\ status[c.job] = "RUNNING"
      /\ checkpoint \in [Jobs -> [Steps -> Checkpoint]]
      /\ currentStep \in [Jobs -> Steps \cup {NoStep}]
  BY DEF BeginCommits, LeaseAsserted, Holds, IInv, TypeOK, Local, ClaimShape, LoopShape
<1>2. UNCHANGED <<status, retries, token, lastAttempt, execution, action>>
  BY DEF BeginCommits, execVars
<1>3. CASE prior.status = "SUCCEEDED"
  BY <1>2, <1>3 DEF BeginCommits, Untouched
<1>4. CASE prior.status # "SUCCEEDED"
  <2>1. /\ checkpoint' = [checkpoint EXCEPT ![c.job][s] = StartedRow(c, h, prior)]
        /\ currentStep' = [currentStep EXCEPT ![c.job] = s]
    BY <1>4 DEF BeginCommits
  <2>2. CASE j # c.job
    BY <1>1, <1>2, <2>1, <2>2 DEF Untouched
  <2>3. CASE j = c.job
    <3>1. \A t \in Steps : checkpoint'[j][t] = IF t = s THEN StartedRow(c, h, prior)
                                               ELSE checkpoint[j][t]
      BY <1>1, <2>1, <2>3
    <3>2. StartedRow(c, h, prior).status = "STARTED" /\ StartedRow(c, h, prior).token = c.token
      BY DEF StartedRow
    <3>3. FencedWrites(j)
      BY <1>1, <1>2, <1>4, <2>3, <3>1, <3>2 DEF FencedWrites
    <3>4. RecordedOf(j)' = RecordedOf(j)
      BY <1>4, <2>3, <3>1, <3>2 DEF RecordedOf
    <3>5. QED
      BY <1>1, <1>2, <2>3, <3>3, <3>4 DEF Written
  <2>4. QED
    BY <2>2, <2>3
<1>5. QED
  BY <1>3, <1>4

LEMMA ReserveRows ==
  ASSUME NEW w \in Workers, IInv, pc[w] = "reserve", ReserveCommits(w), NEW j \in Jobs
  PROVE  Untouched(j) \/ Written(j)
<1> DEFINE c == claim[w]
           s == idx[w]
<1>1. /\ c.job \in Jobs /\ s \in Steps /\ token[c.job] = c.token /\ status[c.job] = "RUNNING"
      /\ OwnsCheckpoint(c, s)
      /\ action \in [Jobs -> [Steps -> ActionStatus]]
  BY DEF ReserveCommits, LeaseAsserted, Holds, IInv, TypeOK, Local, ClaimShape, LoopShape
<1>2. /\ UNCHANGED <<status, retries, token, lastAttempt, execution, currentStep, checkpoint>>
      /\ action' = [action EXCEPT ![c.job][s] = "PENDING"]
  BY DEF ReserveCommits, execVars, jobVars
<1>3. CASE j # c.job
  BY <1>1, <1>2, <1>3 DEF Untouched
<1>4. CASE j = c.job
  <2>1. \A t \in Steps : t # s => action'[j][t] = action[j][t]
    BY <1>1, <1>2, <1>4
  <2>2. FencedWrites(j)
    BY <1>1, <1>2, <1>4, <2>1 DEF FencedWrites, OwnsCheckpoint
  <2>3. RecordedOf(j)' = RecordedOf(j)
    BY <1>2 DEF RecordedOf
  <2>4. QED
    BY <1>1, <1>2, <1>4, <2>2, <2>3 DEF Written
<1>5. QED
  BY <1>3, <1>4

LEMMA CompleteRows ==
  ASSUME NEW w \in Workers, IInv, pc[w] = "complete", CompleteCommits(w), NEW j \in Jobs
  PROVE  Untouched(j) \/ Written(j)
<1> DEFINE c == claim[w]
           s == idx[w]
           done == [checkpoint[c.job][s] EXCEPT !.status = "SUCCEEDED"]
<1>1. /\ c.job \in Jobs /\ s \in Steps /\ token[c.job] = c.token /\ status[c.job] = "RUNNING"
      /\ OwnsCheckpoint(c, s)
      /\ action \in [Jobs -> [Steps -> ActionStatus]]
      /\ checkpoint \in [Jobs -> [Steps -> Checkpoint]]
  BY DEF CompleteCommits, LeaseAsserted, Holds, IInv, TypeOK, Local, ClaimShape, LoopShape
<1>2. /\ UNCHANGED <<status, retries, token, lastAttempt, execution, currentStep>>
      /\ checkpoint' = [checkpoint EXCEPT ![c.job][s] = done]
      /\ action' = [action EXCEPT ![c.job][s] = Completed(action[c.job][s])]
  BY <1>1 DEF CompleteCommits, execVars, jobVars
<1>3. CASE j # c.job
  BY <1>1, <1>2, <1>3 DEF Untouched
<1>4. CASE j = c.job
  <2>1. /\ \A t \in Steps : t # s => /\ action'[j][t] = action[j][t]
                                     /\ checkpoint'[j][t] = checkpoint[j][t]
        /\ checkpoint'[j][s] = done
    BY <1>1, <1>2, <1>4
  <2>2. done.token = c.token /\ done.status = "SUCCEEDED"
    <3>1. checkpoint[c.job][s] \in Checkpoint
      BY <1>1
    <3>2. QED
      BY <1>1, <3>1 DEF Checkpoint, OwnsCheckpoint
  <2>3. checkpoint[j][s].status = "STARTED"
    BY <1>1, <1>4 DEF OwnsCheckpoint
  <2>4. FencedWrites(j)
    BY <1>1, <1>4, <2>1, <2>2, <2>3 DEF FencedWrites
  <2>5. s \notin RecordedOf(j) /\ RecordedOf(j)' = RecordedOf(j) \cup {s}
    <3>1. \A t \in Steps :
            checkpoint'[j][t].status = "SUCCEEDED" <=>
              (t = s \/ checkpoint[j][t].status = "SUCCEEDED")
      BY <2>1, <2>2
    <3>2. RecordedOf(j)' = {t \in Steps : checkpoint'[j][t].status = "SUCCEEDED"}
      BY DEF RecordedOf
    <3>3. RecordedOf(j)' = RecordedOf(j) \cup {s}
      BY <1>1, <3>1, <3>2 DEF RecordedOf
    <3>4. s \notin RecordedOf(j)
      BY <2>3 DEF RecordedOf
    <3>5. QED
      BY <3>3, <3>4
  <2>6. QED
    BY <1>1, <1>2, <1>4, <2>4, <2>5 DEF Written
<1>5. QED
  BY <1>3, <1>4

LEMMA FinishRows ==
  ASSUME NEW w \in Workers, IInv, pc[w] = "finish", FinishCommits(w), NEW j \in Jobs
  PROVE  Untouched(j) \/ GivenUp(j)
<1> DEFINE c == claim[w]
<1>1. /\ c.job \in Jobs /\ token[c.job] = c.token /\ status[c.job] = "RUNNING"
      /\ idx[w] = NSteps + 1
      /\ \A s \in Steps : s < idx[w] => checkpoint[c.job][s].status = "SUCCEEDED"
  BY DEF FinishCommits, Holds, IInv, Local, ClaimShape, LoopShape
<1>2. /\ UNCHANGED <<retries, lastAttempt, checkpoint, action>>
      /\ status' = [status EXCEPT ![c.job] = "SUCCEEDED"]
      /\ token' = [token EXCEPT ![c.job] = NoToken]
      /\ currentStep' = [currentStep EXCEPT ![c.job] = NoStep]
      /\ EndExecution(c, "SUCCEEDED")
  BY DEF FinishCommits, stepVars, GiveUpLease
<1>3. /\ status \in [Jobs -> JobStatus] /\ token \in [Jobs -> Attempts \cup {NoToken}]
      /\ currentStep \in [Jobs -> Steps \cup {NoStep}]
      /\ execution \in [Jobs -> [Attempts -> ExecutionState]]
  BY DEF IInv, TypeOK
<1>4. CASE j # c.job
  BY <1>1, <1>2, <1>3, <1>4 DEF Untouched, EndExecution
<1>5. CASE j = c.job
  <2>1. \A s \in Steps : checkpoint[c.job][s].status = "SUCCEEDED"
    BY <1>1, ConstantsAssumption DEF ConstantsAssumption, Steps
  <2>2. RecordedOf(j) = Steps /\ RecordedOf(j)' = RecordedOf(j)
    BY <1>2, <1>5, <2>1 DEF RecordedOf
  <2>3. status'[j] = "SUCCEEDED" /\ UNCHANGED lastAttempt[j] /\ FencedWrites(j)
    BY <1>1, <1>2, <1>3, <1>5 DEF FencedWrites
  <2>4. QED
    BY <1>1, <1>5, <2>2, <2>3 DEF GivenUp
<1>6. QED
  BY <1>4, <1>5

LEMMA FailRows ==
  ASSUME NEW w \in Workers, IInv, pc[w] = "fail", FailCommits(w), NEW j \in Jobs
  PROVE  Untouched(j) \/ GivenUp(j)
<1> DEFINE c == claim[w]
           st == IF OutOfRetries(c) THEN "DEAD_LETTER" ELSE "RETRY_SCHEDULED"
<1>1. /\ c.job \in Jobs /\ token[c.job] = c.token /\ status[c.job] = "RUNNING"
      /\ c.retries = retries[c.job]
      /\ retries[c.job] \in 0..MaxRetries /\ MaxRetries \in Nat
  BY ConstantsAssumption
     DEF ConstantsAssumption, FailCommits, Holds, IInv, TypeOK, Local, ClaimShape
<1>2. /\ UNCHANGED lastAttempt
      /\ status' = [status EXCEPT ![c.job] = st]
      /\ retries' = [retries EXCEPT ![c.job] = IF OutOfRetries(c) THEN @ ELSE @ + 1]
      /\ token' = [token EXCEPT ![c.job] = NoToken]
      /\ currentStep' = [currentStep EXCEPT ![c.job] = NoStep]
      /\ EndExecution(c, err[w])
      /\ FailSteps(c)
  BY DEF FailCommits, GiveUpLease
<1>3. /\ status \in [Jobs -> JobStatus] /\ token \in [Jobs -> Attempts \cup {NoToken}]
      /\ currentStep \in [Jobs -> Steps \cup {NoStep}] /\ retries \in [Jobs -> 0..MaxRetries]
      /\ execution \in [Jobs -> [Attempts -> ExecutionState]]
      /\ checkpoint \in [Jobs -> [Steps -> Checkpoint]]
      /\ action \in [Jobs -> [Steps -> ActionStatus]]
  BY DEF IInv, TypeOK
<1>4. CASE j # c.job
  BY <1>1, <1>2, <1>3, <1>4 DEF Untouched, EndExecution, FailSteps
<1>5. CASE j = c.job
  <2>1. \A s \in Steps :
          /\ checkpoint'[j][s] =
               IF s \in FailedSteps(c) THEN [checkpoint[j][s] EXCEPT !.status = "FAILED"]
               ELSE checkpoint[j][s]
          /\ s \notin FailedSteps(c) => action'[j][s] = action[j][s]
    BY <1>1, <1>2, <1>3, <1>5 DEF FailSteps
  <2>2. ASSUME NEW s \in FailedSteps(c)
        PROVE  /\ s \in Steps /\ checkpoint[j][s].status = "STARTED"
               /\ checkpoint'[j][s].token = token[j] /\ checkpoint'[j][s].status = "FAILED"
    <3>1. s \in Steps /\ checkpoint[j][s] \in Checkpoint /\ OwnsCheckpoint(c, s)
      BY <1>3, <2>2 DEF FailedSteps
    <3>2. QED
      BY <1>1, <1>5, <2>1, <2>2, <3>1 DEF Checkpoint, OwnsCheckpoint
  <2>3. FencedWrites(j)
    BY <2>1, <2>2 DEF FencedWrites
  <2>4. RecordedOf(j)' = RecordedOf(j)
    BY <2>1, <2>2 DEF RecordedOf
  <2>5. /\ status'[j] = st
        /\ OutOfRetries(c) => retries[j] = MaxRetries
        /\ ~OutOfRetries(c) => retries[j] < MaxRetries
    <3>1. status'[j] = st
      BY <1>1, <1>2, <1>3, <1>5
    <3>2. OutOfRetries(c) <=> retries[j] >= MaxRetries
      BY <1>1, <1>5 DEF OutOfRetries
    <3>3. QED
      BY <1>1, <1>5, <3>1, <3>2
  <2>6. \E v \in Workers : /\ claim[v].job = j /\ claim[v].token = token[j]
                           /\ pc[v] \in {"finish", "fail"}
    BY <1>1, <1>5
  <2>7. QED
    BY <1>1, <1>2, <1>5, <2>3, <2>4, <2>5, <2>6 DEF GivenUp
<1>6. QED
  BY <1>4, <1>5

LEMMA PollRows ==
  ASSUME NEW w \in Workers, NEW seen \in SUBSET Jobs, IInv, Poll(w, seen), NEW j \in Jobs
  PROVE  Untouched(j) \/ Granted(j) \/ Buried(j)
<1> DEFINE J == Swept(seen)
<1>1. /\ status \in [Jobs -> JobStatus] /\ token \in [Jobs -> Attempts \cup {NoToken}]
      /\ currentStep \in [Jobs -> Steps \cup {NoStep}] /\ retries \in [Jobs -> 0..MaxRetries]
      /\ lastAttempt \in [Jobs -> 0..MaxAttempts]
      /\ execution \in [Jobs -> [Attempts -> ExecutionState]]
  BY DEF IInv, TypeOK
<1>2. CASE ClaimNothing(w, seen)
  <2>1. CASE j \in J
    BY <1>2, <2>1 DEF ClaimNothing, Sweep, Swept, Buried, stepVars
  <2>2. CASE j \notin J
    BY <1>2, <2>2 DEF ClaimNothing, Sweep, SweptExecution, Untouched, stepVars
  <2>3. QED
    BY <2>1, <2>2
<1>3. ASSUME NEW k \in FirstOf(Ready(seen)), Take(w, seen, k)
      PROVE  Untouched(j) \/ Granted(j) \/ Buried(j)
  <2>1. k \in Jobs /\ Claimable(k)
    BY <1>3 DEF FirstOf, Ready
  <2>2. CASE j = k
    BY <1>1, <1>3, <2>1, <2>2 DEF Take, NextAttempt, Sweep, Granted, stepVars
  <2>3. CASE j # k /\ j \in J
    BY <1>1, <1>3, <2>1, <2>3 DEF Take, Sweep, Swept, Buried, stepVars
  <2>4. CASE j # k /\ j \notin J
    BY <1>1, <1>3, <2>1, <2>4 DEF Take, Sweep, SweptExecution, Untouched, stepVars
  <2>5. QED
    BY <2>2, <2>3, <2>4
<1>4. QED
  BY <1>2, <1>3 DEF Poll, ClaimJob

\* Every step does one of these to the rows of a job.
LEMMA NextRows ==
  ASSUME IInv, [Next]_vars, NEW j \in Jobs
  PROVE  Untouched(j) \/ Written(j) \/ GivenUp(j) \/ Granted(j) \/ Buried(j)
<1>1. ASSUME UNCHANGED <<status, retries, token, currentStep, execVars, stepVars>>
      PROVE  Untouched(j)
  BY <1>1 DEF Untouched, execVars, stepVars
<1>2. CASE UNCHANGED vars
  BY <1>1, <1>2 DEF vars, jobVars
<1>3. ASSUME NEW w \in Workers, NEW seen \in SUBSET Jobs, Poll(w, seen)
      PROVE  Untouched(j) \/ Granted(j) \/ Buried(j)
  BY <1>3, PollRows
<1>4. ASSUME NEW w \in Workers, Step(w)
      PROVE  Untouched(j) \/ Written(j) \/ GivenUp(j)
  <2>1. CASE Check(w) \/ Execute(w) \/ Rollback(w) \/ LeaseLost(w)
    BY <1>1, <2>1 DEF Check, Execute, Rollback, LeaseLost, jobVars
  <2>2. CASE BeginStep(w)
    BY <2>1, <2>2, BeginRows DEF BeginStep
  <2>3. CASE ReserveAction(w)
    BY <2>1, <2>3, ReserveRows DEF ReserveAction
  <2>4. CASE CompleteStep(w)
    BY <2>1, <2>4, CompleteRows DEF CompleteStep
  <2>5. CASE Finish(w)
    BY <2>1, <2>5, FinishRows DEF Finish
  <2>6. CASE Fail(w)
    BY <2>1, <2>6, FailRows DEF Fail
  <2>7. QED
    BY <1>4, <2>1, <2>2, <2>3, <2>4, <2>5, <2>6 DEF Step
<1>5. ASSUME NEW w \in Workers, RenewLease(w) \/ HeartbeatFails(w) \/ Crash(w)
      PROVE  Untouched(j)
  BY <1>1, <1>5 DEF RenewLease, HeartbeatFails, Crash, jobVars
<1>6. ASSUME NEW k \in Jobs, LeaseAges(k) \/ BackoffElapses(k)
      PROVE  Untouched(j)
  BY <1>1, <1>6 DEF LeaseAges, BackoffElapses
<1>7. QED
  BY <1>2, <1>3, <1>4, <1>5, <1>6 DEF Next

-----------------------------------------------------------------------------
(* Action properties, and the contract.                                    *)

\* What a checkpoint or an action says is written only under the lease that is
\* on the job, and never over a recorded step: zombies cannot write.
THEOREM WritesAreFenced == Spec => StepWritesAreFenced
<1> DEFINE Fenced == \A j \in Jobs, s \in Steps :
             <<checkpoint[j][s], action[j][s]>>' # <<checkpoint[j][s], action[j][s]>> =>
               /\ status[j] = "RUNNING"
               /\ checkpoint'[j][s].token = token[j]
               /\ checkpoint[j][s].status # "SUCCEEDED"
<1>1. IInv /\ [Next]_vars => Fenced
  BY NextRows DEF Untouched, Written, GivenUp, Granted, Buried, FencedWrites
<1>2. IInv /\ [Next]_vars => [Fenced]_vars
  BY <1>1
<1>3. QED
  BY <1>2, Invariance, PTL DEF Spec, StepWritesAreFenced

\* No row of an ended job ever changes, whatever zombies still do.
THEOREM EndedJobsStay == Spec => EndedJobsAreFrozen
<1> DEFINE Frozen == \A j \in Jobs : Ended(j) =>
             UNCHANGED <<status[j], retries[j], token[j], currentStep[j], lastAttempt[j],
                         execution[j], checkpoint[j], action[j]>>
<1>1. IInv /\ [Next]_vars => Frozen
  BY NextRows DEF Ended, Untouched, Written, GivenUp, Granted, Buried, Claimable, Exhausted
<1>2. IInv /\ [Next]_vars => [Frozen]_vars
  BY <1>1
<1>3. QED
  BY <1>2, Invariance, PTL DEF Spec, EndedJobsAreFrozen

\* While every clock agrees that the lease of a job is live, only the worker
\* that holds it, at the end of its attempt, takes the lease off.
THEOREM LiveLeasesAreRespected == Spec => LeaseIsNotStolen
<1> DEFINE Kept == \A j \in Jobs : lease[j] = "live" /\ token'[j] # token[j] =>
             \E w \in Workers : /\ claim[w].job = j /\ claim[w].token = token[j]
                                /\ pc[w] \in {"finish", "fail"}
<1>1. ASSUME IInv, [Next]_vars, NEW j \in Jobs, lease[j] = "live", token'[j] # token[j]
      PROVE  \E w \in Workers : /\ claim[w].job = j /\ claim[w].token = token[j]
                                /\ pc[w] \in {"finish", "fail"}
  <2>1. status[j] = "RUNNING" /\ ~SeenExpired(j)
    BY <1>1 DEF IInv, LeaseShape, SeenExpired
  <2>2. ~Claimable(j) /\ ~Exhausted(j)
    BY <2>1 DEF Claimable, Exhausted
  <2>3. GivenUp(j)
    BY <1>1, <2>2, NextRows DEF Untouched, Written, Granted, Buried
  <2>4. QED
    BY <2>3 DEF GivenUp
<1>2. IInv /\ [Next]_vars => [Kept]_vars
  BY <1>1
<1>3. QED
  BY <1>2, Invariance, PTL DEF Spec, LeaseIsNotStolen

\* The five ways a job's rows move are the five actions of its contract.
LEMMA StepImplements ==
  ASSUME IInv, IInv', [Next]_vars, NEW j \in Jobs
  PROVE  Of(j)!Advance \/ UNCHANGED Of(j)!contractVars
<1>1. /\ retries[j] \in 0..MaxRetries /\ MaxRetries \in Nat /\ lastAttempt[j] \in Nat
      /\ status[j] \in JobStatus
      /\ lastAttempt[j] = retries[j] +
           (IF status[j] \in {"RUNNING", "SUCCEEDED", "DEAD_LETTER"} THEN 1 ELSE 0)
  BY ConstantsAssumption DEF ConstantsAssumption, IInv, TypeOK, RetryBudget
<1>2. CASE Untouched(j)
  BY <1>2 DEF Untouched, Of!contractVars, PhaseOf, RecordedOf
<1>3. CASE Written(j)
  <2>1. PhaseOf(j) = "granted" /\ PhaseOf(j)' = "granted" /\ lastAttempt'[j] = lastAttempt[j]
    BY <1>3 DEF Written, PhaseOf
  <2>2. CASE RecordedOf(j)' = RecordedOf(j)
    BY <2>1, <2>2 DEF Of!contractVars
  <2>3. CASE \E s \in Steps : s \notin RecordedOf(j) /\ RecordedOf(j)' = RecordedOf(j) \cup {s}
    BY <2>1, <2>3 DEF Of!Advance, Of!Record
  <2>4. QED
    BY <1>3, <2>2, <2>3 DEF Written
<1>4. CASE GivenUp(j)
  <2>1. /\ PhaseOf(j) = "granted" /\ lastAttempt'[j] = lastAttempt[j]
        /\ RecordedOf(j)' = RecordedOf(j) /\ lastAttempt[j] = retries[j] + 1
    BY <1>1, <1>4 DEF GivenUp, PhaseOf
  <2>2. CASE status'[j] = "SUCCEEDED" /\ RecordedOf(j) = Steps
    <3>1. PhaseOf(j)' = "succeeded"
      BY <2>2 DEF PhaseOf
    <3>2. QED
      BY <2>1, <2>2, <3>1 DEF Of!Advance, Of!Succeed
  <2>3. CASE status'[j] = "RETRY_SCHEDULED" /\ retries[j] < MaxRetries
    <3>1. PhaseOf(j)' = "ready"
      BY <2>3 DEF PhaseOf
    <3>2. lastAttempt[j] < MaxRetries + 1
      BY <1>1, <2>1, <2>3
    <3>3. QED
      BY <2>1, <3>1, <3>2 DEF Of!Advance, Of!Yield
  <2>4. CASE status'[j] = "DEAD_LETTER" /\ retries[j] = MaxRetries
    <3>1. PhaseOf(j)' = "buried"
      BY <2>4 DEF PhaseOf
    <3>2. QED
      BY <2>1, <2>4, <3>1 DEF Of!Advance, Of!Bury
  <2>5. QED
    BY <1>4, <2>2, <2>3, <2>4 DEF GivenUp
<1>5. CASE Granted(j)
  <2>1. PhaseOf(j) \in {"ready", "granted"} /\ PhaseOf(j)' = "granted"
    BY <1>5 DEF Granted, Claimable, PhaseOf
  <2>2. lastAttempt[j] < MaxRetries + 1 /\ lastAttempt'[j] = lastAttempt[j] + 1
    BY <1>1, <1>5 DEF Granted, Claimable
  <2>3. RecordedOf(j)' = RecordedOf(j)
    BY <1>5 DEF Granted, RecordedOf
  <2>4. QED
    BY <2>1, <2>2, <2>3 DEF Of!Advance, Of!Grant
<1>6. CASE Buried(j)
  <2>1. PhaseOf(j) = "granted" /\ PhaseOf(j)' = "buried"
    BY <1>6 DEF Buried, Exhausted, PhaseOf
  <2>2. lastAttempt[j] = MaxRetries + 1 /\ lastAttempt'[j] = lastAttempt[j]
    BY <1>1, <1>6 DEF Buried, Exhausted
  <2>3. RecordedOf(j)' = RecordedOf(j)
    BY <1>6 DEF Buried, RecordedOf
  <2>4. QED
    BY <2>1, <2>2, <2>3 DEF Of!Advance, Of!Bury
<1>7. QED
  BY <1>2, <1>3, <1>4, <1>5, <1>6, NextRows

\* With workers that crash, clocks that disagree and answers that are lost,
\* every job still goes the way its contract says.
THEOREM Refinement == Spec => ImplementsContract
<1> DEFINE Starts == \A j \in Jobs : Of(j)!Start
           Moves == \A j \in Jobs : Of(j)!Advance \/ UNCHANGED Of(j)!contractVars
<1>1. Init => Starts
  <2>1. SUFFICES ASSUME Init, NEW j \in Jobs
                 PROVE  Of(j)!Start
    OBVIOUS
  <2>2. PhaseOf(j) = "ready" /\ lastAttempt[j] = 0 /\ RecordedOf(j) = {}
    BY <2>1 DEF Init, PhaseOf, RecordedOf, NoCheckpoint
  <2>3. QED
    BY <2>2 DEF Of!Start
<1>2. IInv /\ IInv' /\ [Next]_vars => [Moves]_vars
  BY StepImplements
<1>3. QED
  BY <1>1, <1>2, Invariance, PTL DEF Spec, ImplementsContract

=============================================================================

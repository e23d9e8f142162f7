---------------------------- MODULE CoreCommands ----------------------------
(***************************************************************************)
(* The write commands of Core API on jobs and approvals (control-services  *)
(* .ts) over PostgreSQL (postgres-adapters.ts): create, retry and cancel a *)
(* job, request and decide an approval, each under an idempotency key.     *)
(*                                                                         *)
(* A command runs inside one READ COMMITTED transaction.  It first reads   *)
(* the idempotency ledger without a lock, then locks the row it is about   *)
(* (SELECT ... FOR UPDATE), checks it, and at last writes row, audit event *)
(* and ledger record, which become visible together at COMMIT.  Between    *)
(* these three points other commands and the job executors go on, so they  *)
(* are the steps of a handler here; the primary key of the ledger, not the *)
(* read, decides between two commands with one key.                        *)
(*                                                                         *)
(* Clients may send any command at any time, so also again after an answer *)
(* that was lost, and with a key they used for another payload.            *)
(***************************************************************************)
EXTENDS Naturals, Sequences, FiniteSets

CONSTANTS
  Slots,       \* requests that Core API handles at the same time
  Operations,  \* the commands that clients send
  Keys,        \* idempotency keys of each operation
  Payloads,    \* payloads of JOB_CREATE: job type, input and priority
  Jobs,        \* identifiers newId can give to a job
  Approvals,   \* identifiers newId can give to an approval
  Users,       \* principals of the organization
  Humans,      \* those whose role may decide approvals
  None,        \* no row, no user, no slot, no key
  MaxRetries   \* 3 in the source

AllOperations == {"JOB_CREATE", "JOB_RETRY", "JOB_CANCEL", "APPROVAL_CREATE", "APPROVAL_DECIDE"}
Decisions == {"APPROVED", "REJECTED"}
Rows == Jobs \cup Approvals

ASSUME CoreAssumption ==
  /\ Operations \subseteq AllOperations
  /\ Humans \subseteq Users
  /\ Jobs \cap Approvals = {}
  /\ None \notin Slots \cup Rows \cup Users \cup Keys \cup Payloads \cup Decisions
  /\ MaxRetries \in Nat

VARIABLES
  status, retries, jobKey,   \* rhia.job: status, retry_count, idempotency_key
  executions,                \* rhia.execution: those of a job, by attempt
  approval,                  \* rhia.approval: status, job, requester, approver
  expired,                   \* the approvals whose expires_at has passed
  lockedBy,                  \* which transaction holds the row lock
  ledger,                    \* rhia.core_idempotency, by operation and key
  writes,                    \* rhia.audit_event: events per operation and key
  pc, cmd, copy, answer      \* a handler: where, its command, retryCount read

jobVars == <<status, retries, jobKey, executions>>
approvalVars == <<approval, expired>>
handlerVars == <<pc, cmd, copy, answer>>
vars == <<jobVars, approvalVars, lockedBy, ledger, writes, handlerVars>>

JobStatus == {"ABSENT", "PENDING", "QUEUED", "RUNNING", "RETRY_SCHEDULED",
              "SUCCEEDED", "PARTIAL", "FAILED", "CANCELLED", "DEAD_LETTER"}
ApprovalStatus == {"ABSENT", "PENDING"} \cup Decisions

Executor == {"WORKER_SERVICE", "CORE_API"}
Execution == [executor : Executor, open : BOOLEAN]

\* The commands that pass the policy: only humans decide approvals.
Command ==
  [op : {"JOB_CREATE"}, key : Keys, row : {None}, by : {None}, choice : Payloads]
    \cup [op : {"JOB_RETRY", "JOB_CANCEL"}, key : Keys, row : Jobs, by : {None}, choice : {None}]
    \cup [op : {"APPROVAL_CREATE"}, key : Keys, row : Jobs, by : Users, choice : {None}]
    \cup [op : {"APPROVAL_DECIDE"}, key : Keys, row : Approvals, by : Humans, choice : Decisions]

\* What the ledger hashes: the payload, neither the key nor who sent it.
Fingerprint(c) == <<c.row, c.choice>>

Entry == [fingerprint : (Rows \cup {None}) \X (Payloads \cup Decisions \cup {None}), row : Rows]
NoEntry == [fingerprint |-> <<None, None>>, row |-> None]
Approval == [status : ApprovalStatus, job : Jobs \cup {None}, by : Users \cup {None},
             approver : Users \cup {None}]
NoApproval == [status |-> "ABSENT", job |-> None, by |-> None, approver |-> None]
NoCommand == [op |-> "NONE", key |-> None, row |-> None, by |-> None, choice |-> None]

Init ==
  /\ status = [j \in Jobs |-> "ABSENT"]
  /\ retries = [j \in Jobs |-> 0]
  /\ jobKey = [j \in Jobs |-> None]
  /\ executions = [j \in Jobs |-> << >>]
  /\ approval = [a \in Approvals |-> NoApproval]
  /\ expired = {}
  /\ lockedBy = [x \in Rows |-> None]
  /\ ledger = [o \in AllOperations |-> [k \in Keys |-> NoEntry]]
  /\ writes = [o \in AllOperations |-> [k \in Keys |-> 0]]
  /\ pc = [r \in Slots |-> "idle"]
  /\ cmd = [r \in Slots |-> NoCommand]
  /\ copy = [r \in Slots |-> 0]
  /\ answer = [r \in Slots |-> None]

-----------------------------------------------------------------------------
(* Helpers.                                                                *)

Recorded(c) == ledger[c.op][c.key]
SameCommand_anyPayload(c) == Recorded(c) # NoEntry
SameCommand(c) == Recorded(c) # NoEntry /\ Recorded(c).fingerprint = Fingerprint(c)

\* The response with a resource: its slot remembers what it was asked.
Respond(r, row) ==
  /\ pc' = [pc EXCEPT ![r] = "idle"]
  /\ answer' = [answer EXCEPT ![r] = row]
  /\ copy' = [copy EXCEPT ![r] = 0]
  /\ UNCHANGED cmd

\* An error response, or none at all: the client learns of no resource.
Refuse(r) ==
  /\ pc' = [pc EXCEPT ![r] = "idle"]
  /\ cmd' = [cmd EXCEPT ![r] = NoCommand]
  /\ copy' = [copy EXCEPT ![r] = 0]
  /\ UNCHANGED answer

\* The row locks of a transaction end with it.
Unlocked_leaked(r) == lockedBy
Unlocked(r) == [x \in Rows |-> IF lockedBy[x] = r THEN None ELSE lockedBy[x]]

\* FOR UPDATE waits for the transaction that holds the row.
Free_withoutForUpdate(x) == TRUE
Free(x) == lockedBy[x] = None

\* INSERT INTO rhia.execution with attempt MAX(attempt) + 1.
Started(rows, executor) == Append(rows, [executor |-> executor, open |-> TRUE])

\* UPDATE rhia.execution SET ended_at ... for some executors' open rows.
Ended(rows, executors) ==
  [n \in DOMAIN rows |->
     [rows[n] EXCEPT !.open = @ /\ rows[n].executor \notin executors]]

Goto(r, location) ==
  /\ pc' = [pc EXCEPT ![r] = location]
  /\ UNCHANGED <<cmd, answer>>

-----------------------------------------------------------------------------
(* A handler.                                                              *)

\* Bound: newId never fails, so a create that is not a repetition is sent only
\* while there are identifiers for all the keys under way.
KeysUnderWay(op) == {cmd[r].key : r \in {q \in Slots : pc[q] # "idle" /\ cmd[q].op = op}}
Unused(op) ==
  CASE op = "JOB_CREATE" -> {j \in Jobs : status[j] = "ABSENT"}
    [] op = "APPROVAL_CREATE" -> {a \in Approvals : approval[a].status = "ABSENT"}
IdentifiersLeft(c) ==
  c.op \in {"JOB_CREATE", "APPROVAL_CREATE"} /\ Recorded(c) = NoEntry =>
    Cardinality(KeysUnderWay(c.op) \cup {c.key}) <= Cardinality(Unused(c.op))

\* A request arrives at a free slot and its transaction begins.
Receive(r, c) ==
  /\ pc[r] = "idle"
  /\ c.op \in Operations
  /\ IdentifiersLeft(c)
  /\ cmd' = [cmd EXCEPT ![r] = c]
  /\ pc' = [pc EXCEPT ![r] = "lookup"]
  /\ answer' = [answer EXCEPT ![r] = None]
  /\ UNCHANGED <<jobVars, approvalVars, lockedBy, ledger, writes, copy>>

AfterLookup(c) == IF c.op = "JOB_CREATE" THEN "write" ELSE "locate"

\* idempotency.get and replay: the recorded resource, a conflict, or go on.
Lookup(r) ==
  LET c == cmd[r] IN
  /\ pc[r] = "lookup"
  /\ \/ /\ Recorded(c) = NoEntry
        /\ Goto(r, AfterLookup(c))
        /\ UNCHANGED copy
     \/ /\ SameCommand(c)
        /\ Respond(r, Recorded(c).row)
     \/ /\ Recorded(c) # NoEntry /\ ~SameCommand(c)
        /\ Refuse(r)
  /\ UNCHANGED <<jobVars, approvalVars, lockedBy, ledger, writes>>

\* What a command demands of the row it locked.
Retryable(c) == status[c.row] \in {"FAILED", "PARTIAL"} /\ retries[c.row] < MaxRetries
Cancellable(c) == status[c.row] \in {"PENDING", "QUEUED", "RETRY_SCHEDULED"}
Approvable(c) == status[c.row] \notin {"ABSENT", "CANCELLED"}
Decidable_byAnyone(c) == approval[c.row].status = "PENDING"
Decidable(c) ==
  /\ approval[c.row].status = "PENDING"
  /\ c.row \notin expired
  /\ approval[c.row].by # c.by

Admissible(c) ==
  CASE c.op = "JOB_RETRY" -> Retryable(c)
    [] c.op = "JOB_CANCEL" -> Cancellable(c)
    [] c.op = "APPROVAL_CREATE" -> Approvable(c)
    [] c.op = "APPROVAL_DECIDE" -> Decidable(c)

ReadRetries(c) == IF c.row \in Jobs THEN retries[c.row] ELSE 0

\* findById ... FOR UPDATE and the checks on what it returns.
Locate(r) ==
  LET c == cmd[r] IN
  /\ pc[r] = "locate"
  /\ Free(c.row)
  /\ \/ /\ Admissible(c)
        /\ lockedBy' = [lockedBy EXCEPT ![c.row] = r]
        /\ copy' = [copy EXCEPT ![r] = ReadRetries(c)]
        /\ Goto(r, "write")
     \/ /\ ~Admissible(c)
        /\ Refuse(r)
        /\ UNCHANGED lockedBy
  /\ UNCHANGED <<jobVars, approvalVars, ledger, writes>>

\* UPDATE rhia.job with the copy that findById returned.
UpdateJob(r, newStatus, newRetries) ==
  /\ status' = [status EXCEPT ![cmd[r].row] = newStatus]
  /\ retries' = [retries EXCEPT ![cmd[r].row] = newRetries]
  /\ UNCHANGED <<jobKey, executions, approvalVars>>

CreateJob(r, j) ==
  /\ cmd[r].op = "JOB_CREATE"
  /\ j \in Jobs /\ status[j] = "ABSENT"
  /\ status' = [status EXCEPT ![j] = "PENDING"]
  /\ jobKey' = [jobKey EXCEPT ![j] = cmd[r].key]
  /\ UNCHANGED <<retries, executions, approvalVars>>

RetryJob(r, j) ==
  /\ cmd[r].op = "JOB_RETRY" /\ j = cmd[r].row
  /\ UpdateJob(r, "RETRY_SCHEDULED", copy[r] + 1)

CancelJob(r, j) ==
  /\ cmd[r].op = "JOB_CANCEL" /\ j = cmd[r].row
  /\ UpdateJob(r, "CANCELLED", copy[r])

\* With the execution and the action that control it; the action stays PENDING.
RequestApproval(r, a) ==
  /\ cmd[r].op = "APPROVAL_CREATE"
  /\ a \in Approvals /\ approval[a].status = "ABSENT"
  /\ approval' = [approval EXCEPT ![a] =
       [status |-> "PENDING", job |-> cmd[r].row, by |-> cmd[r].by, approver |-> None]]
  /\ executions' = [executions EXCEPT ![cmd[r].row] = Started(@, "CORE_API")]
  /\ UNCHANGED <<status, retries, jobKey, expired>>

DecideApproval(r, a) ==
  /\ cmd[r].op = "APPROVAL_DECIDE" /\ a = cmd[r].row
  /\ approval' = [approval EXCEPT ![a].status = cmd[r].choice, ![a].approver = cmd[r].by]
  /\ UNCHANGED <<jobVars, expired>>

Write(r, row) ==
  \/ CreateJob(r, row) \/ RetryJob(r, row) \/ CancelJob(r, row)
  \/ RequestApproval(r, row) \/ DecideApproval(r, row)

\* PRIMARY KEY of core_idempotency, UNIQUE (organization_id, idempotency_key) of job.
KeyTaken_ignored(c) == FALSE
KeyTaken(c) ==
  \/ Recorded(c) # NoEntry
  \/ c.op = "JOB_CREATE" /\ \E j \in Jobs : jobKey[j] = c.key

\* The record that idempotency.put stores.
NewEntry(c, row) == [fingerprint |-> Fingerprint(c), row |-> row]

\* Row, audit event and ledger record, then COMMIT; its answer may be lost.
Commit(r, row) ==
  LET c == cmd[r] IN
  /\ pc[r] = "write"
  /\ ~KeyTaken(c)
  /\ Write(r, row)
  /\ ledger' = [ledger EXCEPT ![c.op][c.key] = NewEntry(c, row)]
  /\ writes' = [writes EXCEPT ![c.op][c.key] = @ + 1]
  /\ lockedBy' = Unlocked(r)
  /\ Respond(r, row) \/ Refuse(r)

\* unique_violation: everything is rolled back.
Collide(r) ==
  /\ pc[r] = "write"
  /\ KeyTaken(cmd[r])
  /\ lockedBy' = Unlocked(r)
  /\ Refuse(r)
  /\ UNCHANGED <<jobVars, approvalVars, ledger, writes>>

\* Core API or its connection dies before COMMIT: PostgreSQL rolls back.
Abort(r) ==
  /\ pc[r] # "idle"
  /\ lockedBy' = Unlocked(r)
  /\ Refuse(r)
  /\ UNCHANGED <<jobVars, approvalVars, ledger, writes>>

-----------------------------------------------------------------------------
(* The rest of the world.                                                  *)

\* What a store operation of the runtime writes: it needs the row's lock.
ExecutorWrites(j, newStatus, newRetries, newRows) ==
  /\ Free(j)
  /\ status' = [status EXCEPT ![j] = newStatus]
  /\ retries' = [retries EXCEPT ![j] = newRetries]
  /\ executions' = [executions EXCEPT ![j] = newRows]
  /\ UNCHANGED <<jobKey, approvalVars, lockedBy, ledger, writes, handlerVars>>

\* claim of a job that waits.
Claim(j) ==
  /\ status[j] \in {"PENDING", "QUEUED", "RETRY_SCHEDULED"}
  /\ ExecutorWrites(j, "RUNNING", retries[j], Started(executions[j], "WORKER_SERVICE"))

\* claim of a job whose lease expired: every open execution is closed.
TakeOver(j) ==
  /\ status[j] = "RUNNING"
  /\ retries[j] < MaxRetries
  /\ ExecutorWrites(j, "RUNNING", retries[j] + 1,
                     Started(Ended(executions[j], Executor), "WORKER_SERVICE"))

\* fail, with a retry left.
Reattempt(j) ==
  /\ status[j] = "RUNNING"
  /\ retries[j] < MaxRetries
  /\ ExecutorWrites(j, "RETRY_SCHEDULED", retries[j] + 1, Ended(executions[j], {"WORKER_SERVICE"}))

\* finish, fail without a retry left, or the sweep of an exhausted job.
EndJob(j) ==
  /\ status[j] = "RUNNING"
  /\ \/ ExecutorWrites(j, "SUCCEEDED", retries[j], Ended(executions[j], {"WORKER_SERVICE"}))
     \/ /\ retries[j] >= MaxRetries
        /\ \E closed \in {{"WORKER_SERVICE"}, Executor} :
             ExecutorWrites(j, "DEAD_LETTER", retries[j], Ended(executions[j], closed))

\* Executors outside this repository: the endings that retry is meant for.
EndElsewhere(j) ==
  /\ status[j] = "RUNNING"
  /\ \E s \in {"PARTIAL", "FAILED"} :
       ExecutorWrites(j, s, retries[j], Ended(executions[j], {"WORKER_SERVICE"}))

\* expires_at of a pending approval arrives.
Expire(a) ==
  /\ approval[a].status = "PENDING"
  /\ a \notin expired
  /\ expired' = expired \cup {a}
  /\ UNCHANGED <<jobVars, approval, lockedBy, ledger, writes, handlerVars>>

Handle(r) ==
  \/ Lookup(r) \/ Locate(r) \/ Collide(r)
  \/ \E row \in Rows : Commit(r, row)

Next ==
  \/ \E r \in Slots :
       \/ \E c \in Command : Receive(r, c)
       \/ Handle(r) \/ Abort(r)
  \/ \E j \in Jobs : Claim(j) \/ TakeOver(j) \/ Reattempt(j) \/ EndJob(j) \/ EndElsewhere(j)
  \/ \E a \in Approvals : Expire(a)

Spec == Init /\ [][Next]_vars

\* A handler goes on; PostgreSQL queues those that wait for one row.
Fairness ==
  \A r \in Slots :
    /\ WF_vars(Lookup(r)) /\ SF_vars(Locate(r))
    /\ WF_vars(Collide(r) \/ \E row \in Rows : Commit(r, row))

FairSpec == Spec /\ Fairness

-----------------------------------------------------------------------------
(* Properties.                                                             *)

TypeOK ==
  /\ status \in [Jobs -> JobStatus]
  /\ retries \in [Jobs -> 0..MaxRetries]
  /\ jobKey \in [Jobs -> Keys \cup {None}]
  /\ executions \in [Jobs -> Seq(Execution)]
  /\ approval \in [Approvals -> Approval]
  /\ expired \subseteq Approvals
  /\ lockedBy \in [Rows -> Slots \cup {None}]
  /\ ledger \in [AllOperations -> [Keys -> Entry \cup {NoEntry}]]
  /\ writes \in [AllOperations -> [Keys -> Nat]]
  /\ pc \in [Slots -> {"idle", "lookup", "locate", "write"}]
  /\ cmd \in [Slots -> Command \cup {NoCommand}]
  /\ copy \in [Slots -> 0..MaxRetries]
  /\ answer \in [Slots -> Rows \cup {None}]

\* The keys of an operation whose record is about a row.
KeysOf(op, row) == {k \in Keys : ledger[op][k].row = row}

\* "Un retry valido devuelve el recurso original sin duplicar persistencia ni
\* audit": however often and however concurrently a command is sent, its key
\* has one record, and one audit event exactly when it has that record.
OneEffectPerKey ==
  \A o \in AllOperations, k \in Keys :
    writes[o][k] = (IF ledger[o][k] = NoEntry THEN 0 ELSE 1)

\* Core API answers with a resource only when the ledger holds it for that key
\* and that payload: a client never gets somebody else's resource, nor one
\* whose transaction was rolled back.
AnswersAreRecorded ==
  \A r \in Slots : answer[r] # None => Recorded(cmd[r]) = NewEntry(cmd[r], answer[r])

\* Every job was created by one recorded command, under the key it carries.
JobsAreCreatedOnce ==
  \A j \in Jobs :
    KeysOf("JOB_CREATE", j) = (IF status[j] = "ABSENT" THEN {} ELSE {jobKey[j]})

\* "Maximo tres; idempotente por comando": no recorded retry is lost to a
\* concurrent one, so together with the executors they stay within the limit.
RetriesAreAccounted ==
  \A j \in Jobs :
    /\ Cardinality(KeysOf("JOB_RETRY", j)) <= retries[j]
    /\ retries[j] <= MaxRetries

AttemptsOf(j, executor) == {n \in DOMAIN executions[j] : executions[j][n].executor = executor}
OpenOf(j) == {n \in AttemptsOf(j, "WORKER_SERVICE") : executions[j][n].open}

\* Commands never leave a worker on its own: a job is RUNNING exactly while one
\* worker execution is open, and however many control executions approvals put
\* among them, workers get at most MaxRetries + 1.
ExecutionsMatchTheJob ==
  \A j \in Jobs :
    /\ Cardinality(OpenOf(j)) = (IF status[j] = "RUNNING" THEN 1 ELSE 0)
    /\ Cardinality(AttemptsOf(j, "WORKER_SERVICE")) =
         retries[j] + (IF status[j] \in {"ABSENT", "PENDING", "QUEUED", "RETRY_SCHEDULED",
                                       "CANCELLED"}
                       THEN 0 ELSE 1)

\* Of all the decisions sent about an approval one counts: it is on record,
\* the approval says what it said, and not its requester took it.
DecisionsAreRecordedOnce ==
  \A a \in Approvals :
    IF approval[a].status \in Decisions
    THEN /\ \E k \in Keys : /\ KeysOf("APPROVAL_DECIDE", a) = {k}
                            /\ ledger["APPROVAL_DECIDE"][k].fingerprint[2] = approval[a].status
         /\ approval[a].approver \in Humans \ {approval[a].by}
    ELSE KeysOf("APPROVAL_DECIDE", a) = {}

\* "Rechazarlo es mas seguro que presentar una cancelacion que no pueda detener
\* pasos activos": a job is cancelled only before an executor has it, also when
\* one claims it while the command is under way, and stays so.
OnlyIdleJobsAreCancelled ==
  [][\A j \in Jobs :
       /\ status'[j] = "CANCELLED" /\ status[j] # "CANCELLED" =>
            status[j] \in {"PENDING", "QUEUED", "RETRY_SCHEDULED"}
       /\ status[j] = "CANCELLED" => status'[j] = "CANCELLED"]_vars

\* "Bloquea nuevas approvals": none is requested for a cancelled job, also when
\* the cancellation comes between the check and the write of the request.
CancelledJobsGetNoApprovals ==
  [][\A a \in Approvals :
       approval[a].status = "ABSENT" /\ approval'[a].status # "ABSENT" =>
         status[approval'[a].job] # "CANCELLED"]_vars

\* No handler waits for a row for ever: every request gets its answer.
EveryRequestIsAnswered == \A r \in Slots : pc[r] # "idle" ~> pc[r] = "idle"

\* "Un retry valido devuelve el recurso original": a command that is already on
\* record, sent again under its key, is not turned down by the check of its row
\* nor by the primary key of the ledger.
RepeatedCommandsAreReplayed ==
  [][\A r \in Slots :
       (Locate(r) /\ pc'[r] = "idle") \/ Collide(r) => ~SameCommand(cmd[r])]_vars

-----------------------------------------------------------------------------
(* The inductive invariant behind the safety properties.                   *)

\* What Locate found is still so: nobody but the holder writes a locked row.
\* An approval may have expired meanwhile, Commit does not look again.
StillAdmissible(r) ==
  LET c == cmd[r] IN
  /\ c.op = "JOB_RETRY" => Retryable(c) /\ copy[r] = retries[c.row]
  /\ c.op = "JOB_CANCEL" => Cancellable(c) /\ copy[r] = retries[c.row]
  /\ c.op = "APPROVAL_CREATE" => Approvable(c)
  /\ c.op = "APPROVAL_DECIDE" =>
       approval[c.row].status = "PENDING" /\ approval[c.row].by # c.by

\* Where a handler is, and what it knows there.
HandlerShape(r) ==
  /\ pc[r] # "idle" => cmd[r] \in Command /\ answer[r] = None
  /\ answer[r] # None => cmd[r] \in Command
  /\ pc[r] = "locate" => cmd[r].op # "JOB_CREATE"
  /\ pc[r] = "write" /\ cmd[r].op # "JOB_CREATE" =>
       lockedBy[cmd[r].row] = r /\ StillAdmissible(r)

\* The ledger and the rows tell the same story.
Books ==
  /\ OneEffectPerKey
  /\ JobsAreCreatedOnce
  /\ RetriesAreAccounted
  /\ \A j \in Jobs : IsFiniteSet(KeysOf("JOB_RETRY", j))
  /\ DecisionsAreRecordedOnce
  /\ ExecutionsMatchTheJob

IInv ==
  /\ TypeOK
  /\ Books
  /\ AnswersAreRecorded
  /\ \A r \in Slots : HandlerShape(r)

=============================================================================

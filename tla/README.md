# A formal model of RHIA

This directory holds a TLA+ model of the parts of RHIA that keep promises while
processes crash, answers get lost, requests overlap and what was read grows old,
the TLC configurations that check it on small instances, and TLAPS proofs of the
properties that matter most for instances of any size.

Every action, state variable and helper is translated from the source lines that
`PROJECT.json` gives for it under "map". Quotations of the repository's documents
are in Spanish, as there.

| Files | Contents |
|---|---|
| `AgentRuntime`, `JobContract`, `MCAgentRuntime`, `AgentRuntime_proofs`, `runtime_*.cfg` | the recoverable job runtime (`apps/agent-runtime`), what one job is promised, instances, proofs |
| `CoreCommands`, `MCCoreCommands`, `MCCommandScopes`, `CoreCommands_proofs`, `core_*.cfg` | the job and approval commands of Core API (`apps/core-api/src/control-services.ts`) |
| `OutreachPolicy`, `ChannelGateway`, `SequenceEngine`, `MCSequenceEngine`, `Outreach_proofs`, `outreach.cfg` | the touches of a sequence: policy, gateway and the engine over both |
| `MeetingScheduler`, `ChannelWebhooks`, `CircuitBreaker`, `ModelRouter`, `BrowserContracts`, `BrowserWorkers`, `NextBestAction`, `ConversationAgent`, `Research`, `MessageContracts`, `MCMeetingScheduler`, `MCServices`, `Services_proofs`, `Browser_proofs`, `services.cfg`, `meetings_reschedule.cfg` | the packages that share no state with one another |
| `RecordCommands`, `TenantRecords`, `LeadConsole`, `RuleConsole`, `MCRecordCommands`, `MCCrm`, `Records_proofs`, `crm.cfg`, `records_replay.cfg` | the CRM: creating records, reading files of them, the lead console |
| `Backups`, `Monitoring`, `AdminBootstrap`, `AccessControl`, `AiGateway`, `OperationsConsole`, `LocalServer`, `DatabaseGuards`, `MCOperations`, `Operations_proofs`, `operations.cfg` | what watches over the system and who may do what in it |
| `OrderLemmas` | least and greatest numbers, lists of finite sets and step-by-step computations, which the proofs use where they need induction |
| `PROJECT.json` | components, runs, mutants, the map, hazards, findings, theorems |

## 1. The system

RHIA is a set of TypeScript services and packages around one PostgreSQL
database. A person uses the web console (`apps/web`), which calls Core API
(`apps/core-api`) under a session of `apps/auth`. Core API writes companies,
contacts, opportunities, jobs and approvals. Jobs are carried out by worker
processes (`apps/agent-runtime`). The packages hold the domain logic that a job
step calls: searching, resolving entities, extracting evidence, choosing models,
writing messages, sending them, booking meetings, driving browsers. Scripts back
the database up and boot the machine; an older lead frontend
(`RHIA/frontend`) talks to a server that is not in the repository.

```text
console ──HTTP──> Core API ──transactions──> PostgreSQL <──transactions── workers
                                  job, approval, execution,          claim, steps,
                                  ledger, audit, CRM rows            heartbeat, finish
                                                                         │ execute
                                       gateway, scheduler, router, search, browsers
```

Core API and the workers never call each other: they meet in rows, under row
locks. A job step meets the outside world under the key of its checkpoint; the
packages it may call keep idempotency records of their own. Most packages are
libraries without callers in the repository: their callers are then modelled as
what the packages' comments ask of them, any number at once, any of which may
die at any point.

For each part: the state it keeps, what is hard about it, what makes it correct.

| Part | State | Hard | Correct if |
|---|---|---|---|
| agent-runtime | `rhia.job` with its lease, executions, checkpoints, actions | workers die anywhere, clocks differ, leases expire under a worker that goes on, COMMIT answers get lost | a job has one holder; recorded steps were performed and never run again; writes are fenced; every job ends |
| core-api: jobs, approvals | job and approval rows, idempotency ledger, audit | the ledger is read before any lock; what was checked is written later | a key has one effect, checks are not overtaken, one decision counts |
| core-api: records | companies, contacts, points, opportunities, ledger | duplicates are searched for without a lock | keys and rows name each other; doubles only by overlap |
| web operations center, HTTP transport | a page, a form under way, a notice | sessions, roles and rows move between the steps; answers are lost | a notice is true |
| channel-gateway, sequence-engine, outreach-policy | ledger of touches, idempotency records | late provider answers, a stop between plan and send | each touch at most once confirmed, in its cadence, none after a stop |
| meeting-scheduler | meetings, calendar events, booking records | the provider fails between two calls; lists are stale | meetings and events agree, nobody is booked twice |
| search-orchestrator | a circuit per source | late outcomes, a probe that never reports | one probe per opening, no source skipped for ever |
| model-router, ai-gateway | a budget per day and month; one request | read before and charged after the call; timer, caller and answer race | overdraft is bounded; the answer says what happened |
| playwright-worker, computer-use, skill-library | checkpoint, screen, progress of a skill | an action that took place before its evidence | who is told how a run went can rely on it |
| next-best-action, conversation-agent, research-cache, evidence-pipeline, messaging | score, price book, evidence and facts | what was fetched ages before it is used | what is decided, answered and asserted rests on what is known |
| contracts | the messages of Core, n8n and workers | they nest, each level checks one down | a message is about one job and one correlation |
| policy, tool-registry, auth | roles, capabilities, approvals, sessions, manifests | they change while a request goes on | commitments need a second human; lists and checks agree |
| admin bootstrap, migrations 0002, 0003, 0007 | users, identities, roles, audit of sessions | organizations meet at one identity; logins during a migration | one first administrator; no session without a beginning |
| observability, search-health, alerting | events, alerts fired | two evaluations at once, statuses nobody scores | no storm, no alert lost to a cooldown, silence is no recovery |
| scripts: backups | bundles on two disks | killed half way, disks pulled, files rot | what passes for a backup is one |
| scripts: boot and local server | pid file, server processes | the file and the port tell different stories | what serves can be stopped |
| lead frontend | a tab with copies of rows, calls under way | whole rows are sent from stale copies | what was reported saved stays |

Not modelled: the constant tables of `domain`, configuration, secrets, schema and
migrations as data, benchmarks, infrastructure, n8n exports, data files, pages
that only show a list, the memory adapters (test doubles), the earlier copy of
the lead frontend, dashboards. The "components" of `PROJECT.json` list each with
its reason and, for the modelled ones, what is left out of them; section 9
gathers it.

## 2. Plan and state of it

| Step | State |
|---|---|
| jobs that survive crashes; the commands about them | done, proved (`AgentRuntime`, `CoreCommands`) |
| the packages whose effects reach the outside world: sends, webhooks, bookings, searches, models, browsers | done, proved |
| records, files, the lead console | done, proved |
| who watches and who may: backups, alerts, bootstrap, access, gateway, consoles, servers, guards | done, proved |
| decisions, replies, facts; messages | done, proved |
| the umbrellas of section 6 as theorems | done; liveness stays with TLC (section 9) |
| not planned | a composition of `AgentRuntime` with `CoreCommands`: each has the other as an environment whose steps are those the other takes |

## 3. The runtime: `AgentRuntime`

### State

| Variable | Code |
|---|---|
| `status`, `retries`, `token`, `lease`, `waiting`, `currentStep` | columns of `rhia.job`: `status`, `retry_count`, `lease_token`, `lease_expires_at`, `next_attempt_at`, `current_step` |
| `lastAttempt`, `execution` | `rhia.execution`: `MAX(attempt)`, and `ended_at`, `outcome`, `error_code` by attempt |
| `checkpoint`, `action` | `rhia.job_step_checkpoint` and the `rhia.action` it links to |
| `pc`, `claim`, `idx`, `lost`, `err` | a `runOnce` in progress: where it is, its immutable `ClaimedJob`, the step of the plan, `lostError` of the heartbeat, the error to report |
| `performed` | the outside world: by which attempts the effect of a step happened |

An execution, its lease token and its attempt number are created together by
`claim` and never used again, so one number stands for the three. Timestamps
are replaced by what they decide. `lease_expires_at` is compared with the clock
of whichever worker asks, sampled before it obtains the row lock; a lease is
*live* when every clock takes it for valid, *disputed* when some do not, and
*expired* when none does. In the disputed phase any worker may find it valid or
expired, which covers skewed clocks and samples that got old while waiting.

### Actions and atomicity

Every store operation (`claim`, `renewLease`, `beginStep`, `reserveAction`,
`completeStep`, `finish`, `fail`) is one transaction that starts by locking the
job row, and touches only rows of that job: it is one atomic action. `claim`
locks with `SKIP LOCKED`; `Poll(w, seen)`, which takes its two queries as one step,
has any set `seen` of rows that it could lock, sweeps the exhausted ones among them and takes the first candidate
in the order of priority and age, or none. Between two operations the runner is
not atomic: `Check` (the `assertActive` of the heartbeat), `Execute` (the step
itself, which acts outside before it returns, or throws before or after having
acted) and the catch block (`Throw`) are steps of their own, and `RenewLease`,
`HeartbeatFails`, `Crash`, `LeaseAges` and `BackoffElapses` may happen between
any two of them.

Each transaction has three outcomes: it commits and its answer arrives; it
commits and the answer is lost with the connection, which the runner takes for
an error; it does not commit. A refused lease is a fourth, and is not reported.

`MaxAttempts` only sizes the table of attempts. No guard looks at it: the
theorems `TypeCorrect` and `RetriesAreBounded` show that a job gets at most
`MaxRetries + 1` attempts, so any larger bound cuts nothing.

`JobContract` is what one job is promised, without workers, leases or tables;
`AgentRuntime` implements it for every job (`ImplementsContract`).

## 4. The commands: `CoreCommands`

### State

| Variable | Code |
|---|---|
| `status`, `retries`, `jobKey` | `rhia.job`: `status`, `retry_count`, `idempotency_key` |
| `executions` | `rhia.execution` of a job in the order of `attempt`: its executor and whether it is open |
| `approval`, `expired` | `rhia.approval`, and whether its `expires_at` has passed |
| `lockedBy` | the transaction that holds a row lock |
| `ledger`, `writes` | `rhia.core_idempotency` by operation and key, and the audit events written for each key |
| `pc`, `cmd`, `copy`, `answer` | a request in progress: where it is, its command, the `retryCount` it read, what it was answered |

### Actions and atomicity

A handler is one READ COMMITTED transaction, but not one step. It is four:

1. `Receive`: a request arrives and its transaction begins.
2. `Lookup`: `idempotency.get`, without a lock: replay the recorded resource,
   refuse the key for another payload, or go on.
3. `Locate`: `SELECT ... FOR UPDATE` of the row and the checks on it.
4. `Commit`, `Collide` or `Abort`: the writes and COMMIT; a unique violation; or
   the end of the connection.

Other commands and executors run between them. `Commit` may be one step since
what a transaction wrote is invisible until COMMIT and the row it wrote is
locked all that time. The insert into the ledger is the last statement that can
wait for another transaction, and one that waits there waits for a transaction
with the same key at its own last statement, so no cycle of waits arises.
A create has no row to lock and goes from `Lookup` to its writes; there the
primary key of the ledger and the unique key of `rhia.job` decide.

After COMMIT the answer may still be lost: `Commit` ends with `Respond` or with
`Refuse`. Clients are free: any command, any key, any time, the same key for
another payload included; only who may decide an approval (`Humans`) is taken
from the policy. The fingerprint in the ledger is the payload, as in the code:
neither the key nor who sent it.

The executors appear as what their store operations do to the rows the commands
look at: `Claim`, `TakeOver`, `Reattempt`, `EndJob`. They need the row lock and
so wait for a command that holds it. `EndElsewhere` stands for executors
outside this repository that end a job as FAILED or PARTIAL: `retry` accepts
only these two, and nothing under `src/` writes them, so without it the retry
command could never be carried out. `Expire` is the clock of an approval.

`IdentifiersLeft` bounds the creates: `newId` never fails, so a create is sent
only while there are identifiers for all keys under way. `MCCommandScopes` puts
two small instances side by side: `scope` says whether clients send commands
about two jobs or about one job and its approvals; it bounds what clients send
and not what handlers do.

## 5. The other modules

The header of each module says what it stands for and what it leaves out. Here:
its state and actions against the code, and what is atomic in it.

### Outreach

`OutreachPolicy` translates `planNextTouch` and its helpers, the holidays and
`buildTouchPlan` as operators over a ledger of touches; a preview is a function
over the number of touches planned so far. Time is counted in half days.

`ChannelGateway`: `record` is the idempotency record of `channel.send`, `inbox`
what the provider took. A send is a look-up, the request, the provider taking it
(`Deliver`, also late, after the timeout aborted it), its answer or error, and
the record, which only a success writes. Calls overlap; `Proceed` also covers
their death.

`SequenceEngine`: `Advance` is `advanceSequence` up to the send (plan, window,
exception, key), `Finish` what the caller makes of the result. A caller enters a
touch in the ledger as SENT or FAILED or dies before it. `Stop` and `Tick` come at
any moment. `context` is read anew by each call, as the package asks.

### Services without shared state

`MeetingScheduler`: `op[c]` is the operation of a client, with the meeting it
read; each call of the calendar (`CancelEvent`, `CreateEvent`, `ProviderFailed`)
and of the idempotency store (`LookupBooking`, `RecordBooking`) is a step, and
`Save` the caller's saving of the whole meeting. `AnswersGetLost` lets the
provider succeed without the caller hearing of it.

`ChannelWebhooks`: a delivery is read from the store, recorded if new, applied by
the caller, answered; a handler may fail between any two, and an event whose handler did
so between recording and applying is remembered in `dropped`. `CircuitBreaker`:
`shouldSkip` and `recordOutcome` are synchronous, the await of the source lies
between; `opened` is never, before or past the cooldown. `ModelRouter`: candidates
one after the other, the budget read at `InvokeCandidate` and charged at
`CandidateAnswers`; day and month end between.

`BrowserContracts` holds what `validateScenario`, `validateTask` and
`validateSkillManifest` let through; `BrowserWorkers` runs one of the three at a
time with one step per await of the driver, of secrets and of checkers. An
action the driver fails may have had its effect (`CallFails`, `ActionFails`). A
caller resumes from the checkpoint it was given, if it was given one.

`NextBestAction`, `ConversationAgent` and `Research` model packages that are pure:
their operators are the functions, their variables what the environment keeps
between two calls (score and decision; price book and what was fetched of it;
evidence, invalidations and facts), and time passes in between. `MessageContracts`
states which nested messages the schemas accept.

### The CRM

`RecordCommands`: a transaction per caller, one step per query (`ReadLedger`,
`MatchDomain`, `ResolveIdentity`, `FindByHash`), inserts and COMMIT together
(`CommitLink`, `CommitInsert`), as a second writer of a unique key waits for the
first and fails when it commits. `TenantRecords`: Company 360 is no transaction;
the company is read first and then three queries in any order. `LeadConsole` and
`RuleConsole`: one tab, its copies, loops and calls; a call is served, refused,
lost, or served although it was reported lost, and a page that was left lives on
in its calls. What a screen offers is a guard named for its part (`Navigable`,
`ListTools`, `InTable`, `BulkBar`, `Offered`, `FormOpen`; `FormOffered`,
`RuleButtons`): a page that is hidden, disabled or out of date about a lead offers
another set of actions. `OpenHome` is the pages without leads, `ClearSelection` what a
loop over a selection survives.

### Operations

`Backups`: a bundle is begun, filled dump by dump, counted and published; pruning,
copying and rotting go on beside it. `Monitoring`: one signal moves in a
behaviour; an evaluator reads, notifies and saves in three steps.
`AdminBootstrap`: one step per statement under the advisory lock of an
organization. `AccessControl`: `authorize` with the tables of `packages/policy`,
approvals as proofs, the registry's list and check; a request keeps the principal
it resolved. `AiGateway`: answer, timer and caller race at the await of an attempt.
`OperationsConsole`: the submit, authentication, command and the three reads of the
page are steps; roles, sessions, the runtime and other people move in between.
`LocalServer`: probe, spawn, pid file, listen, STOP.BAT's read, kill and remove;
`boot.isMain` is whether the script that waits for the ports does anything where the
project lies.
`DatabaseGuards`: migration 0007 under logins and logouts, the seed of rights
edited by hand.

### Composition

Parts that share no variable are checked in one run: `MCServices`, `MCOperations`
and `MCCrm` conjoin their initial states and let `part` choose whose steps a
behaviour takes, so that state spaces add up. Properties of several parts are then
joined under one name: `MessagesAreAppliedOnce` (`EventsApplyOnce`,
`AcceptedMessagesCohere`), `ConclusionsAreBacked` (`NextActionsAreBacked`,
`RepliesAreBacked`, `FactsAreBacked`), `ScriptsDeliver` (`BackupsAreWhatTheySeem`,
`WhatServesCanBeStopped`, `BootWaitsForItsChecks`), `AccountsAreAccountedFor`
(`FirstAdministratorIsOne`, `SessionsLeaveATrail`, `RightsAreThePolicys`),
`ReassuranceIsEarned` (`PruningKeepsTheNewest`, `SilenceIsNotRecovery`),
`PagesShowWhatIsStored` (`FilesAreOwnAndWhole`, `SavedNotesStay`,
`RulesShownAreStored`), and `TypeOK`. Truly composed, with shared variables, are
`SequenceEngine` over `ChannelGateway`, and `OperationsConsole` over `AccessControl`.

## 6. Runs

| Run | Instance | Question | Distinct states |
|---|---|---|---|
| `runtime_steps` | 1 job, 2 workers, 2 steps, the first with an action, 2 inputs, 2 retries | are the step tables true, complete and fenced? | 520,356 |
| `runtime_jobs` | 2 jobs, one without a plan, 2 workers, 1 step, 1 retry, fair | one holder per job; leases and executions in step; does every job end; is every step one of the contract's? | 135,792 |
| `runtime_nonretryable` | 1 job, 1 worker, 1 retry | finding, see 10 | |
| `core_retries` | 1 job, 2 requests, 2 keys, 3 retries, fair | no retry lost or granted beyond the limit; only waiting jobs cancelled; every request answered | 32,393 |
| `core_commands` | 2 requests, 2 keys; 2 jobs, or 1 job, 1 approval and 2 users | what may repeated, reused and overlapping keys do; one decision per approval; executions match the job | 764,173 |
| `core_replay` | 1 job, 2 requests, 1 key | finding | |
| `outreach` | 2 workers, 2 touches and 3 with an exception, 2 contents, 3 sends, 28 half days | what a person gets and when, what callers are told, what the preview promises | 1,421,070 |
| `services` | nine parts, 2 callers and 2 keys each | see the properties | 630,781 |
| `meetings_reschedule` | 1 caller, 2 events | finding | |
| `crm` | four parts: 2 creating callers, 2 tenants, a tab with 2 leads, one with 2 rules | one name per record; pages and files show what is stored | 824,055 |
| `records_replay` | 1 caller, 1 key | finding | |
| `operations` | ten parts, 2 actors each | see the properties | 768,630 |

Every action of every module is taken in these runs.

What the properties of the composed runs say, in short (their comments say it in
full):

- `OneConfirmedDelivery`: of all calls under a key one at most is told that it sent
  the message; every success is of a message the provider took. `TouchesKeepTheCadence`,
  `StopsHold`, `PreviewIsWithinThePlan`: see the table in 1.
- `BookingsDoNotCollide`: one live event per meeting, one meeting per key, no two
  meetings of a contact at one time unless one was saved over a list grown old.
- `OneProbePerOpening`, `SpendingIsBoundedAndAnswered` (one call per task of
  overdraft; a charged task returns the best it paid for), `RunsTellWhatTheyDid`
  (what was done, how often, whether it was approved, validated or rolled back).
- `RecordsAreNamedAndUnique`: keys and rows name each other; two rows for one
  company or point only by transactions that overlapped.
- `FilesAreOwnAndWhole`, `SavedNotesStay`, `RulesShownAreStored`: each with the
  exceptions the code really has, such as a loop that goes on after its page was left.
- `BackupsAreWhatTheySeem`: what passes for a backup is one, and verification raises no
  false alarm over a bundle that did not rot and whose databases kept their tables and
  row counts while it was made (`Counts` gives these over time; in the run rows come to
  the second database, the first is only updated).
- `BootWaitsForItsChecks`: of the checks that are made, all succeed before the boot goes
  on. Those of the ports are made only where the project lies on a share, see 10.
- `PruningKeepsTheNewest`, `WhatServesCanBeStopped`, `AlertsAreHeardOnce`, `SilenceIsNotRecovery`,
  `FirstAdministratorIsOne`, `SessionsLeaveATrail`, `RightsAreThePolicys`,
  `AuthorityIsSeparated`, `FallbackTellsWhatHappened`, `NoticesTellTheTruth`.

**Bounds, and why they are enough.** A conflict over a lease, a row, a key, a budget
or a file has two sides: a holder and an intruder, two commands, two evaluators. A
third only adds another intruder. A second step is what it takes to resume in the
middle of a plan and to have a step before and after the one with an action. Two
inputs are needed for a step key that belongs to another input; two jobs for the
sweep and the choice to fall on different rows in one transaction; two retries for
a job that fails, one that is taken over, and the last attempt after both; two keys
to tell a repetition from another command; two users for a requester who tries to
decide; a cooldown of two and a clock of three for an alert that is held back and
one that is not; three candidates in two tiers for an escalation after a fallback.
What holds for these sizes is proved for all sizes where section 8 says so.

The bounds are constants (`MaxSends`, `MaxEvents`, `MaxRows`, `MaxRuns`, `MaxClock`,
`MaxSignals`, `MaxSpent`, `MaxNotices`, `MaxProofs`, `MaxEvidence`, `Horizon`, ...) and
appear in guards of the environment: of clocks, callers, providers. Restrictions of an
instance that are no bounds stand in its MC module: in the operations console one
session lasts and either the job or the approval moves; with two leads in the lead
console all or none are selected, none is deleted or created and tokens do not
expire (with one lead everything may happen). Symmetry is used in runs without
liveness only, over sets whose members no definition tells apart.

Deadlock is checked where something can always happen (`runtime_*`, `core_*`); the
others stop at their bounds and say `CHECK_DEADLOCK FALSE`.

**Mutants.** Every property of a passing run has one in `PROJECT.json`: a definition
with a plausible bug of that code (a dropped FOR UPDATE, an insert turned into an
upsert, a lease checked without its token), under which TLC finds the property
violated in the same run. Where a property joins several statements, the modules hold
further definitions of this kind, one for each of them that the listed mutant does
not break: `PruneNames_ascending`, `FinishCopy_unverified`, `LockFree_perEmail`,
`CeilingAllows_drafts`, `JobResultOk_lenient`, `PATTERNS_termsFirst`,
`Cleanup_anyName`, `jobControls_whileRunning`, `StartIndex_anyScenario` and others, each
beside the definition it replaces.

## 7. Fairness

Runtime (`FairSpec`, run `runtime_jobs`). `WF(Step(w))`: a worker that runs an attempt
goes on with it; for `Execute` that means that the step returns or throws. The code has
no timeout for a step, so this is an assumption about the plans and not about the
runtime: a step that hangs while the heartbeat lives keeps its job RUNNING for
ever. `WF(\E w : Poll(w, Jobs))`: some worker process is alive and its poll loop
comes round (`worker.ts`), at a time when no transaction locks the rows.
`WF(LeaseAges)`, `WF(BackoffElapses)`: clocks advance. Crashes are never fair
and never bounded in number; what bounds them is the retry budget.

Commands (`JobsFairSpec`, run `core_retries`). `WF(Lookup)`, and `WF(Collide \/
Commit)`: a handler goes on unless it dies, which `Abort` may make it do at any point.
`SF(Locate)`: PostgreSQL queues those that wait for a row, so a handler that again and
again finds the row free gets it; weak fairness would let others overtake it for ever.

The other components promise nothing that must eventually happen: their callers
are outside the repository and may stop at any point.

## 8. Proofs

All proofs of invariants have the same form: a strengthening (a conjunction of named
parts, checked by TLC before), that it holds initially, that every action keeps it, one
lemma per action, and the properties as consequences. Each theorem holds for every value
of the constants that satisfies the module's named assumptions; these say that counts
are naturals, that markers such as `NoJob` or `NoEvent` are none of the values they
stand beside, and what the code's configuration guarantees (tiers in order, a failure
threshold above 0, finitely many budgets, `FirstRetries` between 0 and 3). No assumption
is about the behaviour.

**`AgentRuntime_proofs`**, for any number of jobs, workers and steps, any order of
claims and any number of retries. Why the properties are not inductive by themselves:
that a worker owns the checkpoint it is about to complete follows only from what it
knows since its last store operation. So `IInv` adds `LeaseShape` (the constraint on
leases, tokens not newer than the last attempt), `ClaimShape` (what a worker knows of
the job it claimed), `LoopShape` (every step before its position is recorded),
`StepShape` (what the *holder* may rely on; a worker that lost its lease may rely on
nothing, and the fences do not let it write) and `TokensDistinct`. Proved: type
correctness; the state properties of the runs and `RetryBudget`; that step tables are
written only under the lease, ended jobs stay as they are and live leases are not taken;
and that every job implements `JobContract`: it starts as the contract does and each step
of the runtime is a step of the contract or leaves it alone (`Refinement`).

**`CoreCommands_proofs`**, for any number of slots, keys, payloads, jobs, approvals and
users. `IInv` joins `Books` (ledger, rows and executions tell one story) to
`HandlerShape` (a handler that is about to write a row holds its lock, and what it checked
there is still so). Steps that move a handler write no row (`HandlerMoves`). Executors
write only rows that nobody has locked, so no check is overtaken (`ExecutorPreserves`).
`Commit` adds one record under a key that had none and writes only the row its handler
holds, or one that was not there (`CommitSlots`, `JobCommitPreserves`,
`ApprovalCommitPreserves`). Proved: all safety properties of the passing runs, and
`CancelledJobsGetNoApprovals`.

**`Outreach_proofs`**, for every plan, spacing, limit and calendar and any number of
workers. `EngineInv` says what a call knows where it is. For the cadence it is not enough
to look at what was delivered: `CadenceInv` says that the ledger is in order, that a key
some worker is sending was allowed when it was planned and is still so within its half day,
and that a key whose message was taken was allowed at that moment. Proved:
`OneConfirmedDelivery`, `TouchesKeepTheCadence`, `StopsHold`, `TypeOK`, and that a preview
can be kept (`PreviewsCanBeKept`): a plan is extended touch by touch (`ExtendPlan`), each
prefix has what is promised of the whole (`PreviewGrows`), and the least number of touches
at which that would fail is none.

**`Services_proofs`**. The circuit breaker: a circuit that waits for a probe has the
search that is asking (`OneProbe`). Webhooks: of an event's deliveries one at most is past
the record, and a recorded event is missing only if it was dropped there (`EventsOnce`). The router: overdraft is counted by the tasks that were checked
since (`SpendingIsBounded`). Meetings (`NothingCollides`): `MeetingInv` says that a meeting
has one live event or one operation that promised it, and what each operation knows of the
row it read; `TimesInv`, that meetings saved from current lists are apart and what an
operation read is current unless it was overtaken. That the bookings of a key leave one
meeting follows from the record, which is an insert. Messages: what was accepted is
about one job and one correlation at every level (`MessagesCohere`), from the schemas of
each level (`ContractsInv`); with the webhooks this is the run's `MessagesApplyOnce`.
Conclusions (`ConclusionsHold`): `NbaInv` says of a decision what it was made of, `TalkInv`
what a turn answered; both rest on which rule or pattern is the first to apply
(`RulesAreSound`, `IntentTells`). Facts: `ResearchInv` types what is known and says what
was concluded of what is known now. What the confidences of a group leave in doubt is
computed one by one; that it is never more than one of them leaves alone (`DoubtIsLess`)
is proved from the equation of a recursive function and the existence of its solution
(`StepByStep`), and from there that corroboration never lowers confidence. That the cache
compares with the latest invalidation is enough because it is the greatest as written
(`LatestCounts`). The assumptions type what the modules are given: finitely many claims,
ages and clocks that are naturals, sources of one of the six types. As no part touches
what another keeps (`EachOnItsOwn`), the joint types hold (`ServicesTypeCorrect`); the
score of an opportunity stays between none and all of the total weight (`ScoresAreInRange`).

**`Browser_proofs`** (`BrowserRunsAreTold`), for all scenarios, tasks and skills. What a run
tells is compared with `acted`, the history of what was done on the screen. `PlacesHold`
says where a run can be, for whom it runs, and what the checkpoint, the evidence and the
trace are at that place; `RecordsHold`, that every action is of an allowed step and how
often each step was done: between runs the caller's checkpoint accounts for it, except for
what was lost with a result nobody heard; during a run, what was so when it began and what
the run is past. `EveryStepMoves` sorts the actions of the module into a few moves
(a step is prepared, completed, tried again, given up; a run starts, ends, is told), and
each conjunct is shown to be kept by each move. `BrowserAssumption` says that identifiers name
one scenario or task, steps are a sequence, and the procedures of a manifest are among them.

**`Records_proofs`**. `RecordInv` says of a transaction what it found out of the rows that
were there when it began; two rows for one company can then only come of transactions that
each began before the other's row was there (`PairOk`).
Files (`FilesStayWhole`): `TenantInv` says that an
identifier names one row, committed or not, that a committed row has its event, and that
each query that has run left out nothing which was there when the file was asked for.
Lead pages (`NotesStay`): what the page reports saved is true of the server only as long as
no copy of the lead that lacks the note can still be written, so `LeadInv` says of every
copy (on the page, in a call under way, on the server) that it has the notes promised for
its lead, that a page has one write under way, and that beside a promised note nothing
writes to its lead. Rules (`RulesStayTrue`): `RuleInv` says that the page runs one row
handler at a time and, while nothing clouds it, one handler in all, whose loaded rules are
the server's. The assumptions are that a new lead has one of the states, and that null
(0) is the identifier of no rule. `PagesShow` joins the four parts as the run composes
them. The proof needs to know which of two alternatives a response takes, and so two
overlapping `CASE`s of `LeadConsole` became `IF`s in the order of the code.

**`Operations_proofs`**. Authority (`AuthorityStaysSeparated`): `AuthorityInv` joins what
roles, principals and proofs may be, every proof being given by a human who could decide
then. The list of tools and the check of an invocation agree for any registry
(`ListedToolsCanBeInvoked`). The gateway (`FallbackTellsTheTruth`): `GatewayInv` says how many
tries there are at each place, who aborted which, and what the answer is made of. The
operations center (`NoticesCanBeTrusted`): `ConsoleInv` carries from the submit to the
notice what core did and what the page may know of it. The alerts (`AlertsAreNotRepeated`):
`MonitoringInv` says that what is saved as fired was notified then, that a budget's alert
names its severity, and, while nothing has disturbed, that one evaluation is under way at a
time and every notice is saved or its own. Accounts (`AccountsHold`): `BootstrapInv` says
that nobody who can sign in appears in an organization while one of its transactions
decides, which the advisory lock makes true, and that two transactions of different
organizations never link one identity (`FirstAdministrator`); `SessionsInv`, what the
trail says of a session by what its row is, through the migration that adds the trail;
`RightsInv`, that no row is beyond its ceiling and that a seed restores exactly the tables
of `packages/policy`. The scripts (`ScriptsDeliverWhatTheySay`): `BackupInv` says that a
bundle in the making has dumps no older than its name and is counted after them all,
that a copy on the external disk has a file only of a bundle that was whole, however the
local disk changed under it, and that a bundle has bad files only where its disk rotted.
All dumps lie between the name and the counts, so rows that stay for that long are the rows
that are restored (`RestoresAgree`). It assumes that no database is called as
another file of a bundle. `ServerInv` says that, unless servers raced, one runs at most, no
other is about to remove the file that names it, and STOP.BAT, once it has read the file,
has to do with that one; for the boot, that the checks of a stage that has not failed have
all been passed, that the ports' stage begins with none that failed, and that no port is
looked at where main() does not run.

Pruning (`PruningLeavesTheNewest`): `PruneInv` says that, while a pruning has something left
to delete, `Keep` complete bundles that are newer than all of it are on the disk. That is so
of the names it sorted (`PruneNamesAreOld`), and what other steps complete only adds to
them (`CompleteStay`). It rests on what sorted names are
(`NewestComeFirst`) and on `Keep` being 1 at least, which the script checks. Scores
(`SilenceHealsNothing`): an event loses half its weight with each tick, so, while none leaves
the window, both sums of a score are halved (`SumsHalve`); the quotient stays and the
weight of the sample shrinks (`QuotientsStay`). The sums are recursive functions over
positions, and two of them are compared at the least position where they would differ.
`ReassuranceHolds` joins both. The parts of the run keep their invariants beside each other
(`OperationsInv`), from which the joint types follow (`OperationsTypeCorrect`).

**`OrderLemmas`** has the least-number principle as facts about `Min` and `Max`, what a
list of a finite set contains (`SetToSeqLists`), and that what is computed step by step
exists (`StepByStep`). The library's induction theorems take operators, which the provers
cannot instantiate; an explicit set of counterexamples and its least element serve
instead.

## 9. What is only model-checked, what is not modelled

By TLC only, as the proof system reasons neither about fairness nor about what is enabled:
`EveryJobEnds`, `EveryRequestIsAnswered`. The properties of the four runs that end in a
violation are false of the code, so there is nothing to prove. Every other property of a run
is also a theorem, with the state bounds of the runs as constants of any value.

Not modelled in the modelled parts: the content of inputs, outputs, texts and errors beyond
what decisions depend on; organizations in the job and command modules (all statements are
confined to one); logs, metrics, screenshots; the action row of an approval, which stays as
it was inserted; the parsing of HTTP bodies and command lines; encryption; an answer of
`claim` that is lost after COMMIT, which for the job is the same as a `Crash` right after
it; a plan or scenario that is edited under the same identifier between two attempts;
extraction from text, templates, derivation of roles and locations; import and export of
CSV; availability and figures of the meeting scheduler. Better Auth, the providers of
models, mail, search and calendars, browsers and the lead frontend's server are environments.

No timeout ends a step whose `execute` never returns (`runner.ts:74`). That it returns is
assumed by the fairness of `FairSpec` (section 7), and no property speaks of a step that
hangs.

## 10. Findings

**A final error is retried** (`runtime_nonretryable`). `store.fail` chooses between
RETRY_SCHEDULED and DEAD_LETTER by the retry count alone, for every error code.
`docs/domain/state-machines.md:148` says "El runtime solo reintenta cuando el catálogo marca
`retryable=true`", and `docs/architecture/agent-runtime.md:16` sends an "error final" to
DEAD_LETTER. The run ends in a job that is scheduled again after an attempt which ended with
a final error.

**A repetition that overlaps is not replayed** (`core_replay`). The ledger is read before
the row lock (or the insert) is waited for. A repetition that arrives while the first request
is under way finds no record, waits, and is then turned down by the state that the first one
left, or by the unique key, with its command on record.
`docs/architecture/core-api.md:30` says "Un retry válido devuelve el recurso original sin
duplicar persistencia ni audit." The second half holds (`OneEffectPerKey`); the first needs
the client to ask once more.

**A failed reschedule leaves a meeting without event** (`meetings_reschedule`).
`rescheduleMeeting` cancels the old event and then creates the new one; when that fails the
meeting is returned as it was, with the event that is gone, and can from then on be neither
rescheduled nor cancelled (EVENT_NOT_FOUND). The comment at `scheduler.ts:139-142` says that
it "nunca queda en un estado intermedio inconsistente".

**A repeated creation of a contact point throws** (`records_replay`). The ledger keeps the row
as JSON, `valueEncrypted` comes back as an object that is no Buffer, and `decryptContactPointValue`
throws a TypeError, while `docs/progress/PH07-T003.md:27` counts on a Buffer.

### Observations

What the modelling brought to light and no property states, or a property excuses. Where a
document says otherwise it is named.

Jobs and commands:
- Nothing under `src/` writes QUEUED or FAILED to `rhia.job`, and the runner finishes only
  with SUCCEEDED. `retry` accepts FAILED and PARTIAL only, so it cannot be applied to a job
  that this repository's workers ended.
- The effect of a step that a zombie performs is not fenced; only its record is. That it
  happens once outside rests on the key of the checkpoint, which the plan hands on.
- A resumed attempt uses the number of the last recorded step only.
- The control execution of an approval is ended by nothing but a takeover or the sweep,
  which close it as if a worker had timed out. An approval of a job that ended or was
  cancelled can still be decided.
- The memory adapters have no rollback and no unique keys.

Records:
- Contacts, points and opportunities check their parents by foreign keys on the id alone; one
  of another tenant can be named, and the row then hangs from a company whose file never
  shows it. `FilesAreOwnAndWhole` says that it never shows either.
- `CreateContactPointSchema` accepts raw values of 241 to 320 characters and telephone
  numbers without digits, for which `toContract` throws after the insert: rollback and 500,
  although `contracts.ts:181` says that a bad format is stored INVALID.
- A point known under another contact always fails at the unique key. A match of a legal
  identifier is reused even when it needs review. Names that normalize to nothing have
  similarity 0 and are never recognized. VERIFIED is never written, so the degradation of
  `effectiveValidationStatus` sleeps.
- The CHECK `outreach_sequence_max_touches` of 1 to 3 disagrees with exceptions of up to 5,
  as does the comment at `touch-plan.ts:43`; `opportunity_score_range` speaks of 0 to 100,
  scores of 0 to 1.

Outreach, meetings, searches, models:
- FAILED sends may have been delivered, and a retry hands the message over again
  (`idempotency.ts:21-27` reasons otherwise). FAILED and CANCELLED touches count toward the
  maximum. `InMemoryIdempotencyStore.record` overwrites where its comment says INSERT.
- The length of a slot is never validated: slots shorter than DEFAULT_MEETING_DURATION may
  overlap. A deduplicated booking replays the BOOKED snapshot of a meeting that was cancelled
  since; saves of whole rows can revive it.
- `quota.ts:33` promises "un único intento de sondeo": a late failure clears the mark of the
  probe, and a second can run. A threshold of 0 behaves as 1.
- A call that timed out may have been charged by its provider; the ledger never hears of it.
- In the gateway `RHIA_AI_CANCELLED` is declared and never produced; a caller's cancellation is
  reported as a retryable TIMEOUT; ALL_CANDIDATES_FAILED is final though all causes may be
  retryable; a signal that is aborted already is not heard, so a cancelled call goes on to
  its other candidates.

Browsers: a resumed scenario runs in a fresh context; the checkpoint of another scenario is
carried through; a context that cannot be closed loses the checkpoint. A procedure that
throws, or validations that fail, are not rolled back. Between observation and action the
screen may change; the driver offers no atomic act. An observation that times out after an
action loses its trace. `runStep` retries every error but SESSION_EXPIRED and does not
consult `retryable`.

Decisions and facts: the date of a decision feeds TIMING of the next score, which can go to
and fro. CONTACT for a waiting reply is proposed with no usable point, though the comment of
rule 2 says otherwise. A price is checked when the reply is built and may be stale when it is
sent; replies with lint issues are returned all the same. Approval names
GRANT_DISCOUNT and BINDING_COMMITMENT (`contracts/src/index.ts:343`) are OFFER_DISCOUNT and
COMMERCIAL_COMMITMENT in `policy/index.ts:71,73`, without a mapping. Timestamps are compared
as text although offsets are allowed, so an invalidation may miss older evidence
(`invalidation.ts:7-9` promises otherwise). One page fetched twice counts as corroboration.
The cache and `markStaleEvidence` judge age by different limits; invalidated evidence stays
ACTIVE. Of contradictory facts the message asserts the best without saying so.

Operations:
- The answers 400 of missing jobs and approvals make 'not-found' unreachable in the operations
  center; a retry with all three spent is offered and refused; after a lost answer "Intenta
  nuevamente" uses a new key; any failure of authentication, a database outage included, is a
  401; who may not read approvals sees no jobs either; one row outside the contract makes a list
  answer 500.
- Approvals are not consumed and the approver's role at that time is not looked at again.
  `role_permission` rows are never read by `authorize`. Seed 0002, run again, sets instances
  INACTIVE. Tenant triggers of 0003 compare columns of one row.
- An identity that already has a password keeps it when it is promoted, although the answer
  says `created: true`.
- Statuses of search-health (CAPTCHA, ...) have no severity in observability: NaN, DEGRADED
  for the window and never DOWN. An OK event can raise an alert (NO_DATA to DEGRADED). Outages
  without new events fade to NO_DATA. WARNING to CRITICAL is held back by the cooldown except for
  budgets. `lastFiredAt` can go backwards when evaluations overlap.
- `sync` stops as a whole at a leftover `.part`; pruning counts by presence of files, not by
  checksum; `counts.tsv` is taken after the dumps, so writes in between make `verify` reject a
  good bundle. It compares table names and row counts only: an update, or a row that goes for
  one that comes, between two dumps or a dump and the counts passes, so the databases of a
  verified bundle need not be of one moment (`VerifyPostgresBackup`).
- `wait-for-rhia-dependencies.mjs` calls `main()` only if `import.meta.url` is
  `new URL(process.argv[1], 'file:').href`. On Windows, where `rhia-boot.ps1` calls it with an
  absolute path, `C:\...` is a URL of the scheme `c:` and they differ: nothing is waited for, the
  exit code is 0, and the boot starts STAR.BAT with no port checked (`WaitDoesNothing`),
  although its step 4 is a "Verificacion de red real (TCP/HTTP) sobre las dependencias"
  (`rhia-boot.ps1:90`). Only a path on a share (`\\server\...`) is the same URL both ways.
- rhia-boot logs "complete" though STAR.BAT may have failed; `start-local.ps1` removes the pid
  file without comparing.

Lead console: fetches are not cancelled, so an older answer may overwrite a newer list; loops go
on after the page is left or the person logs out, and nothing stops a second one; a creation
has no key, so one that is repeated after a lost answer makes two; a jump from one lead to
another by the browser's history keeps the page with the earlier lead's copy (`JumpToLead`);
`loading` of the automation page is shared by its handlers; toasts of the pages go to another
provider than the one that shows them; a login answer without user leaves the tab signed out
with a token.

-------------------------- MODULE MessageContracts --------------------------
(***************************************************************************)
(* packages/contracts: which messages Core, n8n and the workers accept of  *)
(* each other.  Messages nest (a callback holds a result, a result an      *)
(* error), each level names the job and the correlation it belongs to, and *)
(* the schema of each level looks one level down.  Of a message the model  *)
(* keeps what those rules speak of; texts, times and limits are left out.  *)
(***************************************************************************)
CONSTANTS JobIds, CorrelationIds, JobTypes, ErrorCodes, NoPart

VARIABLE lastMessage     \* the message the receiver took last

\* errorCatalog (packages/domain): one category, and whether a retry may help.
Retryable ==
  {"RHIA_SEARCH_PROVIDER_DEGRADED", "RHIA_SEARCH_PROVIDER_UNAVAILABLE", "RHIA_SEARCH_RATE_LIMITED",
   "RHIA_SEARCH_CAPTCHA_BLOCKED", "RHIA_SEARCH_TIMEOUT", "RHIA_WORKFLOW_TIMEOUT",
   "RHIA_MODEL_RATE_LIMITED", "RHIA_MODEL_PROVIDER_UNAVAILABLE"}
CategoryOf(code) ==
  CASE code \in {"RHIA_SEARCH_TIMEOUT", "RHIA_WORKFLOW_TIMEOUT"} -> "TIMEOUT"
    [] code \in {"RHIA_SEARCH_RATE_LIMITED", "RHIA_MODEL_RATE_LIMITED"} -> "RATE_LIMIT"
    [] code \in {"RHIA_STATE_INVALID_TRANSITION", "RHIA_ENTITY_AMBIGUOUS"} -> "CONFLICT"
    [] code \in {"RHIA_APPROVAL_REQUIRED", "RHIA_POLICY_DENIED", "RHIA_OUTREACH_OPTED_OUT",
                 "RHIA_TOOL_FORBIDDEN"} -> "POLICY"
    [] code \in {"RHIA_JOB_RETRY_EXHAUSTED", "RHIA_CORE_UNEXPECTED_FAILURE"} -> "INTERNAL"
    [] code = "RHIA_CONTRACT_INVALID_PAYLOAD" -> "VALIDATION"
    [] OTHER -> "DEPENDENCY"

RhiaErrors ==
  [code : ErrorCodes, category : {CategoryOf(c) : c \in ErrorCodes},
   retryable : BOOLEAN, correlationId : CorrelationIds]
ASSUME ContractsAssumption == NoPart \notin RhiaErrors
ErrorOk(e) ==
  /\ e.category = CategoryOf(e.code)
  /\ e.retryable = (e.code \in Retryable)

JobRequests == [kind : {"JOB"}, jobType : JobTypes, jobId : JobIds, correlationId : CorrelationIds]
SearchRequests == [kind : {"SEARCH"}, correlationId : CorrelationIds]
SearchResponses ==
  [kind : {"SEARCH_RESPONSE"}, correlationId : CorrelationIds]

\* The output of a job is told by its kind alone.
JobResults ==
  [kind : {"JOB_RESULT"}, jobId : JobIds, correlationId : CorrelationIds, jobType : JobTypes,
   status : {"SUCCEEDED", "PARTIAL", "FAILED"}, output : JobTypes \cup {NoPart},
   error : RhiaErrors \cup {NoPart}]
JobResultOk_lenient(r) ==
  /\ r.error # NoPart => ErrorOk(r.error)
  /\ r.status = "SUCCEEDED" => r.output # NoPart /\ r.error = NoPart
  /\ r.status = "FAILED" => r.error # NoPart /\ r.output = NoPart
  /\ r.output # NoPart => r.output = r.jobType
JobResultOk(r) ==
  /\ r.error # NoPart => ErrorOk(r.error)
  /\ r.status = "SUCCEEDED" => r.output # NoPart /\ r.error = NoPart
  /\ r.status = "FAILED" => r.error # NoPart /\ r.output = NoPart
  /\ r.output # NoPart => r.output = r.jobType
  /\ r.error # NoPart => r.error.correlationId = r.correlationId

ExecutionEvents == [kind : {"EXECUTION_EVENT"}, jobId : JobIds, correlationId : CorrelationIds]
ApprovalDecisions ==
  [kind : {"APPROVAL_DECISION"}, decision : {"APPROVED", "REJECTED", "EXPIRED"},
   correlationId : CorrelationIds]

ToolCalls ==
  [kind : {"TOOL_CALL"}, toolKind : {"SEARCH", "WORKFLOW"}, jobId : JobIds,
   correlationId : CorrelationIds, nested : SearchRequests \cup JobRequests]
ToolCallOk(c) ==
  /\ c.toolKind = "SEARCH" <=> c.nested.kind = "SEARCH"
  /\ c.nested.correlationId = c.correlationId
  /\ c.toolKind = "WORKFLOW" => c.nested.jobId = c.jobId

\* The job of a result is compared when the result has one: a search answer has none.
ToolResults ==
  [kind : {"TOOL_RESULT"}, success : BOOLEAN, jobId : JobIds, correlationId : CorrelationIds,
   nested : SearchResponses \cup {r \in JobResults : JobResultOk(r)}
              \cup [kind : {"ERROR"}, error : {e \in RhiaErrors : ErrorOk(e)}]]
ToolResultOk(r) ==
  /\ r.success <=> r.nested.kind # "ERROR"
  /\ IF r.success THEN r.nested.correlationId = r.correlationId
     ELSE r.nested.error.correlationId = r.correlationId
  /\ r.nested.kind = "JOB_RESULT" => r.nested.jobId = r.jobId

Callbacks ==
  [kind : {"CALLBACK"}, correlationId : CorrelationIds,
   nested : {r \in JobResults : JobResultOk(r)} \cup ExecutionEvents \cup ApprovalDecisions]
CallbackOk(c) == c.nested.correlationId = c.correlationId

-----------------------------------------------------------------------------

ContractsInit == lastMessage = NoPart

\* A message outside its schema is refused and changes nothing.
Accept(messages) == lastMessage = NoPart /\ \E m \in messages : lastMessage' = m

AcceptCall == Accept({c \in ToolCalls : ToolCallOk(c)})
AcceptResult == Accept({r \in ToolResults : ToolResultOk(r)})
AcceptCallback == Accept({c \in Callbacks : CallbackOk(c)})
Drop == lastMessage # NoPart /\ lastMessage' = NoPart

ContractsNext == AcceptCall \/ AcceptResult \/ AcceptCallback \/ Drop

-----------------------------------------------------------------------------

ContractsTypeOK == lastMessage \in {NoPart} \cup ToolCalls \cup ToolResults \cup Callbacks

\* The correlations and the jobs a message names, at every level.
JobsNamed(m) == IF "jobId" \in DOMAIN m THEN {m.jobId} ELSE {}
ErrorOf(m) ==
  IF m.kind = "ERROR" THEN m.error
  ELSE IF m.kind = "JOB_RESULT" THEN m.error ELSE NoPart
CorrelationsNamed(m) ==
  (IF m.kind = "ERROR" THEN {} ELSE {m.correlationId})
    \cup (IF ErrorOf(m) = NoPart THEN {} ELSE {ErrorOf(m).correlationId})

\* A message that is accepted is about one job and one correlation, down to the error
\* of a result inside a callback, and a result never says both that it succeeded and
\* what went wrong (packages/contracts/src/index.ts).
AcceptedMessagesCohere ==
  lastMessage # NoPart =>
    LET inner == lastMessage.nested IN
    /\ CorrelationsNamed(inner) = {lastMessage.correlationId}
    /\ lastMessage.kind # "CALLBACK" => JobsNamed(inner) \subseteq {lastMessage.jobId}
    /\ inner.kind = "JOB_RESULT" =>
         (inner.status = "SUCCEEDED" <=> inner.output # NoPart /\ inner.error = NoPart
                                          /\ inner.status # "PARTIAL")
=============================================================================

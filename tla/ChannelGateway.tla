--------------------------- MODULE ChannelGateway ---------------------------
(***************************************************************************)
(* ChannelGateway.send with the n8n adapter: look the key up, hand the     *)
(* message to the provider under a timeout, record the result if it        *)
(* succeeded.  Any number of calls overlap; processes die at any point.    *)
(*                                                                         *)
(* The provider takes a message at some moment of the request, or after    *)
(* the timeout has aborted it (late), or never.  What the caller is told   *)
(* is another matter: a 5xx, a timeout, a 2xx without an identifier or a   *)
(* broken connection may follow a message that was taken.                  *)
(***************************************************************************)
EXTENDS Naturals, Sequences

CONSTANTS
  Callers,    \* calls of send at the same time
  SendKeys,   \* idempotency keys of one organization
  Contents,   \* what is hashed: channel, provider, recipient, subject, body
  MaxSends    \* bound on the calls of send

ASSUME GatewayAssumption ==
  /\ 0 \notin SendKeys
  /\ MaxSends \in Nat

VARIABLES
  record,     \* core_idempotency, operation channel.send: content and message
  inbox,      \* by key, what the provider delivered, in its order
  late,       \* aborted requests the provider may still receive
  pc, request,\* a call: where it is and what it was asked to send
  result,     \* what the call answered: status, message, deduplicated
  confirmed,  \* history: by key, calls that answered SUCCEEDED as their own
  sends       \* calls so far

gatewayVars == <<record, inbox, late, pc, request, result, confirmed, sends>>

NoRequest == [key |-> 0, content |-> "none"]
NoRecord == [content |-> "none", message |-> 0]
NoResult == [status |-> "none", message |-> 0, deduplicated |-> FALSE]
Failed == [status |-> "FAILED", message |-> 0, deduplicated |-> FALSE]

Request == [key : SendKeys, content : Contents]
Record == [content : Contents, message : Nat \ {0}]
Result == [status : {"none", "SUCCEEDED", "FAILED", "THROWN"},
           message : Nat, deduplicated : BOOLEAN]
Places == {"idle", "lookup", "calling", "taken", "acknowledged", "answered"}

GatewayInit ==
  /\ record = [k \in SendKeys |-> NoRecord]
  /\ inbox = [k \in SendKeys |-> << >>]
  /\ late = [c \in Callers |-> {}]
  /\ pc = [c \in Callers |-> "idle"]
  /\ request = [c \in Callers |-> NoRequest]
  /\ result = [c \in Callers |-> NoResult]
  /\ confirmed = [k \in SendKeys |-> 0]
  /\ sends = 0

-----------------------------------------------------------------------------

Answer(c, answer) ==
  /\ pc' = [pc EXCEPT ![c] = "answered"]
  /\ result' = [result EXCEPT ![c] = answer]

\* A provider without adapter, or an adapter without the channel, fails at once.
BeginSend(c, r, usable) ==
  /\ pc[c] = "idle"
  /\ sends < MaxSends
  /\ sends' = sends + 1
  /\ request' = [request EXCEPT ![c] = r]
  /\ IF usable THEN pc' = [pc EXCEPT ![c] = "lookup"] /\ UNCHANGED result
               ELSE Answer(c, Failed)
  /\ UNCHANGED <<record, inbox, late, confirmed>>

\* idempotency.get: replay the recorded result, refuse the key for another
\* content, or go on to the provider.
Lookup(c) ==
  LET r == request[c]
      found == record[r.key] IN
  /\ pc[c] = "lookup"
  /\ IF found = NoRecord THEN pc' = [pc EXCEPT ![c] = "calling"] /\ UNCHANGED result
     ELSE Answer(c, IF found.content # r.content THEN Failed
                    ELSE [status |-> "SUCCEEDED", message |-> found.message,
                          deduplicated |-> TRUE])
  /\ UNCHANGED <<record, inbox, late, request, confirmed, sends>>

\* The provider takes the message while the call waits for its answer.
Take(c) ==
  /\ pc[c] = "calling"
  /\ inbox' = [inbox EXCEPT ![request[c].key] = Append(@, request[c].content)]
  /\ pc' = [pc EXCEPT ![c] = "taken"]
  /\ result' = [result EXCEPT ![c].message = Len(inbox[request[c].key]) + 1]
  /\ UNCHANGED <<record, late, request, confirmed, sends>>

\* 2xx with the identifier of the message.
Acknowledge(c) ==
  /\ pc[c] = "taken"
  /\ pc' = [pc EXCEPT ![c] = "acknowledged"]
  /\ result' = [result EXCEPT ![c].status = "SUCCEEDED"]
  /\ UNCHANGED <<record, inbox, late, request, confirmed, sends>>

\* 401, 403, 429, other 4xx: not taken.  5xx, connection errors and 2xx without
\* an identifier: taken or not.
ProviderFails(c) ==
  /\ pc[c] \in {"calling", "taken"}
  /\ Answer(c, Failed)
  /\ UNCHANGED <<record, inbox, late, request, confirmed, sends>>

\* The timeout aborts the request, which may be on its way.
Timeout(c) ==
  /\ pc[c] \in {"calling", "taken"}
  /\ Answer(c, Failed)
  /\ late' = [late EXCEPT ![c] = IF pc[c] = "calling" THEN {request[c]} ELSE @]
  /\ UNCHANGED <<record, inbox, request, confirmed, sends>>

LateArrival(c) ==
  \E r \in late[c] :
    /\ \/ inbox' = [inbox EXCEPT ![r.key] = Append(@, r.content)]
       \/ UNCHANGED inbox
    /\ late' = [late EXCEPT ![c] = @ \ {r}]
    /\ UNCHANGED <<record, pc, request, result, confirmed, sends>>

\* idempotency.record, an INSERT: the primary key lets one through.
RecordResult_asUpsert(c) ==
  LET k == request[c].key IN
  /\ pc[c] = "acknowledged"
  /\ pc' = [pc EXCEPT ![c] = "answered"]
  /\ record' = [record EXCEPT ![k] = [content |-> request[c].content, message |-> result[c].message]]
  /\ confirmed' = [confirmed EXCEPT ![k] = @ + 1]
  /\ UNCHANGED <<inbox, late, request, result, sends>>
RecordResult(c) ==
  LET k == request[c].key IN
  /\ pc[c] = "acknowledged"
  /\ pc' = [pc EXCEPT ![c] = "answered"]
  /\ IF record[k] = NoRecord
     THEN /\ record' = [record EXCEPT ![k] = [content |-> request[c].content,
                                              message |-> result[c].message]]
          /\ confirmed' = [confirmed EXCEPT ![k] = @ + 1]
          /\ UNCHANGED result
     ELSE /\ result' = [result EXCEPT ![c] = [NoResult EXCEPT !.status = "THROWN"]]
          /\ UNCHANGED <<record, confirmed>>
  /\ UNCHANGED <<inbox, late, request, sends>>

\* The caller has its answer, or its process died and nobody ever has.
Return(c) ==
  /\ pc' = [pc EXCEPT ![c] = "idle"]
  /\ request' = [request EXCEPT ![c] = NoRequest]
  /\ result' = [result EXCEPT ![c] = NoResult]
  /\ UNCHANGED <<record, inbox, confirmed, sends>>

Crash(c) ==
  /\ pc[c] \notin {"idle", "answered"}
  /\ late' = [late EXCEPT ![c] = IF pc[c] = "calling" THEN {request[c]} ELSE @]
  /\ Return(c)

GatewayStep(c) ==
  \/ Lookup(c) \/ Acknowledge(c) \/ ProviderFails(c) \/ Timeout(c)
  \/ RecordResult(c) \/ Crash(c)

-----------------------------------------------------------------------------
(* What the gateway promises.                                              *)

\* Every success that is answered, be it the call's own or a replay, is of a
\* message with the very content this call asked for that the provider took.
\* However many calls overlap under a key and however often they are repeated,
\* one of them at most is told that it sent the message itself, and then every
\* later success under the key is a replay of that one.
OneConfirmedDelivery ==
  /\ \A c \in Callers :
       pc[c] = "answered" /\ result[c].status = "SUCCEEDED" =>
         /\ result[c].message \in DOMAIN inbox[request[c].key]
         /\ inbox[request[c].key][result[c].message] = request[c].content
  /\ \A k \in SendKeys : confirmed[k] <= 1 /\ (confirmed[k] = 1 => record[k] # NoRecord)
=============================================================================

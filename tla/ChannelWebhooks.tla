--------------------------- MODULE ChannelWebhooks ---------------------------
(***************************************************************************)
(* ChannelGateway.handleWebhookEvent: deliveries of a provider's events,   *)
(* which it repeats until one is answered 2xx, handled by processes that   *)
(* overlap and die.  handleWebhookEvent only records that it has seen an   *)
(* event; its caller, which is not part of the repository, applies the     *)
(* events it calls PROCESSED and answers the provider.                     *)
(***************************************************************************)
EXTENDS Naturals

CONSTANTS
  Handlers,   \* webhook requests under way at the same time
  EventIds,   \* providerEventId, of one provider and organization
  Versions    \* what an event with that identifier may say

VARIABLES
  seen,       \* core_idempotency, operation channel.webhook.<provider>
  handler,    \* by handler, the delivery it is handling
  accepted,   \* events the provider had a 2xx for: it stops repeating them
  applied,    \* by event, how often its caller applied it
  dropped     \* history: events whose handler failed after it had recorded them

webhookVars == <<seen, handler, accepted, applied, dropped>>

NoEvent == "none"
ASSUME VersionsAssumption == NoEvent \notin Versions

Idle == [at |-> "idle", id |-> NoEvent, version |-> NoEvent]

WebhookInit ==
  /\ seen = [e \in EventIds |-> NoEvent]
  /\ handler = [h \in Handlers |-> Idle]
  /\ accepted = {}
  /\ applied = [e \in EventIds |-> 0]
  /\ dropped = {}

-----------------------------------------------------------------------------

\* The provider delivers an event, again or for the first time.  A payload that
\* parseWebhookEvent refuses, or a provider without adapter, throws here.
DeliverEvent(h, e, v) ==
  /\ handler[h].at = "idle"
  /\ e \notin accepted
  /\ handler' = [handler EXCEPT ![h] = [at |-> "get", id |-> e, version |-> v]]
  /\ UNCHANGED <<seen, accepted, applied, dropped>>

\* idempotency.get: an event that was seen is a duplicate, whatever it says now.
GetEvent(h) ==
  /\ handler[h].at = "get"
  /\ handler' = [handler EXCEPT ![h].at = IF seen[handler[h].id] # NoEvent THEN "answer" ELSE "insert"]
  /\ UNCHANGED <<seen, accepted, applied, dropped>>

\* idempotency.record, an INSERT: of two that found nothing one throws.
RecordEvent_asUpsert(h) ==
  LET d == handler[h] IN
  /\ d.at = "insert"
  /\ seen' = [seen EXCEPT ![d.id] = d.version]
  /\ handler' = [handler EXCEPT ![h].at = "apply"]
  /\ UNCHANGED <<accepted, applied, dropped>>
RecordEvent(h) ==
  LET d == handler[h] IN
  /\ d.at = "insert"
  /\ IF seen[d.id] = NoEvent
     THEN /\ seen' = [seen EXCEPT ![d.id] = d.version]
          /\ handler' = [handler EXCEPT ![h].at = "apply"]
     ELSE /\ handler' = [handler EXCEPT ![h] = Idle]
          /\ UNCHANGED seen
  /\ UNCHANGED <<accepted, applied, dropped>>

\* The caller applies what it was told is PROCESSED.
ApplyEvent(h) ==
  /\ handler[h].at = "apply"
  /\ applied' = [applied EXCEPT ![handler[h].id] = @ + 1]
  /\ handler' = [handler EXCEPT ![h].at = "answer"]
  /\ UNCHANGED <<seen, accepted, dropped>>

\* The answer reaches the provider or is lost, and then it delivers again.
AnswerProvider(h) ==
  /\ handler[h].at = "answer"
  /\ \/ accepted' = accepted \cup {handler[h].id}
     \/ UNCHANGED accepted
  /\ handler' = [handler EXCEPT ![h] = Idle]
  /\ UNCHANGED <<seen, applied, dropped>>

\* A throw of the store, a failure of the caller, or the end of the process.
HandlerFails(h) ==
  LET d == handler[h] IN
  /\ d.at \notin {"idle", "answer"}
  /\ handler' = [handler EXCEPT ![h] = Idle]
  /\ dropped' = IF d.at = "apply" THEN dropped \cup {d.id} ELSE dropped
  /\ UNCHANGED <<seen, accepted, applied>>

WebhookNext ==
  \E h \in Handlers :
    \/ \E e \in EventIds, v \in Versions : DeliverEvent(h, e, v)
    \/ GetEvent(h) \/ RecordEvent(h) \/ ApplyEvent(h) \/ AnswerProvider(h) \/ HandlerFails(h)

WebhookSpec == WebhookInit /\ [][WebhookNext]_webhookVars

-----------------------------------------------------------------------------
(* Properties.                                                             *)

WebhookTypeOK ==
  /\ seen \in [EventIds -> Versions \cup {NoEvent}]
  /\ handler \in [Handlers ->
       [at : {"get", "insert", "apply", "answer"}, id : EventIds, version : Versions] \cup {Idle}]
  /\ accepted \subseteq EventIds
  /\ applied \in [EventIds -> Nat] /\ dropped \subseteq EventIds

\* "Un mismo evento reentregado por el proveedor se procesa una sola vez": of
\* all the deliveries of an event, overlapping ones included, one at most is
\* applied or on its way to be, and a provider is told 2xx only for an event
\* that has been recorded.  A recorded event is not lost, except by a handler that
\* failed between recording and applying it: then no delivery applies it any more.
EventsApplyOnce ==
  /\ \A e \in EventIds :
       LET applying == {h \in Handlers : handler[h].at = "apply" /\ handler[h].id = e} IN
       /\ applied[e] <= 1
       /\ applying # {} => applied[e] = 0 /\ \A g, h \in applying : g = h
       /\ seen[e] # NoEvent <=> applied[e] = 1 \/ applying # {} \/ e \in dropped
       /\ e \in dropped => applied[e] = 0 /\ applying = {}
  /\ \A e \in accepted : seen[e] # NoEvent
=============================================================================

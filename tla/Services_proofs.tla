--------------------------- MODULE Services_proofs ---------------------------
(* What the services promise for every value of their constants.            *)
EXTENDS MCServices, Browser_proofs, OrderLemmas, SequenceTheorems, FiniteSetTheorems, TLAPS

-----------------------------------------------------------------------------
(* The circuit breaker of the search orchestrator.                          *)

\* A source that was asked for is one of the sources.
LEMMA SourceIsOne ==
  ASSUME NEW i \in DOMAIN RequestedSources
  PROVE  RequestedSources[i] \in Sources
BY DEF Sources, ToSet

LEMMA BreakerInitTyped == BreakerInit => BreakerTypeOK
BY BreakerAssumption, EmptySeq
   DEF BreakerAssumption, BreakerInit, BreakerTypeOK, ClosedBreaker, NoSearch

\* Each status that joins an answer moves the search by one source, so an answer
\* has a status for every source it was asked for.
LEMMA WithStatusTyped ==
  ASSUME BreakerTypeOK, NEW q \in Searches, NEW status \in ProviderStatus,
         search[q].at \in {"choose", "asking"}
  PROVE  LET r == WithStatus(search[q], status) IN
         /\ r \in [at : {"idle", "choose", "asking", "answered"}, next : Nat,
                   probe : BOOLEAN, statuses : Seq(ProviderStatus)]
         /\ r.next \in DOMAIN RequestedSources
         /\ r.at \in {"choose", "answered"}
         /\ Len(r.statuses) = IF r.at = "answered" THEN r.next ELSE r.next - 1
<1> DEFINE old == search[q]
           r == WithStatus(old, status)
           n == Len(RequestedSources)
<1>1. /\ n \in Nat \ {0}
      /\ DOMAIN RequestedSources = 1..n
  BY BreakerAssumption, LenProperties, EmptySeq DEF BreakerAssumption
<1>2. /\ old.next \in 1..n
      /\ old.statuses \in Seq(ProviderStatus)
      /\ Len(old.statuses) = old.next - 1
  BY <1>1 DEF BreakerTypeOK
<1>3. /\ Append(old.statuses, status) \in Seq(ProviderStatus)
      /\ Len(Append(old.statuses, status)) = old.next
  BY <1>2, AppendProperties
<1>4. CASE old.next = n
  BY <1>1, <1>2, <1>3, <1>4 DEF WithStatus
<1>5. CASE old.next # n
  BY <1>1, <1>2, <1>3, <1>5 DEF WithStatus
<1>. QED  BY <1>4, <1>5

\* The circuits keep their type.
LEMMA BreakerStepTyped == BreakerTypeOK /\ [BreakerNext]_breakerVars => BreakerTypeOK'
<1> SUFFICES ASSUME BreakerTypeOK, [BreakerNext]_breakerVars
             PROVE  BreakerTypeOK'
  OBVIOUS
<1> DEFINE Searching == [at : {"idle", "choose", "asking", "answered"},
                         next : Nat, probe : BOOLEAN, statuses : Seq(ProviderStatus)]
           Kept(r) ==
             r.at # "idle" =>
               /\ r.next \in DOMAIN RequestedSources
               /\ Len(r.statuses) = IF r.at = "answered" THEN r.next ELSE r.next - 1
<1>1. /\ search \in [Searches -> Searching]
      /\ \A q \in Searches : Kept(search[q])
  BY DEF BreakerTypeOK
\* It is enough that the circuits are of their type and that the search that moves is.
<1>2. ASSUME NEW q \in Searches, NEW r \in Searching, Kept(r),
             search' = [search EXCEPT ![q] = r],
             breaker' \in [Sources -> [failures : 0..FailureThreshold,
                           opened : {"never", "cooling", "cooled"}, probing : BOOLEAN]],
             admitted' \in [Sources -> SUBSET Searches]
      PROVE  BreakerTypeOK'
  <2>1. search' \in [Searches -> Searching]
    BY <1>1, <1>2
  <2>2. ASSUME NEW p \in Searches PROVE Kept(search'[p])
    <3>1. CASE p = q  BY <1>1, <1>2, <3>1
    <3>2. CASE p # q  BY <1>1, <1>2, <3>2
    <3>. QED  BY <3>1, <3>2
  <2>. QED  BY <1>2, <2>1, <2>2 DEF BreakerTypeOK
<1>3. ASSUME NEW q \in Searches, BeginSearch(q)
      PROVE  BreakerTypeOK'
  <2>1. 1 \in DOMAIN RequestedSources
    BY BreakerAssumption, LenProperties, EmptySeq DEF BreakerAssumption
  <2> DEFINE r == [NoSearch EXCEPT !.at = "choose", !.next = 1]
  <2>2. << >> \in Seq(ProviderStatus) /\ Len(<< >>) = 0
    BY EmptySeq
  <2>3. NoSearch \in Searching
    BY <2>2 DEF NoSearch
  <2>4. r.at = "choose" /\ r.next = 1 /\ r.statuses = << >>
    BY DEF NoSearch
  <2>5. r \in Searching
    BY <2>3
  <2>6. Kept(r)
    BY <2>1, <2>2, <2>4
  <2>. QED  BY <1>2, <1>3, <2>5, <2>6 DEF BeginSearch, BreakerTypeOK
<1>4. ASSUME NEW q \in Searches, SkipSource(q)
      PROVE  BreakerTypeOK'
  <2> DEFINE r == WithStatus(search[q], "UNAVAILABLE")
  <2>1. r \in Searching /\ Kept(r)
    <3>1. search[q].at \in {"choose", "asking"} /\ "UNAVAILABLE" \in ProviderStatus
      BY <1>4 DEF SkipSource, ProviderStatus
    <3>. QED  BY <3>1, WithStatusTyped
  <2>2. search' = [search EXCEPT ![q] = r] /\ UNCHANGED <<breaker, admitted>>
    BY <1>4 DEF SkipSource
  <2> HIDE DEF r
  <2>. QED  BY <1>2, <2>1, <2>2 DEF BreakerTypeOK
<1>5. ASSUME NEW q \in Searches, AskSource(q)
      PROVE  BreakerTypeOK'
  <2> DEFINE s == SourceOf(q)
             r == [search[q] EXCEPT !.at = "asking", !.probe = breaker[s].opened = "cooled"]
  <2>1. s \in Sources
    BY <1>1, <1>5, SourceIsOne DEF AskSource, SourceOf
  <2>2. r \in Searching /\ Kept(r) /\ search' = [search EXCEPT ![q] = r]
    BY <1>1, <1>5 DEF AskSource
  <2>3. /\ breaker' \in [Sources -> [failures : 0..FailureThreshold,
                         opened : {"never", "cooling", "cooled"}, probing : BOOLEAN]]
        /\ admitted' \in [Sources -> SUBSET Searches]
    BY <1>5, <2>1 DEF AskSource, BreakerTypeOK
  <2> HIDE DEF r
  <2>. QED  BY <1>2, <2>2, <2>3
<1>6. ASSUME NEW q \in Searches, NEW status \in ProviderStatus, SourceAnswers(q, status)
      PROVE  BreakerTypeOK'
  <2> DEFINE s == SourceOf(q)
             r == WithStatus(search[q], status)
  <2>1. s \in Sources
    BY <1>1, <1>6, SourceIsOne DEF SourceAnswers, SourceOf
  <2>2. r \in Searching /\ Kept(r)
    BY <1>6, WithStatusTyped DEF SourceAnswers
  <2>3. search' = [search EXCEPT ![q] = r]
    BY <1>6 DEF SourceAnswers
  <2>4. breaker' \in [Sources -> [failures : 0..FailureThreshold,
                      opened : {"never", "cooling", "cooled"}, probing : BOOLEAN]]
    BY <1>6, <2>1, BreakerAssumption
       DEF SourceAnswers, BreakerTypeOK, RecordFailure, RecordSuccess, ClosedBreaker,
           BreakerAssumption
  <2>5. admitted' \in [Sources -> SUBSET Searches]
    BY <1>6, <2>1 DEF SourceAnswers, BreakerTypeOK
  <2> HIDE DEF r
  <2>. QED  BY <1>2, <2>2, <2>3, <2>4, <2>5
<1>7. ASSUME NEW s \in Sources, CooldownPasses(s)
      PROVE  BreakerTypeOK'
  BY <1>7 DEF CooldownPasses, BreakerTypeOK
<1>8. ASSUME NEW q \in Searches, ReturnSearch(q)
      PROVE  BreakerTypeOK'
  <2>1. NoSearch \in Searching /\ Kept(NoSearch)
    BY EmptySeq DEF NoSearch
  <2>. QED  BY <1>2, <1>8, <2>1 DEF ReturnSearch, BreakerTypeOK
<1>9. CASE UNCHANGED breakerVars
  BY <1>9 DEF breakerVars, BreakerTypeOK
<1>. QED  BY <1>3, <1>4, <1>5, <1>6, <1>7, <1>8, <1>9 DEF BreakerNext

\* Every answer of orchestrateSearch has one status for each source it has been
\* through, and every circuit stays within its threshold.
THEOREM BreakerTypeCorrect == BreakerSpec => []BreakerTypeOK
<1>. QED  BY BreakerInitTyped, BreakerStepTyped, PTL DEF BreakerSpec

\* What the circuits keep besides: a circuit that waits for its probe has let one
\* search through since it opened, one that has not cooled none.
ProbesInv ==
  \A s \in Sources :
    /\ breaker[s].opened # "never" <=> breaker[s].failures = FailureThreshold
    /\ breaker[s].opened # "cooled" \/ ~breaker[s].probing => admitted[s] = {}
    /\ \A p, q \in admitted[s] : p = q
    /\ breaker[s].probing =>
         \E q \in Searches : search[q].at = "asking" /\ search[q].probe /\ SourceOf(q) = s

LEMMA ProbesStep ==
  BreakerTypeOK /\ BreakerTypeOK' /\ ProbesInv /\ [BreakerNext]_breakerVars => ProbesInv'
<1> SUFFICES ASSUME BreakerTypeOK, BreakerTypeOK', ProbesInv, [BreakerNext]_breakerVars,
                    NEW s \in Sources
             PROVE  /\ breaker'[s].opened # "never" <=> breaker'[s].failures = FailureThreshold
                    /\ breaker'[s].opened # "cooled" \/ ~breaker'[s].probing => admitted'[s] = {}
                    /\ \A p, q \in admitted'[s] : p = q
                    /\ breaker'[s].probing =>
                         \E q \in Searches :
                           search'[q].at = "asking" /\ search'[q].probe /\ SourceOf(q)' = s
  BY DEF ProbesInv
<1> DEFINE Probes(q) == search[q].at = "asking" /\ search[q].probe /\ SourceOf(q) = s
<1>1. /\ breaker[s].opened # "never" <=> breaker[s].failures = FailureThreshold
      /\ breaker[s].opened # "cooled" \/ ~breaker[s].probing => admitted[s] = {}
      /\ \A p, q \in admitted[s] : p = q
      /\ breaker[s].probing => \E q \in Searches : Probes(q)
  BY DEF ProbesInv
\* A search that does not move goes on asking.
<1>2. ASSUME NEW q \in Searches, NEW r, search' = [search EXCEPT ![q] = r],
             ~Probes(q), breaker'[s].probing = breaker[s].probing
      PROVE  breaker'[s].probing => \E p \in Searches : Probes(p)'
  BY <1>1, <1>2 DEF BreakerTypeOK, SourceOf
<1>3. ASSUME NEW q \in Searches,
             BeginSearch(q) \/ SkipSource(q) \/ ReturnSearch(q)
      PROVE  breaker' = breaker /\ admitted' = admitted
             /\ (\E r : search' = [search EXCEPT ![q] = r]) /\ ~Probes(q)
  BY <1>3 DEF BeginSearch, SkipSource, ReturnSearch
<1>4. ASSUME NEW q \in Searches, AskSource(q)
      PROVE  /\ breaker'[s].opened # "never" <=> breaker'[s].failures = FailureThreshold
             /\ breaker'[s].opened # "cooled" \/ ~breaker'[s].probing => admitted'[s] = {}
             /\ \A p, u \in admitted'[s] : p = u
             /\ breaker'[s].probing => \E p \in Searches : Probes(p)'
  <2>1. CASE SourceOf(q) = s
    <3>1. /\ breaker'[s] = [breaker[s] EXCEPT !.probing = @ \/ breaker[s].opened = "cooled"]
          /\ admitted'[s] = IF breaker[s].opened = "cooled" THEN admitted[s] \cup {q} ELSE admitted[s]
          /\ search'[q] = [search[q] EXCEPT !.at = "asking", !.probe = breaker[s].opened = "cooled"]
          /\ ~ShouldSkip(breaker[s])
      BY <1>4, <2>1 DEF AskSource, BreakerTypeOK
    <3>2. CASE breaker[s].opened = "cooled"
      <4>1. ~breaker[s].probing /\ admitted'[s] = {q} /\ breaker'[s].opened = "cooled"
            /\ breaker'[s].probing /\ breaker'[s].failures = breaker[s].failures
        BY <1>1, <3>1, <3>2 DEF ShouldSkip, BreakerTypeOK
      <4>2. Probes(q)'
        BY <1>4, <2>1, <3>1, <3>2 DEF SourceOf, BreakerTypeOK
      <4>. QED  BY <1>1, <3>2, <4>1, <4>2
    <3>3. CASE breaker[s].opened # "cooled"
      <4>1. breaker'[s] = breaker[s] /\ admitted'[s] = admitted[s]
        BY <3>1, <3>3 DEF BreakerTypeOK
      <4>2. ~Probes(q)
        BY <1>4 DEF AskSource
      <4>. QED  BY <1>1, <1>2, <1>4, <4>1, <4>2 DEF AskSource
    <3>. QED  BY <3>2, <3>3
  <2>2. CASE SourceOf(q) # s
    <3>1. breaker'[s] = breaker[s] /\ admitted'[s] = admitted[s]
      BY <1>4, <2>2 DEF AskSource, BreakerTypeOK
    <3>2. ~Probes(q)
      BY <1>4 DEF AskSource
    <3>. QED  BY <1>1, <1>2, <1>4, <3>1, <3>2 DEF AskSource
  <2>. QED  BY <2>1, <2>2
<1>5. ASSUME NEW q \in Searches, NEW status \in ProviderStatus, SourceAnswers(q, status)
      PROVE  /\ breaker'[s].opened # "never" <=> breaker'[s].failures = FailureThreshold
             /\ breaker'[s].opened # "cooled" \/ ~breaker'[s].probing => admitted'[s] = {}
             /\ \A p, u \in admitted'[s] : p = u
             /\ breaker'[s].probing => \E p \in Searches : Probes(p)'
  <2>1. CASE SourceOf(q) = s
    <3>1. /\ breaker'[s].probing = FALSE
          /\ breaker'[s].opened # "never" <=> breaker'[s].failures = FailureThreshold
          /\ breaker'[s].opened # "cooled"
      BY <1>1, <1>5, <2>1, BreakerAssumption
         DEF SourceAnswers, RecordFailure, RecordSuccess, ClosedBreaker, BreakerTypeOK,
             BreakerAssumption
    <3>2. admitted'[s] = {}
      BY <1>5, <2>1, <3>1 DEF SourceAnswers, BreakerTypeOK
    <3>. QED  BY <3>1, <3>2
  <2>2. CASE SourceOf(q) # s
    <3>1. breaker'[s] = breaker[s] /\ admitted'[s] = admitted[s]
      BY <1>5, <2>2 DEF SourceAnswers, RecordFailure, RecordSuccess, BreakerTypeOK
    <3>. QED  BY <1>1, <1>2, <1>5, <2>2, <3>1 DEF SourceAnswers
  <2>. QED  BY <2>1, <2>2
<1>6. ASSUME NEW u \in Sources, CooldownPasses(u)
      PROVE  /\ breaker'[s].opened # "never" <=> breaker'[s].failures = FailureThreshold
             /\ breaker'[s].opened # "cooled" \/ ~breaker'[s].probing => admitted'[s] = {}
             /\ \A p, q \in admitted'[s] : p = q
             /\ breaker'[s].probing => \E p \in Searches : Probes(p)'
  BY <1>1, <1>6 DEF CooldownPasses, BreakerTypeOK, SourceOf
<1>7. CASE UNCHANGED breakerVars
  BY <1>1, <1>7 DEF breakerVars, SourceOf
<1>8. CASE \E q \in Searches : BeginSearch(q) \/ SkipSource(q) \/ ReturnSearch(q)
  BY <1>1, <1>2, <1>3, <1>8
<1>. QED  BY <1>4, <1>5, <1>6, <1>7, <1>8 DEF BreakerNext

\* "un único intento de sondeo" per opening, of any number of searches and sources,
\* and no order of late answers leaves a circuit waiting for a probe nobody makes.
THEOREM OneProbe == BreakerSpec => []OneProbePerOpening
<1>1. BreakerInit => ProbesInv
  BY BreakerAssumption
     DEF BreakerInit, ProbesInv, ClosedBreaker, BreakerAssumption
<1>2. BreakerTypeOK /\ ProbesInv => OneProbePerOpening
  <2> SUFFICES ASSUME BreakerTypeOK, ProbesInv, NEW s \in Sources
               PROVE  Cardinality(admitted[s]) <= 1
    BY DEF ProbesInv, OneProbePerOpening
  <2>1. CASE admitted[s] = {}
    BY <2>1, FS_EmptySet
  <2>2. CASE admitted[s] # {}
    <3>1. PICK q \in admitted[s] : admitted[s] = {q}
      BY <2>2 DEF ProbesInv
    <3>2. Cardinality({q}) = 1
      BY FS_Singleton
    <3>. QED  BY <3>1, <3>2
  <2>. QED  BY <2>1, <2>2
<1>. QED  BY <1>1, <1>2, ProbesStep, BreakerTypeCorrect, PTL DEF BreakerSpec

-----------------------------------------------------------------------------
(* The webhooks of the channel gateway.                                     *)

\* A delivery that is being handled is of an event; one that is applied or about to
\* be answered is of an event that was recorded, and an event is applied by the one
\* delivery that recorded it.
WebhookInv ==
  /\ WebhookTypeOK
  /\ \A h \in Handlers : handler[h].at \in {"apply", "answer"} => seen[handler[h].id] # NoEvent
  /\ \A h \in Handlers : handler[h].at = "apply" => applied[handler[h].id] = 0
  /\ \A g, h \in Handlers :
       handler[g].at = "apply" /\ handler[h].at = "apply" /\ handler[g].id = handler[h].id => g = h
  /\ \A e \in EventIds : applied[e] <= 1 /\ (applied[e] = 1 => seen[e] # NoEvent)
  /\ \A e \in accepted : seen[e] # NoEvent

BeingApplied(e) == \E h \in Handlers : handler[h].at = "apply" /\ handler[h].id = e

\* An event is dropped after it was recorded and instead of being applied.
DropsInv ==
  /\ \A e \in dropped : seen[e] # NoEvent /\ applied[e] = 0
  /\ \A h \in Handlers : handler[h].at = "apply" => handler[h].id \notin dropped
  /\ \A e \in EventIds : seen[e] # NoEvent => applied[e] = 1 \/ e \in dropped \/ BeingApplied(e)

LEMMA WebhookInvInit == WebhookInit => WebhookInv
BY DEF WebhookInit, WebhookInv, WebhookTypeOK, Idle

\* What is common to the steps that neither record, nor apply, nor accept: the
\* handler goes to another place with what it has, or is done.
LEMMA WebhookInvStep == WebhookInv /\ [WebhookNext]_webhookVars => WebhookInv'
<1> SUFFICES ASSUME WebhookInv, [WebhookNext]_webhookVars
             PROVE  WebhookInv'
  OBVIOUS
<1> USE DEF WebhookInv, WebhookTypeOK
<1>1. ASSUME NEW h \in Handlers, NEW e \in EventIds, NEW v \in Versions, DeliverEvent(h, e, v)
      PROVE  WebhookInv'
  BY <1>1 DEF DeliverEvent
<1>2. ASSUME NEW h \in Handlers, GetEvent(h)
      PROVE  WebhookInv'
  BY <1>2 DEF GetEvent, Idle
<1>3. ASSUME NEW h \in Handlers, RecordEvent(h)
      PROVE  WebhookInv'
  <2>1. handler[h].id \in EventIds /\ handler[h].version \in Versions
    BY <1>3 DEF RecordEvent, Idle
  <2>2. CASE seen[handler[h].id] = NoEvent
    <3> DEFINE e == handler[h].id
    <3>1. /\ seen' = [seen EXCEPT ![e] = handler[h].version]
          /\ handler' = [handler EXCEPT ![h].at = "apply"]
          /\ UNCHANGED <<accepted, applied, dropped>>
      BY <1>3, <2>2 DEF RecordEvent
    <3>2. handler[h].version # NoEvent
      BY <2>1, VersionsAssumption DEF VersionsAssumption
    <3>3. seen' \in [EventIds -> Versions \cup {NoEvent}]
      BY <2>1, <3>1
    <3>4. \A f \in EventIds : seen'[f] # NoEvent <=> f = e \/ seen[f] # NoEvent
      BY <2>1, <3>1, <3>2
    <3>5. applied[e] = 0 /\ \A g \in Handlers : handler[g].at = "apply" => handler[g].id # e
      BY <2>1, <2>2
    <3>6. handler[h] \in [at : {"get", "insert", "apply", "answer"}, id : EventIds, version : Versions]
      BY <1>3 DEF RecordEvent, Idle
    <3>7. handler'[h] = [handler[h] EXCEPT !.at = "apply"] /\ \A g \in Handlers \ {h} : handler'[g] = handler[g]
      BY <3>1
    <3>8. WebhookTypeOK'
      BY <3>1, <3>3, <3>6
    <3>9. \A g \in Handlers : handler'[g].id = handler[g].id
      BY <3>6, <3>7
    <3>10. \A g \in Handlers : handler'[g].at = IF g = h THEN "apply" ELSE handler[g].at
      BY <3>6, <3>7
    <3>11. /\ \A g \in Handlers : handler[g].at # "idle" => handler[g].id \in EventIds
           /\ accepted \subseteq EventIds /\ accepted' = accepted /\ applied' = applied
      BY <3>1 DEF Idle
    <3>12. \A g \in Handlers : handler'[g].at \in {"apply", "answer"} => seen'[handler'[g].id] # NoEvent
      <4>1. ASSUME NEW g \in Handlers, handler'[g].at \in {"apply", "answer"}
            PROVE  seen'[handler[g].id] # NoEvent
        <5>1. CASE g = h  BY <2>1, <3>4, <5>1
        <5>2. CASE g # h
          <6>1. handler[g].at \in {"apply", "answer"}
            BY <3>10, <4>1, <5>2
          <6>2. handler[g].id \in EventIds /\ seen[handler[g].id] # NoEvent
            BY <3>11, <6>1
          <6>. QED  BY <3>4, <6>2
        <5>. QED  BY <5>1, <5>2
      <4>. QED  BY <3>9, <4>1
    <3>13. \A g \in Handlers : handler'[g].at = "apply" => applied'[handler'[g].id] = 0
      BY <3>5, <3>9, <3>10, <3>11
    <3>14. \A g, k \in Handlers :
             handler'[g].at = "apply" /\ handler'[k].at = "apply" /\ handler'[g].id = handler'[k].id => g = k
      BY <3>5, <3>9, <3>10
    <3>15. /\ \A f \in EventIds : applied'[f] <= 1 /\ (applied'[f] = 1 => seen'[f] # NoEvent)
           /\ \A f \in accepted' : seen'[f] # NoEvent
      BY <3>4, <3>11
    <3>. QED  BY <3>8, <3>12, <3>13, <3>14, <3>15
  <2>3. CASE seen[handler[h].id] # NoEvent
    BY <1>3, <2>1, <2>3 DEF RecordEvent, Idle
  <2>. QED  BY <2>2, <2>3
<1>4. ASSUME NEW h \in Handlers, ApplyEvent(h)
      PROVE  WebhookInv'
  BY <1>4 DEF ApplyEvent, Idle
<1>5. ASSUME NEW h \in Handlers, AnswerProvider(h)
      PROVE  WebhookInv'
  BY <1>5 DEF AnswerProvider, Idle
<1>6. ASSUME NEW h \in Handlers, HandlerFails(h)
      PROVE  WebhookInv'
  BY <1>6 DEF HandlerFails, Idle
<1>7. CASE UNCHANGED webhookVars
  BY <1>7 DEF webhookVars
<1>. QED  BY <1>1, <1>2, <1>3, <1>4, <1>5, <1>6, <1>7 DEF WebhookNext

\* A handler that is at an event moves on with it, or is done: who was about to apply
\* one still is, unless it is this handler.
LEMMA HandlerMoves ==
  ASSUME WebhookInv, NEW h \in Handlers, handler[h].at # "idle", NEW location,
         \/ handler' = [handler EXCEPT ![h].at = location]
         \/ handler' = [handler EXCEPT ![h] = Idle]
  PROVE  /\ handler[h].id \in EventIds /\ handler[h].version \in Versions
         /\ \A g \in Handlers : g # h => handler'[g] = handler[g]
         /\ handler'[h].at = "apply" => location = "apply"
         /\ handler' = [handler EXCEPT ![h].at = location] =>
              handler'[h].at = location /\ handler'[h].id = handler[h].id
<1>1. handler[h] \in [at : {"get", "insert", "apply", "answer"}, id : EventIds, version : Versions]
      /\ h \in DOMAIN handler /\ handler = [g \in Handlers |-> handler[g]]
  BY DEF WebhookInv, WebhookTypeOK, Idle
<1>2. \A g \in Handlers : g # h => handler'[g] = handler[g]
  BY <1>1
<1>3. ASSUME handler' = [handler EXCEPT ![h].at = location]
      PROVE  handler'[h].at = location /\ handler'[h].id = handler[h].id
  <2>1. PICK d : d = handler[h]
    OBVIOUS
  <2>2. PICK c : c = [d EXCEPT !.at = location]
    OBVIOUS
  <2>3. handler'[h] = c
    BY <1>1, <1>3, <2>1, <2>2
  <2>4. c.at = location /\ c.id = d.id
    BY <1>1, <2>1, <2>2
  <2>. QED  BY <2>1, <2>3, <2>4
<1>4. ASSUME handler' = [handler EXCEPT ![h] = Idle] PROVE handler'[h].at # "apply"
  BY <1>1, <1>4 DEF Idle
<1>. QED  BY <1>1, <1>2, <1>3, <1>4

LEMMA DropsInvStep == WebhookInv /\ DropsInv /\ [WebhookNext]_webhookVars => DropsInv'
<1> SUFFICES ASSUME WebhookInv, DropsInv, [WebhookNext]_webhookVars
             PROVE  DropsInv'
  OBVIOUS
<1>0. /\ dropped \subseteq EventIds /\ \A e \in EventIds : applied[e] \in Nat
      /\ seen \in [EventIds -> Versions \cup {NoEvent}] /\ applied \in [EventIds -> Nat]
  BY DEF WebhookInv, WebhookTypeOK
<1>1. ASSUME NEW h \in Handlers, NEW e \in EventIds, NEW v \in Versions, DeliverEvent(h, e, v)
      PROVE  DropsInv'
  <2>1. /\ handler[h].at = "idle" /\ UNCHANGED <<seen, applied, dropped>>
        /\ handler' = [handler EXCEPT ![h] = [at |-> "get", id |-> e, version |-> v]]
    BY <1>1 DEF DeliverEvent
  <2>2. \A g \in Handlers : g # h => handler'[g] = handler[g]
    BY <2>1 DEF WebhookInv, WebhookTypeOK
  <2>3. handler'[h].at = "get"
    BY <2>1 DEF WebhookInv, WebhookTypeOK
  <2>. QED  BY <2>1, <2>2, <2>3 DEF DropsInv, BeingApplied
<1>2. ASSUME NEW h \in Handlers, GetEvent(h) \/ AnswerProvider(h)
      PROVE  DropsInv'
  <2>1. /\ handler[h].at \in {"get", "answer"} /\ UNCHANGED <<seen, applied, dropped>>
        /\ \/ \E location \in {"answer", "insert"} : handler' = [handler EXCEPT ![h].at = location]
           \/ handler' = [handler EXCEPT ![h] = Idle]
    BY <1>2 DEF GetEvent, AnswerProvider
  <2>2. PICK location \in {"answer", "insert"} : \/ handler' = [handler EXCEPT ![h].at = location]
                                               \/ handler' = [handler EXCEPT ![h] = Idle]
    BY <2>1
  <2>3. /\ \A g \in Handlers : g # h => handler'[g] = handler[g]
        /\ handler'[h].at # "apply" /\ handler[h].at # "apply"
    BY <2>1, <2>2, HandlerMoves
  <2>. QED  BY <2>1, <2>3 DEF DropsInv, BeingApplied
<1>3. ASSUME NEW h \in Handlers, RecordEvent(h), seen[handler[h].id] = NoEvent
      PROVE  DropsInv'
  <2>1. PICK e : e = handler[h].id
    OBVIOUS
  <2>2. /\ handler[h].at = "insert" /\ seen' = [seen EXCEPT ![e] = handler[h].version]
        /\ handler' = [handler EXCEPT ![h].at = "apply"] /\ UNCHANGED <<applied, dropped>>
    BY <1>3, <2>1 DEF RecordEvent
  <2>3. /\ \A g \in Handlers : g # h => handler'[g] = handler[g]
        /\ handler'[h].at = "apply" /\ handler'[h].id = e
        /\ e \in EventIds /\ handler[h].version \in Versions
    BY <2>1, <2>2, HandlerMoves
  <2>4. /\ seen'[e] # NoEvent /\ \A f \in EventIds : f # e => seen'[f] = seen[f]
    BY <1>0, <2>2, <2>3, VersionsAssumption DEF VersionsAssumption
  <2>5. e \notin dropped
    BY <1>3, <2>1 DEF DropsInv
  <2>6. \A f \in EventIds : BeingApplied(f) => BeingApplied(f)'
    BY <2>2, <2>3 DEF BeingApplied
  <2>7. BeingApplied(e)'
    BY <2>3 DEF BeingApplied
  <2>8. \A f \in dropped : seen'[f] # NoEvent /\ applied[f] = 0
    BY <1>0, <2>4, <2>5 DEF DropsInv
  <2>9. \A g \in Handlers : handler'[g].at = "apply" => handler'[g].id \notin dropped
    BY <2>3, <2>5 DEF DropsInv
  <2>10. \A f \in EventIds : seen'[f] # NoEvent => applied[f] = 1 \/ f \in dropped \/ BeingApplied(f)'
    BY <2>4, <2>6, <2>7 DEF DropsInv
  <2>. QED  BY <2>2, <2>8, <2>9, <2>10 DEF DropsInv
<1>4. ASSUME NEW h \in Handlers, RecordEvent(h), seen[handler[h].id] # NoEvent
      PROVE  DropsInv'
  <2>1. /\ handler[h].at = "insert" /\ UNCHANGED <<seen, applied, dropped>>
        /\ handler' = [handler EXCEPT ![h] = Idle]
    BY <1>4 DEF RecordEvent
  <2>2. \A g \in Handlers : g # h => handler'[g] = handler[g]
    BY <2>1, HandlerMoves
  <2>3. handler'[h].at # "apply"
    BY <2>1 DEF WebhookInv, WebhookTypeOK, Idle
  <2>. QED  BY <2>1, <2>2, <2>3 DEF DropsInv, BeingApplied
<1>5. ASSUME NEW h \in Handlers, ApplyEvent(h)
      PROVE  DropsInv'
  <2>1. PICK e : e = handler[h].id
    OBVIOUS
  <2>2. /\ handler[h].at = "apply" /\ applied' = [applied EXCEPT ![e] = applied[e] + 1]
        /\ handler' = [handler EXCEPT ![h].at = "answer"] /\ UNCHANGED <<seen, dropped>>
    BY <1>5, <2>1 DEF ApplyEvent
  <2>3. /\ \A g \in Handlers : g # h => handler'[g] = handler[g]
        /\ handler'[h].at = "answer" /\ e \in EventIds
    BY <2>1, <2>2, HandlerMoves
  <2>4. applied[e] = 0 /\ e \notin dropped
    BY <2>1, <2>2 DEF WebhookInv, DropsInv
  <2>5. applied'[e] = 1 /\ \A f \in EventIds : f # e => applied'[f] = applied[f]
    BY <1>0, <2>2, <2>3, <2>4
  <2>6. \A f \in EventIds : f # e /\ BeingApplied(f) => BeingApplied(f)'
    BY <2>1, <2>3 DEF BeingApplied
  <2>7. \A f \in dropped : seen[f] # NoEvent /\ applied'[f] = 0
    BY <1>0, <2>4, <2>5 DEF DropsInv
  <2>8. \A g \in Handlers : handler'[g].at = "apply" => handler'[g].id \notin dropped
    BY <2>3 DEF DropsInv
  <2>9. \A f \in EventIds : seen[f] # NoEvent => applied'[f] = 1 \/ f \in dropped \/ BeingApplied(f)'
    BY <2>5, <2>6 DEF DropsInv
  <2>. QED  BY <2>2, <2>7, <2>8, <2>9 DEF DropsInv
<1>6. ASSUME NEW h \in Handlers, HandlerFails(h)
      PROVE  DropsInv'
  <2>1. PICK e : e = handler[h].id
    OBVIOUS
  <2>2. /\ handler[h].at # "idle" /\ UNCHANGED <<seen, applied>>
        /\ handler' = [handler EXCEPT ![h] = Idle]
        /\ dropped' = IF handler[h].at = "apply" THEN dropped \cup {e} ELSE dropped
    BY <1>6, <2>1 DEF HandlerFails
  <2>3. \A g \in Handlers : g # h => handler'[g] = handler[g]
    BY <2>2, HandlerMoves
  <2>4. handler'[h].at # "apply"
    BY <2>2 DEF WebhookInv, WebhookTypeOK, Idle
  <2>5. CASE handler[h].at = "apply"
    <3>1. dropped' = dropped \cup {e} /\ seen[e] # NoEvent /\ applied[e] = 0
      BY <2>1, <2>2, <2>5 DEF WebhookInv
    <3>2. \A g \in Handlers : g # h /\ handler[g].at = "apply" => handler[g].id # e
      BY <2>1, <2>5 DEF WebhookInv
    <3>3. \A f \in EventIds : f # e /\ BeingApplied(f) => BeingApplied(f)'
      BY <2>1, <2>3 DEF BeingApplied
    <3>4. \A g \in Handlers : handler'[g].at = "apply" => handler'[g].id \notin dropped'
      BY <2>3, <2>4, <3>1, <3>2 DEF DropsInv
    <3>. QED  BY <2>2, <3>1, <3>3, <3>4 DEF DropsInv
  <2>6. CASE handler[h].at # "apply"
    BY <2>2, <2>3, <2>4, <2>6 DEF DropsInv, BeingApplied
  <2>. QED  BY <2>5, <2>6
<1>7. CASE UNCHANGED webhookVars
  BY <1>7 DEF webhookVars, DropsInv, BeingApplied
<1>. QED  BY <1>1, <1>2, <1>3, <1>4, <1>5, <1>6, <1>7 DEF WebhookNext

\* "Un mismo evento reentregado por el proveedor se procesa una sola vez", and no
\* recorded event is lost but by a handler that failed before it applied it, for any
\* number of requests, events and versions of them.
THEOREM EventsOnce == WebhookSpec => []EventsApplyOnce
<1>1. ASSUME WebhookInv, DropsInv PROVE EventsApplyOnce
  <2>1. ASSUME NEW e \in EventIds
        PROVE  LET applying == {h \in Handlers : handler[h].at = "apply" /\ handler[h].id = e} IN
               /\ applied[e] <= 1
               /\ applying # {} => applied[e] = 0 /\ \A g, h \in applying : g = h
               /\ seen[e] # NoEvent <=> applied[e] = 1 \/ applying # {} \/ e \in dropped
               /\ e \in dropped => applied[e] = 0 /\ applying = {}
    <3> DEFINE applying == {h \in Handlers : handler[h].at = "apply" /\ handler[h].id = e}
    <3>1. applied[e] <= 1 /\ (applied[e] = 1 => seen[e] # NoEvent)
      BY <1>1 DEF WebhookInv
    <3>2. applying # {} => applied[e] = 0 /\ seen[e] # NoEvent /\ \A g, h \in applying : g = h
      BY <1>1 DEF WebhookInv
    <3>3. e \in dropped => applied[e] = 0 /\ applying = {} /\ seen[e] # NoEvent
      BY <1>1 DEF DropsInv
    <3>4. seen[e] # NoEvent => applied[e] = 1 \/ applying # {} \/ e \in dropped
      BY <1>1 DEF DropsInv, BeingApplied
    <3>. QED  BY <3>1, <3>2, <3>3, <3>4
  <2>. QED  BY <1>1, <2>1 DEF WebhookInv, EventsApplyOnce
<1>2. WebhookInit => DropsInv
  BY DEF WebhookInit, DropsInv, Idle
<1>. QED  BY <1>1, <1>2, WebhookInvInit, WebhookInvStep, DropsInvStep, PTL DEF WebhookSpec
-----------------------------------------------------------------------------
(* The model router.                                                       *)

InFlight == {t \in Tasks : route[t].at = "invoking"}

\* What is spent and what the calls under way may still cost.
PeriodInv(amount, limit) ==
  amount > 0 \/ InFlight # {} =>
    /\ DOMAIN Candidates # {}
    /\ amount + Cardinality(InFlight) * Dearest
         <= limit + Cardinality(Tasks) * Dearest - Cheapest

BudgetInv ==
  /\ PeriodInv(spent.daily, DailyLimit)
  /\ PeriodInv(spent.monthly, MonthlyLimit)
  /\ spent.daily <= spent.monthly

\* What a task was charged for: at most once in a tier, from models its class
\* allows, none surer than the best; and while the loop goes on, only in tiers it
\* has left behind, by answers that did not suffice.
Paid(r, paid) ==
  /\ r.at = "idle" => paid = << >>
  /\ r.at # "idle" => (r.best = NoAnswer <=> paid = << >>)
  /\ r.at = "invoking" => Eligible(r.policy, Candidates[r.next])
  /\ \A i \in DOMAIN paid :
       /\ Eligible(r.policy, Candidates[paid[i].candidate])
       /\ paid[i].confidence <= r.best.confidence
       /\ \A j \in DOMAIN paid : i # j =>
            Candidates[paid[i].candidate].tier # Candidates[paid[j].candidate].tier
       /\ r.at \in {"choose", "invoking"} =>
            /\ paid[i].confidence < r.policy.confidence
            /\ \A k \in DOMAIN Candidates : k >= r.next =>
                 Candidates[k].tier # Candidates[paid[i].candidate].tier
PaidInv == \A t \in Tasks : Paid(route[t], charges[t])

Candidate == [tier : Nat, est : Nat, quality : Nat, local : BOOLEAN]
Charge == [candidate : DOMAIN Candidates, confidence : 0..10]
Routing == [at : {"idle", "choose", "invoking", "answered"},
            policy : Policies \cup {NoPolicy}, next : Nat,
            best : [candidate : Nat, confidence : 0..10]]

LEMMA CandidateIsOne ==
  /\ Len(Candidates) \in Nat
  /\ DOMAIN Candidates = 1..Len(Candidates)
  /\ \A i \in DOMAIN Candidates : Candidates[i] \in Candidate
BY RouterAssumption, LenProperties, ElementOfSeq DEF RouterAssumption, Candidate

\* Past the rest of its tier there is no candidate of that tier any more.
LEMMA NextTierIsNext ==
  ASSUME NEW i \in DOMAIN Candidates
  PROVE  /\ NextTier(i) \in i + 1..Len(Candidates) + 1
         /\ \A k \in DOMAIN Candidates :
              k >= NextTier(i) => Candidates[k].tier # Candidates[i].tier
<1> DEFINE n == Len(Candidates)
           tier(k) == Candidates[k].tier
           T == {j \in i..n + 1 : j > n \/ tier(j) # tier(i)}
           Fits(j) == /\ j > n \/ tier(j) # tier(i)
                      /\ \A k \in i..j - 1 : tier(k) = tier(i)
<1>1. /\ n \in Nat
      /\ DOMAIN Candidates = 1..n
      /\ \A k \in 1..n : tier(k) \in Nat
      /\ \A k, l \in 1..n : k <= l => tier(k) <= tier(l)
  BY CandidateIsOne, RouterAssumption DEF RouterAssumption, Candidate
<1> HIDE DEF n, tier
<1>2. T \in SUBSET Nat /\ n + 1 \in T
  BY <1>1
<1>3. Min(T) \in T /\ \A j \in T : Min(T) <= j
  BY <1>2, MinIsLeast
<1>4. Min(T) \in i..n + 1 /\ Fits(Min(T))
  <2>1. ASSUME NEW k \in i..Min(T) - 1
        PROVE  tier(k) = tier(i)
    <3>1. k \in i..n + 1 /\ ~(Min(T) <= k) /\ k <= n
      BY <1>1, <1>3
    <3>. QED  BY <1>3, <3>1
  <2>. QED  BY <1>3, <2>1
<1>5. NextTier(i) = CHOOSE j \in i..n + 1 : Fits(j)
  BY DEF NextTier, n, tier
<1>6. NextTier(i) \in i..n + 1 /\ Fits(NextTier(i))
  BY <1>4, <1>5
<1> DEFINE j == NextTier(i)
<1> HIDE DEF j
<1>7. j \in i..n + 1 /\ Fits(j)
  BY <1>6 DEF j
<1>8. j # i
  BY <1>1, <1>7
<1>9. ASSUME NEW k \in 1..n, k >= j
      PROVE  tier(k) # tier(i)
  <2>1. j \in 1..n /\ i \in 1..n /\ i <= j /\ j <= k
    BY <1>1, <1>7, <1>9
  <2>2. tier(i) <= tier(j) /\ tier(j) <= tier(k) /\ tier(j) # tier(i)
    BY <1>1, <1>7, <2>1
  <2>3. tier(i) \in Nat /\ tier(j) \in Nat /\ tier(k) \in Nat
    BY <1>1, <2>1
  <2>. QED  BY <2>2, <2>3
<1>10. j \in i + 1..n + 1
  BY <1>1, <1>7, <1>8
<1>. QED  BY <1>1, <1>9, <1>10 DEF j, n, tier

\* What an answer costs is a number, at most the dearest.
LEMMA CostIsBounded ==
  ASSUME NEW a \in Answers, NEW i \in DOMAIN Candidates
  PROVE  /\ CostOf(a, Candidates[i]) \in Nat
         /\ Dearest \in Nat
         /\ CostOf(a, Candidates[i]) <= Dearest
<1> DEFINE S == Answers \X DOMAIN Candidates
           f == [x \in S |-> CostOf(x[1], Candidates[x[2]])]
           costs == {CostOf(b, Candidates[j]) : b \in Answers, j \in DOMAIN Candidates}
<1>1. \A b \in Answers, j \in DOMAIN Candidates : CostOf(b, Candidates[j]) \in Nat
  BY CandidateIsOne, RouterAssumption DEF RouterAssumption, CostOf, Candidate
<1>2. IsFiniteSet(S)
  <2>1. IsFiniteSet(DOMAIN Candidates) /\ IsFiniteSet(Answers)
    BY CandidateIsOne, FS_Interval, RouterAssumption DEF RouterAssumption
  <2>. QED  BY <2>1, FS_Product
<1>3. f \in [S -> Nat] /\ S # {}
  <2>1. <<a, i>> \in S
    OBVIOUS
  <2>. QED  BY <1>1, <2>1
<1>4. PICK x \in S : \A y \in S : f[y] <= f[x]
  <2> HIDE DEF f, S
  <2>. QED  BY <1>2, <1>3, SomeIsGreatest
<1>5. f[x] \in costs /\ \A d \in costs : d <= f[x]
  <2>1. f[x] = CostOf(x[1], Candidates[x[2]]) /\ x[1] \in Answers /\ x[2] \in DOMAIN Candidates
    OBVIOUS
  <2>2. ASSUME NEW b \in Answers, NEW j \in DOMAIN Candidates
        PROVE  CostOf(b, Candidates[j]) <= f[x]
    <3>1. <<b, j>> \in S /\ f[<<b, j>>] = CostOf(b, Candidates[j])
      OBVIOUS
    <3>. QED  BY <1>4, <3>1
  <2>. QED  BY <2>1, <2>2
<1>6. Dearest \in costs /\ \A d \in costs : d <= Dearest
  <2> HIDE DEF f
  <2>. QED  BY <1>5 DEF Dearest
<1>. QED  BY <1>1, <1>6

\* No estimate is under the cheapest.
LEMMA EstimateIsBounded ==
  ASSUME NEW i \in DOMAIN Candidates
  PROVE  Cheapest \in Nat /\ Cheapest <= Candidates[i].est
<1> DEFINE ests == {Candidates[j].est : j \in DOMAIN Candidates}
<1>1. ests \in SUBSET Nat /\ ests # {}
  BY CandidateIsOne DEF Candidate
<1>2. Min(ests) \in ests /\ \A y \in ests : Min(ests) <= y
  BY <1>1, MinIsLeast
<1>3. Cheapest \in ests /\ \A y \in ests : Cheapest <= y
  BY <1>2 DEF Cheapest
<1>. QED  BY <1>1, <1>3
LEMMA RouterInitTyped == RouterInit => RouterTypeOK /\ BudgetInv /\ PaidInv
<1> SUFFICES ASSUME RouterInit
             PROVE  RouterTypeOK /\ BudgetInv /\ PaidInv
  OBVIOUS
<1>1. << >> \in Seq(Charge) /\ DOMAIN << >> = {}
  BY EmptySeq
<1>2. NoAnswer \in [candidate : Nat, confidence : 0..10]
  BY DEF NoAnswer
<1>3. NoRoute \in Routing
  BY <1>2 DEF NoRoute, Routing
<1>4. RouterTypeOK
  BY <1>1, <1>3 DEF RouterInit, RouterTypeOK, NoRoute, NoAnswer, Routing, Charge
<1>5. BudgetInv
  BY DEF RouterInit, BudgetInv, PeriodInv, InFlight, NoRoute
<1>6. PaidInv
  BY <1>1 DEF RouterInit, PaidInv, Paid, NoRoute
<1>. QED  BY <1>4, <1>5, <1>6

\* Where the loop is with the candidate i.
LEMMA AtGoesOn ==
  ASSUME NEW r \in Routing, NEW i \in 1..Len(Candidates) + 1,
         r.best.candidate \in DOMAIN Candidates \cup {0}
  PROVE  /\ At(r, i) \in Routing
         /\ At(r, i).at \in {"choose", "answered"}
         /\ At(r, i).at = "choose" => At(r, i).next = i /\ i \in DOMAIN Candidates
         /\ At(r, i).policy = r.policy
         /\ At(r, i).best = r.best
<1>1. /\ Len(Candidates) \in Nat
      /\ DOMAIN Candidates = 1..Len(Candidates)
      /\ i \in Nat
  BY CandidateIsOne
<1>2. CASE i > Len(Candidates)
  <2> DEFINE s == [r EXCEPT !.at = "answered"]
  <2>1. At(r, i) = s
    BY <1>2 DEF At
  <2>2. s \in Routing /\ s.at = "answered" /\ s.policy = r.policy /\ s.best = r.best
    BY DEF Routing
  <2>. QED  BY <2>1, <2>2
<1>3. CASE ~(i > Len(Candidates))
  <2> DEFINE s == [r EXCEPT !.at = "choose", !.next = i]
  <2>1. At(r, i) = s
    BY <1>3 DEF At
  <2>2. s \in Routing /\ s.at = "choose" /\ s.next = i /\ s.policy = r.policy /\ s.best = r.best
    BY <1>1 DEF Routing
  <2>3. i \in DOMAIN Candidates
    BY <1>1, <1>3
  <2>. QED  BY <2>1, <2>2, <2>3
<1>. QED  BY <1>2, <1>3

\* The routing of one task moves to r, with what it paid: the state keeps its type
\* and the promise about what was paid when r keeps them.
LEMMA TaskMoves ==
  ASSUME RouterTypeOK, PaidInv, NEW t \in Tasks, NEW r \in Routing, NEW paid \in Seq(Charge),
         route' = [route EXCEPT ![t] = r],
         charges' = [charges EXCEPT ![t] = paid],
         spent' \in [daily : Nat, monthly : Nat],
         r.at \in {"choose", "invoking"} => r.next \in DOMAIN Candidates,
         r.best.candidate \in DOMAIN Candidates \cup {0},
         Paid(r, paid)
  PROVE  RouterTypeOK' /\ PaidInv'
<1>1. /\ route' \in [Tasks -> Routing] /\ charges' \in [Tasks -> Seq(Charge)]
      /\ \A u \in Tasks : /\ route'[u] = IF u = t THEN r ELSE route[u]
                          /\ charges'[u] = IF u = t THEN paid ELSE charges[u]
  BY DEF RouterTypeOK, Routing, Charge
<1>2. RouterTypeOK'
  BY <1>1 DEF RouterTypeOK, Routing, Charge
<1>3. ASSUME NEW u \in Tasks PROVE Paid(route'[u], charges'[u])
  <2>1. CASE u = t  BY <1>1, <2>1
  <2>2. CASE u # t  BY <1>1, <2>2 DEF PaidInv
  <2>. QED  BY <2>1, <2>2
<1>4. PaidInv'
  <2>1. (\A u \in Tasks : Paid(route'[u], charges'[u])) => PaidInv'
    BY DEF PaidInv, Paid, Eligible
  <2>. QED  BY <1>3, <2>1
<1>. QED  BY <1>2, <1>4

\* The calls under way stay the same, or one of them begins or ends.
LEMMA InFlightMoves ==
  ASSUME RouterTypeOK, NEW t \in Tasks, NEW r \in Routing,
         route' = [route EXCEPT ![t] = r]
  PROVE  /\ IsFiniteSet(InFlight) /\ Cardinality(InFlight) \in Nat
         /\ Cardinality(Tasks) \in Nat /\ Cardinality(InFlight) <= Cardinality(Tasks)
         /\ Cardinality(InFlight') <= Cardinality(Tasks)
         /\ Cardinality(InFlight') =
              IF route[t].at = "invoking" /\ r.at # "invoking" THEN Cardinality(InFlight) - 1
              ELSE IF route[t].at # "invoking" /\ r.at = "invoking" THEN Cardinality(InFlight) + 1
              ELSE Cardinality(InFlight)
         /\ r.at = route[t].at \/ (route[t].at # "invoking" /\ r.at # "invoking")
              => InFlight' = InFlight
<1>1. IsFiniteSet(Tasks) /\ Cardinality(Tasks) \in Nat
  BY RouterAssumption, FS_CardinalityType DEF RouterAssumption
<1>2. /\ IsFiniteSet(InFlight) /\ Cardinality(InFlight) \in Nat
      /\ Cardinality(InFlight) <= Cardinality(Tasks)
      /\ Cardinality(InFlight') <= Cardinality(Tasks)
  <2>1. InFlight \in SUBSET Tasks /\ InFlight' \in SUBSET Tasks
    BY DEF InFlight
  <2>. QED  BY <1>1, <2>1, FS_Subset, FS_CardinalityType
<1>3. \A u \in Tasks : route'[u] = IF u = t THEN r ELSE route[u]
  BY DEF RouterTypeOK
<1>4. CASE route[t].at = "invoking" /\ r.at # "invoking"
  <2>1. InFlight' = InFlight \ {t} /\ t \in InFlight
    BY <1>3, <1>4 DEF InFlight
  <2>. QED  BY <1>1, <1>2, <1>4, <2>1, FS_RemoveElement
<1>5. CASE route[t].at # "invoking" /\ r.at = "invoking"
  <2>1. InFlight' = InFlight \cup {t} /\ t \notin InFlight
    BY <1>3, <1>5 DEF InFlight
  <2>. QED  BY <1>1, <1>2, <1>5, <2>1, FS_AddElement
<1>6. CASE (route[t].at = "invoking") = (r.at = "invoking")
  <2>1. InFlight' = InFlight
    BY <1>3, <1>6 DEF InFlight
  <2>. QED  BY <1>1, <1>2, <1>6, <2>1
<1>. QED  BY <1>4, <1>5, <1>6

\* One call more, or one less that cost at most the dearest.
LEMMA OneMoreCall ==
  ASSUME NEW amount \in Nat, NEW est \in Nat, NEW limit \in Nat, NEW cheapest \in Nat,
         NEW d \in Nat, NEW calls \in Nat, NEW tasks \in Nat,
         amount + est <= limit, cheapest <= est, calls <= tasks
  PROVE  amount + calls * d <= limit + tasks * d - cheapest
<1>1. PICK k \in Nat : tasks = calls + k
  <2>1. tasks - calls \in Nat /\ tasks = calls + (tasks - calls)
    OBVIOUS
  <2>. QED  BY <2>1
<1>2. tasks * d = calls * d + k * d
  BY <1>1
<1>3. calls * d \in Nat /\ k * d \in Nat
  BY <1>1
<1> DEFINE a == calls * d
           b == k * d
<1> HIDE DEF a, b
<1>4. a \in Nat /\ b \in Nat /\ tasks * d = a + b
  BY <1>2, <1>3 DEF a, b
<1>5. amount + a <= limit + (a + b) - cheapest
  BY <1>4
<1>. QED  BY <1>4, <1>5 DEF a

LEMMA OneCallLess ==
  ASSUME NEW amount \in Nat, NEW cost \in Nat, NEW d \in Nat, NEW calls \in Nat \ {0},
         NEW bound \in Int, cost <= d, amount + calls * d <= bound
  PROVE  amount + cost + (calls - 1) * d <= bound
<1>1. calls * d = (calls - 1) * d + d
  OBVIOUS
<1>2. (calls - 1) * d \in Nat
  OBVIOUS
<1> DEFINE a == (calls - 1) * d
<1> HIDE DEF a
<1>3. a \in Nat /\ calls * d = a + d
  BY <1>1, <1>2 DEF a
<1>4. amount + cost + a <= bound
  BY <1>3
<1>. QED  BY <1>4 DEF a

\* A step of a task that ends no call and begins none leaves the budget alone.
LEMMA BudgetStays ==
  ASSUME BudgetInv, spent' = spent, InFlight' = InFlight
  PROVE  BudgetInv'
BY DEF BudgetInv, PeriodInv

\* A call ends, and what it cost is spent.
LEMMA CallEnds ==
  ASSUME RouterTypeOK, BudgetInv, NEW t \in Tasks, NEW r \in Routing, NEW cost \in Nat,
         route' = [route EXCEPT ![t] = r], route[t].at = "invoking", r.at # "invoking",
         spent'.daily = spent.daily + cost, spent'.monthly = spent.monthly + cost,
         cost <= Dearest
  PROVE  BudgetInv'
<1> DEFINE calls == Cardinality(InFlight)
           overrun == Cardinality(Tasks) * Dearest - Cheapest
<1>1. /\ spent.daily \in Nat /\ spent.monthly \in Nat
      /\ route[t].next \in DOMAIN Candidates
  BY DEF RouterTypeOK
<1>2. Dearest \in Nat /\ Cheapest \in Nat
  <2>1. PICK a \in Answers : TRUE
    BY RouterAssumption DEF RouterAssumption
  <2>. QED  BY <1>1, <2>1, CostIsBounded, EstimateIsBounded
<1>3. InFlight # {}
  BY DEF InFlight
<1>4. /\ calls \in Nat \ {0} /\ Cardinality(InFlight') = calls - 1
      /\ Cardinality(Tasks) \in Nat
  <2>1. IsFiniteSet(InFlight) /\ calls \in Nat /\ Cardinality(Tasks) \in Nat
        /\ Cardinality(InFlight') = calls - 1
    BY InFlightMoves
  <2>2. calls # 0
    BY <1>3, <2>1, FS_EmptySet
  <2>. QED  BY <2>1, <2>2
<1>5. /\ DailyLimit + overrun \in Int /\ MonthlyLimit + overrun \in Int
  BY <1>2, <1>4, RouterAssumption DEF RouterAssumption
<1>6. /\ spent.daily + calls * Dearest <= DailyLimit + overrun
      /\ spent.monthly + calls * Dearest <= MonthlyLimit + overrun
      /\ spent.daily <= spent.monthly
  <2>1. /\ DailyLimit + Cardinality(Tasks) * Dearest - Cheapest = DailyLimit + overrun
        /\ MonthlyLimit + Cardinality(Tasks) * Dearest - Cheapest = MonthlyLimit + overrun
    BY <1>2, <1>4, RouterAssumption DEF RouterAssumption
  <2>. QED  BY <1>3, <2>1 DEF BudgetInv, PeriodInv
<1>7. /\ spent.daily + cost + (calls - 1) * Dearest <= DailyLimit + overrun
      /\ spent.monthly + cost + (calls - 1) * Dearest <= MonthlyLimit + overrun
  <2> HIDE DEF overrun
  <2>. QED  BY <1>1, <1>2, <1>4, <1>5, <1>6, OneCallLess
<1>8. spent'.daily <= spent'.monthly
  BY <1>1, <1>6
<1>9. /\ DailyLimit + Cardinality(Tasks) * Dearest - Cheapest = DailyLimit + overrun
      /\ MonthlyLimit + Cardinality(Tasks) * Dearest - Cheapest = MonthlyLimit + overrun
  BY <1>2, <1>4, RouterAssumption DEF RouterAssumption
<1>. QED  BY <1>1, <1>4, <1>7, <1>8, <1>9 DEF BudgetInv, PeriodInv

\* Every step of the router keeps the type, the budget and what was paid.
LEMMA RouterStep ==
  RouterTypeOK /\ BudgetInv /\ PaidInv /\ [RouterNext]_routerVars
    => RouterTypeOK' /\ BudgetInv' /\ PaidInv'
<1> SUFFICES ASSUME RouterTypeOK, BudgetInv, PaidInv, [RouterNext]_routerVars
             PROVE  RouterTypeOK' /\ BudgetInv' /\ PaidInv'
  OBVIOUS
<1>1. /\ spent \in [daily : Nat, monthly : Nat]
      /\ \A t \in Tasks : /\ route[t] \in Routing
                          /\ charges[t] \in Seq(Charge)
                          /\ route[t].best.candidate \in DOMAIN Candidates \cup {0}
                          /\ Paid(route[t], charges[t])
  BY DEF RouterTypeOK, Routing, Charge, PaidInv
<1>2. /\ Len(Candidates) \in Nat
      /\ DOMAIN Candidates = 1..Len(Candidates)
      /\ \A i \in DOMAIN Candidates : Candidates[i] \in Candidate
  BY CandidateIsOne
<1>3. << >> \in Seq(Charge) /\ DOMAIN << >> = {}
  BY EmptySeq
<1>4. NoRoute \in Routing /\ NoRoute.at = "idle" /\ NoRoute.best.candidate = 0
  <2>1. NoAnswer \in [candidate : Nat, confidence : 0..10] /\ NoAnswer.candidate = 0
    BY DEF NoAnswer
  <2>. QED  BY <2>1 DEF NoRoute, Routing
<1>5. ASSUME NEW t \in Tasks, NEW policy \in Policies, BeginRoute(t, policy)
      PROVE  RouterTypeOK' /\ BudgetInv' /\ PaidInv'
  <2> DEFINE fresh == [NoRoute EXCEPT !.policy = policy]
             r == At(fresh, 1)
  <2>1. fresh \in Routing /\ fresh.best = NoRoute.best /\ NoRoute.best = NoAnswer
    BY <1>4 DEF Routing, NoRoute
  <2>2. /\ r \in Routing /\ r.at \in {"choose", "answered"} /\ r.best = NoAnswer
        /\ r.at = "choose" => r.next \in DOMAIN Candidates
    <3>1. 1 \in 1..Len(Candidates) + 1
      BY <1>2
    <3>2. fresh.best.candidate \in DOMAIN Candidates \cup {0}
      BY <1>4, <2>1
    <3>. QED  BY <2>1, <3>1, <3>2, AtGoesOn
  <2>3. route' = [route EXCEPT ![t] = r] /\ UNCHANGED <<spent, charges>> /\ route[t].at = "idle"
    BY <1>5 DEF BeginRoute
  <2> HIDE DEF r
  <2>4. charges[t] = << >> /\ charges' = [charges EXCEPT ![t] = << >>]
    BY <1>1, <2>3 DEF Paid, RouterTypeOK
  <2>5. Paid(r, << >>)
    BY <1>3, <2>2 DEF Paid
  <2>6. RouterTypeOK' /\ PaidInv'
    BY <1>1, <1>3, <1>4, <2>1, <2>2, <2>3, <2>4, <2>5, TaskMoves
  <2>7. BudgetInv'
    BY <2>2, <2>3, InFlightMoves, BudgetStays
  <2>. QED  BY <2>6, <2>7
<1>6. ASSUME NEW t \in Tasks, SkipCandidate(t) \/ CandidateFails(t)
      PROVE  RouterTypeOK' /\ BudgetInv' /\ PaidInv'
  <2> DEFINE old == route[t]
             r == At(old, old.next + 1)
  <2>1. /\ old.at \in {"choose", "invoking"}
        /\ old.at = "invoking" \/ old.at = "choose"
        /\ old.next \in DOMAIN Candidates
        /\ route' = [route EXCEPT ![t] = r]
        /\ UNCHANGED <<spent, charges>>
    BY <1>6 DEF SkipCandidate, CandidateFails, RouterTypeOK
  <2>2. old.next + 1 \in 1..Len(Candidates) + 1 /\ old.next \in Nat
    BY <1>2, <2>1
  <2>3. /\ r \in Routing /\ r.at \in {"choose", "answered"}
        /\ r.best = old.best /\ r.policy = old.policy
        /\ r.at = "choose" => r.next = old.next + 1 /\ r.next \in DOMAIN Candidates
    BY <1>1, <2>2, AtGoesOn
  <2> HIDE DEF r
  <2>4. charges' = [charges EXCEPT ![t] = charges[t]]
    BY <2>1 DEF RouterTypeOK
  <2>5. Paid(r, charges[t])
    <3>1. Paid(old, charges[t])
      BY <1>1
    <3>2. \A k \in DOMAIN Candidates : k >= old.next + 1 => k >= old.next
      BY <1>2, <2>2
    <3>. QED  BY <2>1, <2>3, <3>1, <3>2 DEF Paid
  <2>6. RouterTypeOK' /\ PaidInv'
    BY <1>1, <2>1, <2>3, <2>4, <2>5, TaskMoves
  <2>7. BudgetInv'
    <3>1. CASE old.at = "choose"
      BY <2>1, <2>3, <3>1, InFlightMoves, BudgetStays
    <3>2. CASE old.at = "invoking"
      <4>1. PICK a \in Answers : TRUE
        BY RouterAssumption DEF RouterAssumption
      <4>2. Dearest \in Nat
        BY <2>1, <4>1, CostIsBounded
      <4>3. /\ 0 <= Dearest /\ 0 \in Nat
            /\ spent'.daily = spent.daily + 0 /\ spent'.monthly = spent.monthly + 0
        BY <1>1, <2>1, <4>2
      <4>. QED  BY <2>1, <2>3, <3>2, <4>3, CallEnds
    <3>. QED  BY <2>1, <3>1, <3>2
  <2>. QED  BY <2>6, <2>7
<1>7. ASSUME NEW t \in Tasks, InvokeCandidate(t)
      PROVE  RouterTypeOK' /\ BudgetInv' /\ PaidInv'
  <2> DEFINE old == route[t]
             r == [old EXCEPT !.at = "invoking"]
             est == Candidates[old.next].est
  <2>1. /\ old.at = "choose" /\ old.next \in DOMAIN Candidates
        /\ Eligible(old.policy, Candidates[old.next])
        /\ Affordable(Candidates[old.next])
        /\ route' = [route EXCEPT ![t] = r]
        /\ UNCHANGED <<spent, charges>>
    BY <1>7 DEF InvokeCandidate, RouterTypeOK
  <2>2. /\ r \in Routing /\ r.at = "invoking" /\ r.next = old.next
        /\ r.best = old.best /\ r.policy = old.policy
    BY <1>1 DEF Routing
  <2> HIDE DEF r
  <2>3. charges' = [charges EXCEPT ![t] = charges[t]]
    BY <2>1 DEF RouterTypeOK
  <2>4. Paid(r, charges[t])
    <3>1. Paid(old, charges[t])
      BY <1>1
    <3>. QED  BY <2>1, <2>2, <3>1 DEF Paid
  <2>5. RouterTypeOK' /\ PaidInv'
    BY <1>1, <2>1, <2>2, <2>3, <2>4, TaskMoves
  <2>6. /\ Cardinality(InFlight) \in Nat /\ Cardinality(Tasks) \in Nat
        /\ Cardinality(InFlight') = Cardinality(InFlight) + 1
        /\ Cardinality(InFlight') <= Cardinality(Tasks)
    BY <2>1, <2>2, InFlightMoves
  <2>7. Dearest \in Nat /\ Cheapest \in Nat /\ Cheapest <= est /\ est \in Nat
    <3>1. PICK a \in Answers : TRUE
      BY RouterAssumption DEF RouterAssumption
    <3>. QED  BY <1>2, <2>1, <3>1, CostIsBounded, EstimateIsBounded DEF Candidate
  <2>8. /\ spent.daily \in Nat /\ spent.monthly \in Nat
        /\ spent.daily + est <= DailyLimit /\ spent.monthly + est <= MonthlyLimit
        /\ DailyLimit \in Nat /\ MonthlyLimit \in Nat
    BY <1>1, <2>1, RouterAssumption DEF Affordable, RouterAssumption
  <2>9. /\ spent.daily + Cardinality(InFlight') * Dearest
             <= DailyLimit + Cardinality(Tasks) * Dearest - Cheapest
        /\ spent.monthly + Cardinality(InFlight') * Dearest
             <= MonthlyLimit + Cardinality(Tasks) * Dearest - Cheapest
    <3> DEFINE calls == Cardinality(InFlight')
    <3>1. calls \in Nat /\ calls <= Cardinality(Tasks)
      BY <2>6
    <3> HIDE DEF calls, est
    <3>2. spent.daily + calls * Dearest <= DailyLimit + Cardinality(Tasks) * Dearest - Cheapest
      BY <2>6, <2>7, <2>8, <3>1, OneMoreCall
    <3>3. spent.monthly + calls * Dearest <= MonthlyLimit + Cardinality(Tasks) * Dearest - Cheapest
      BY <2>6, <2>7, <2>8, <3>1, OneMoreCall
    <3>. QED  BY <3>2, <3>3 DEF calls
  <2>10. BudgetInv'
    BY <2>1, <2>9 DEF BudgetInv, PeriodInv
  <2>. QED  BY <2>5, <2>10
<1>8. ASSUME NEW t \in Tasks, NEW answer \in Answers, CandidateAnswers(t, answer)
      PROVE  RouterTypeOK' /\ BudgetInv' /\ PaidInv'
  <2> DEFINE old == route[t]
             paid == charges[t]
             cost == CostOf(answer, Candidates[old.next])
             given == [candidate |-> old.next, confidence |-> Confidence(answer.finish)]
             better == old.best = NoAnswer \/ given.confidence > old.best.confidence
             kept == [old EXCEPT !.best = IF better THEN given ELSE @]
             r == IF given.confidence >= old.policy.confidence
                  THEN [old EXCEPT !.best = given, !.at = "answered"]
                  ELSE At(kept, NextTier(old.next))
  <2>1. /\ old.at = "invoking" /\ old.next \in DOMAIN Candidates
        /\ old \in Routing /\ paid \in Seq(Charge) /\ Paid(old, paid)
        /\ route' = [route EXCEPT ![t] = r]
        /\ charges' = [charges EXCEPT ![t] = Append(paid, given)]
        /\ spent' = [daily |-> spent.daily + cost, monthly |-> spent.monthly + cost]
    BY <1>1, <1>8 DEF CandidateAnswers, RouterTypeOK
  <2>2. cost \in Nat /\ cost <= Dearest
    BY <2>1, CostIsBounded
  <2>3. given \in Charge /\ given.candidate = old.next /\ given # NoAnswer
    <3>1. Confidence(answer.finish) \in 0..10
      BY RouterAssumption DEF RouterAssumption, Confidence
    <3>2. old.next # 0
      BY <1>2, <2>1
    <3>. QED  BY <2>1, <3>1, <3>2 DEF Charge, NoAnswer
  <2>4. given \in [candidate : Nat, confidence : 0..10] /\ given.confidence \in 0..10
    BY <1>2, <2>3 DEF Charge
  <2> DEFINE all == Append(paid, given)
             n == Len(paid)
  <2>5. /\ all \in Seq(Charge) /\ n \in Nat
        /\ DOMAIN paid = 1..n /\ DOMAIN all = 1..n + 1
        /\ all[n + 1] = given /\ \A i \in 1..n : all[i] = paid[i] /\ i # n + 1
        /\ \A i \in 1..n + 1 : i \in 1..n \/ i = n + 1
        /\ all # << >>
        /\ \A i \in 1..n : paid[i] \in Charge
    <3>1. all \in Seq(Charge) /\ n \in Nat /\ DOMAIN paid = 1..n /\ Len(all) = n + 1
          /\ all[n + 1] = given /\ \A i \in 1..n : all[i] = paid[i]
      BY <2>1, <2>3, AppendProperties, LenProperties
    <3>2. DOMAIN all = 1..n + 1
      BY <3>1, LenProperties
    <3>3. all # << >>
      BY <3>1, EmptySeq
    <3>4. \A i \in 1..n : paid[i] \in Charge
      BY <2>1, ElementOfSeq
    <3>. QED  BY <3>1, <3>2, <3>3, <3>4
  <2> HIDE DEF given, all, n, cost
  \* What was paid before came of other tiers and was not enough.
  <2>6. /\ \A i \in 1..n :
             /\ Eligible(old.policy, Candidates[paid[i].candidate])
             /\ paid[i].confidence <= old.best.confidence
             /\ paid[i].confidence < old.policy.confidence
             /\ Candidates[old.next].tier # Candidates[paid[i].candidate].tier
             /\ \A j \in 1..n : i # j =>
                  Candidates[paid[i].candidate].tier # Candidates[paid[j].candidate].tier
             /\ \A k \in DOMAIN Candidates : k >= old.next =>
                  Candidates[k].tier # Candidates[paid[i].candidate].tier
        /\ Eligible(old.policy, Candidates[old.next])
        /\ old.best = NoAnswer <=> n = 0
    <3>1. old.next >= old.next
      BY <1>2, <2>1
    <3>2. n = 0 <=> paid = << >>
      BY <2>1, <2>5, EmptySeq DEF n
    <3>. QED  BY <2>1, <2>5, <3>1, <3>2 DEF Paid
  <2>7. \A i, j \in 1..n + 1 : i # j =>
          Candidates[all[i].candidate].tier # Candidates[all[j].candidate].tier
    BY <2>3, <2>5, <2>6
  <2>8. \A i \in 1..n + 1 : Eligible(old.policy, Candidates[all[i].candidate])
    BY <2>3, <2>5, <2>6
  <2>9. /\ old.policy.confidence \in Nat /\ old.best.confidence \in 0..10
        /\ \A i \in 1..n : paid[i].confidence \in 0..10
    <3>1. old.policy \in Policies \cup {NoPolicy} /\ old.best.confidence \in 0..10
      BY <2>1 DEF Routing
    <3>2. old.policy.confidence \in Nat
      BY <3>1, RouterAssumption DEF RouterAssumption, NoPolicy
    <3>3. \A i \in 1..n : paid[i].confidence \in 0..10
      BY <2>5 DEF Charge
    <3>. QED  BY <3>1, <3>2, <3>3
  <2> DEFINE Keeps == /\ r \in Routing /\ Paid(r, all) /\ r.at \in {"choose", "answered"}
                      /\ r.at = "choose" => r.next \in DOMAIN Candidates
                      /\ r.best.candidate \in DOMAIN Candidates \cup {0}
  <2>10. ASSUME given.confidence >= old.policy.confidence
         PROVE  Keeps
    <3> DEFINE s == [old EXCEPT !.best = given, !.at = "answered"]
    <3>1. r = s
      BY <2>10
    <3>2. s \in Routing /\ s.at = "answered" /\ s.best = given /\ s.policy = old.policy
      BY <2>1, <2>4 DEF Routing
    <3> HIDE DEF s, r
    <3>3. \A i \in 1..n + 1 : all[i].confidence <= given.confidence
      <4>1. \A i \in 1..n : paid[i].confidence <= given.confidence
        BY <2>4, <2>6, <2>9, <2>10
      <4>. QED  BY <2>4, <2>5, <4>1
    <3>4. Paid(s, all)
      BY <2>3, <2>5, <2>7, <2>8, <3>2, <3>3 DEF Paid
    <3>. QED  BY <2>1, <2>3, <3>1, <3>2, <3>4
  <2>11. ASSUME ~(given.confidence >= old.policy.confidence)
         PROVE  Keeps
    <3> DEFINE best == IF better THEN given ELSE old.best
    <3>1. NextTier(old.next) \in 1..Len(Candidates) + 1
      BY <1>2, <2>1, NextTierIsNext
    <3>2. /\ kept \in Routing /\ kept.best = best /\ kept.policy = old.policy
          /\ best.candidate \in DOMAIN Candidates \cup {0}
      BY <1>1, <2>1, <2>3, <2>4 DEF Routing
    <3>3. r = At(kept, NextTier(old.next))
      BY <2>11
    <3> HIDE DEF r, kept, best
    <3>4. /\ r \in Routing /\ r.at \in {"choose", "answered"}
          /\ r.best = best /\ r.policy = old.policy
          /\ r.at = "choose" => r.next = NextTier(old.next) /\ r.next \in DOMAIN Candidates
      BY <3>1, <3>2, <3>3, AtGoesOn
    <3>5. best # NoAnswer
      BY <2>3 DEF best
    <3>6. \A i \in 1..n + 1 : all[i].confidence <= best.confidence
      <4>1. CASE better
        <5>1. best = given
          BY <4>1 DEF best
        <5>2. \A i \in 1..n : paid[i].confidence <= given.confidence
          BY <2>4, <2>6, <2>9, <4>1
        <5>. QED  BY <2>4, <2>5, <5>1, <5>2
      <4>2. CASE ~better
        <5>1. best = old.best /\ given.confidence <= old.best.confidence
          BY <2>4, <2>9, <4>2 DEF best
        <5>. QED  BY <2>5, <2>6, <5>1
      <4>. QED  BY <4>1, <4>2
    <3>7. \A i \in 1..n + 1 : all[i].confidence < old.policy.confidence
      BY <2>4, <2>5, <2>6, <2>9, <2>11
    <3>8. \A i \in 1..n + 1, k \in DOMAIN Candidates : k >= NextTier(old.next) =>
            Candidates[k].tier # Candidates[all[i].candidate].tier
      <4>1. /\ NextTier(old.next) \in Nat /\ NextTier(old.next) >= old.next /\ old.next \in Nat
            /\ \A k \in DOMAIN Candidates :
                 k >= NextTier(old.next) => Candidates[k].tier # Candidates[old.next].tier
        BY <1>2, <2>1, NextTierIsNext
      <4>2. \A k \in DOMAIN Candidates : k >= NextTier(old.next) => k >= old.next
        BY <1>2, <4>1
      <4>. QED  BY <2>3, <2>5, <2>6, <4>1, <4>2
    <3>9. Paid(r, all)
      BY <2>5, <2>7, <2>8, <3>4, <3>5, <3>6, <3>7, <3>8 DEF Paid
    <3>. QED  BY <3>2, <3>4, <3>9
  <2>12. Keeps
    BY <2>10, <2>11
  <2> HIDE DEF r
  <2>13. spent' \in [daily : Nat, monthly : Nat]
    BY <1>1, <2>1, <2>2
  <2>14. charges' = [charges EXCEPT ![t] = all]
    BY <2>1 DEF all
  <2>15. RouterTypeOK' /\ PaidInv'
    BY <2>1, <2>5, <2>12, <2>13, <2>14, TaskMoves
  <2>16. BudgetInv'
    <3>1. /\ spent'.daily = spent.daily + cost /\ spent'.monthly = spent.monthly + cost
          /\ r.at # "invoking"
      BY <2>1, <2>12
    <3>. QED  BY <2>1, <2>2, <2>12, <3>1, CallEnds
  <2>. QED  BY <2>15, <2>16
<1>9. ASSUME NEW t \in Tasks, ReturnRoute(t)
      PROVE  RouterTypeOK' /\ BudgetInv' /\ PaidInv'
  <2>1. /\ route' = [route EXCEPT ![t] = NoRoute] /\ route[t].at = "answered"
        /\ charges' = [charges EXCEPT ![t] = << >>] /\ spent' = spent
    BY <1>9 DEF ReturnRoute
  <2>2. Paid(NoRoute, << >>)
    BY <1>3, <1>4 DEF Paid
  <2>3. RouterTypeOK' /\ PaidInv'
    BY <1>1, <1>3, <1>4, <2>1, <2>2, TaskMoves
  <2>4. BudgetInv'
    BY <1>4, <2>1, InFlightMoves, BudgetStays
  <2>. QED  BY <2>3, <2>4
\* When a period ends only the calls under way count in the next.
<1>10. ASSUME DayEnds \/ MonthEnds
       PROVE  RouterTypeOK' /\ BudgetInv' /\ PaidInv'
  <2> DEFINE calls == Cardinality(InFlight) * Dearest
             over == Cardinality(Tasks) * Dearest
  <2>1. /\ UNCHANGED <<route, charges>>
        /\ spent'.daily = 0
        /\ spent'.monthly = spent.monthly \/ spent'.monthly = 0
        /\ spent' \in [daily : Nat, monthly : Nat]
    BY <1>1, <1>10 DEF DayEnds, MonthEnds
  <2>2. RouterTypeOK'
    BY <2>1 DEF RouterTypeOK
  <2>8. PaidInv'
    BY <2>1 DEF PaidInv, Paid, Eligible
  <2>3. InFlight' = InFlight
    BY <2>1 DEF InFlight
  <2>4. ASSUME InFlight # {}
        PROVE  calls \in Int /\ over - Cheapest \in Int
    <3>1. PICK t \in Tasks : route[t].at = "invoking"
      BY <2>4 DEF InFlight
    <3>2. PICK a \in Answers : TRUE
      BY RouterAssumption DEF RouterAssumption
    <3>3. route[t].next \in DOMAIN Candidates
      BY <3>1 DEF RouterTypeOK
    <3>4. Dearest \in Nat /\ Cheapest \in Nat
      BY <3>2, <3>3, CostIsBounded, EstimateIsBounded
    <3>5. route' = [route EXCEPT ![t] = route[t]]
      BY <2>1 DEF RouterTypeOK
    <3>6. Cardinality(InFlight) \in Nat /\ Cardinality(Tasks) \in Nat
      BY <1>1, <3>5, InFlightMoves
    <3>. QED  BY <3>4, <3>6
  <2> HIDE DEF calls
  <2>5. ASSUME InFlight # {}
        PROVE  /\ calls <= DailyLimit + Cardinality(Tasks) * Dearest - Cheapest
               /\ calls <= MonthlyLimit + Cardinality(Tasks) * Dearest - Cheapest
    <3>1. /\ spent.daily + calls <= DailyLimit + over - Cheapest
          /\ spent.monthly + calls <= MonthlyLimit + over - Cheapest
      BY <2>5 DEF BudgetInv, PeriodInv, calls
    <3>. QED  BY <1>1, <2>4, <2>5, <3>1, RouterAssumption DEF RouterAssumption
  <2>6. PeriodInv(0, DailyLimit) /\ PeriodInv(0, MonthlyLimit)
    <3>1. InFlight # {} => DOMAIN Candidates # {} /\ 0 + calls = calls
      BY <2>4 DEF BudgetInv, PeriodInv
    <3>2. ~(0 > 0)
      OBVIOUS
    <3>. QED  BY <2>5, <3>1, <3>2 DEF PeriodInv, calls
  <2>7. BudgetInv'
    BY <1>1, <2>1, <2>3, <2>6 DEF BudgetInv, PeriodInv
  <2>. QED  BY <2>2, <2>8, <2>7
<1>11. CASE UNCHANGED routerVars
  <2>1. UNCHANGED <<spent, route, charges>>
    BY <1>11 DEF routerVars
  <2>2. RouterTypeOK'
    BY <2>1 DEF RouterTypeOK
  <2>3. BudgetInv'
    BY <2>1 DEF BudgetInv, PeriodInv, InFlight
  <2>4. PaidInv'
    BY <2>1 DEF PaidInv, Paid, Eligible
  <2>. QED  BY <2>2, <2>3, <2>4
<1>. QED  BY <1>5, <1>6, <1>7, <1>8, <1>9, <1>10, <1>11 DEF RouterNext

\* The routings, the ledger and what was paid have their type whatever the tasks,
\* the tiers and the answers of the providers are.
THEOREM RouterTypeCorrect == RouterSpec => []RouterTypeOK
<1>. QED  BY RouterInitTyped, RouterStep, PTL DEF RouterSpec

\* A period is overdrawn by one call of every task at most, and a task returns the
\* best of the answers it was charged for.
THEOREM SpendingIsBounded == RouterSpec => []SpendingIsBoundedAndAnswered
<1>1. RouterTypeOK /\ BudgetInv /\ PaidInv => SpendingIsBoundedAndAnswered
  <2> SUFFICES ASSUME RouterTypeOK, BudgetInv, PaidInv
               PROVE  SpendingIsBoundedAndAnswered
    OBVIOUS
  <2>1. /\ spent.daily \in Nat /\ spent.monthly \in Nat
        /\ DailyLimit \in Nat /\ MonthlyLimit \in Nat
    BY RouterAssumption DEF RouterTypeOK, RouterAssumption
  <2>2. ASSUME NEW amount \in Nat, NEW limit \in Nat, PeriodInv(amount, limit)
        PROVE  WithinOverrun(amount, limit)
    <3> SUFFICES ASSUME amount > 0
                 PROVE  amount <= limit + Cardinality(Tasks) * Dearest - Cheapest
      BY DEF WithinOverrun
    <3>1. /\ DOMAIN Candidates # {}
          /\ amount + Cardinality(InFlight) * Dearest
               <= limit + Cardinality(Tasks) * Dearest - Cheapest
      BY <2>2 DEF PeriodInv
    <3>2. Dearest \in Nat /\ Cheapest \in Nat
      <4>1. PICK i \in DOMAIN Candidates, a \in Answers : TRUE
        BY <3>1, RouterAssumption DEF RouterAssumption
      <4>. QED  BY <4>1, CostIsBounded, EstimateIsBounded
    <3>3. Cardinality(InFlight) \in Nat /\ Cardinality(Tasks) \in Nat
      BY RouterAssumption, FS_Subset, FS_CardinalityType DEF RouterAssumption, InFlight
    <3>4. Cardinality(InFlight) * Dearest \in Nat /\ Cardinality(Tasks) * Dearest \in Nat
      BY <3>2, <3>3
    <3> DEFINE a == Cardinality(InFlight) * Dearest
               b == Cardinality(Tasks) * Dearest
    <3> HIDE DEF a, b
    <3>5. a \in Nat /\ b \in Nat /\ amount + a <= limit + b - Cheapest
      BY <3>1, <3>4 DEF a, b
    <3>6. amount <= limit + b - Cheapest
      BY <3>2, <3>5
    <3>. QED  BY <3>6 DEF b
  <2>3. /\ WithinOverrun(spent.daily, DailyLimit)
        /\ WithinOverrun(spent.monthly, MonthlyLimit)
        /\ spent.daily <= spent.monthly
    BY <2>1, <2>2 DEF BudgetInv
  <2>. QED  BY <2>3 DEF SpendingIsBoundedAndAnswered, PaidInv, Paid
<1>. QED  BY <1>1, RouterInitTyped, RouterStep, PTL DEF RouterSpec

-----------------------------------------------------------------------------
(* The bookings of the meeting scheduler.                                   *)

\* The operation has cancelled the event of meeting m and is about to create another.
Moves(o, m) == o.at = "create" /\ o.kind = "reschedule" /\ o.id = m

\* No event of the meeting is live or will be.
Gone(m) ==
  /\ \A e \in DOMAIN calendar : ~(calendar[e].for = m /\ calendar[e].live)
  /\ \A c \in Clients : ~Moves(op[c], m)

\* The event is one of the meeting's.
EventOf(e, m) == e \in DOMAIN calendar /\ calendar[e].for = m

\* A meeting has one live event or one operation that is to create it.
EventsInv ==
  /\ \A e \in DOMAIN calendar : calendar[e].for <= e
  /\ \A e, f \in DOMAIN calendar :
       calendar[e].live /\ calendar[f].live /\ calendar[e].for = calendar[f].for => e = f
  /\ \A e \in DOMAIN calendar, c \in Clients :
       calendar[e].live => ~Moves(op[c], calendar[e].for)
  /\ \A c, d \in Clients : Moves(op[c], op[c].id) /\ Moves(op[d], op[c].id) => c = d

\* What an operation holds, according to its kind.
BookOk(o) ==
  /\ o.at \in {"lookup", "record"} => o.kind = "book"
  /\ o.kind = "book" => /\ o.key \in BookingKeys /\ o.slot \in Slots
                        /\ o.row.contact \in Contacts /\ o.row.status # "CANCELLED"
  /\ o.kind = "book" /\ o.at \in {"lookup", "create"} => o.id = 0
  /\ o.kind = "book" /\ o.at \in {"record", "save"} =>
       EventOf(o.id, o.id) /\ o.row.event = o.id
  /\ o.at = "record" => \A k \in BookingKeys : bookings[k].meeting # o.id
  /\ o.kind = "book" /\ o.at = "save" => \E k \in BookingKeys : bookings[k].meeting = o.id

ChangeOk(o) ==
  /\ o.at # "idle" => o.kind # "none"
  /\ o.at = "cancel" => o.kind \in {"reschedule", "cancel"}
  /\ o.at = "create" => o.kind \in {"book", "reschedule"}
  /\ o.kind \in {"reschedule", "cancel", "outcome"} =>
       o.id \in Saved /\ o.row \in Meeting /\ EventOf(o.row.event, o.id)
  /\ o.kind \in {"reschedule", "outcome"} => o.row.status # "CANCELLED"
  /\ o.kind = "reschedule" => o.slot \in Slots
  /\ o.kind = "cancel" /\ o.at = "save" => Gone(o.id)

\* Two bookings that are to be recorded are of two events.
RecordsInv ==
  \A c, d \in Clients : op[c].at = "record" /\ op[d].at = "record" /\ op[c].id = op[d].id => c = d

\* A key that is on record is the only one of its meeting.
BookedInv ==
  /\ \A k \in BookingKeys : bookings[k] # NoBooking => EventOf(bookings[k].meeting, bookings[k].meeting)
  /\ \A k, l \in BookingKeys :
       bookings[k] # NoBooking /\ bookings[l].meeting = bookings[k].meeting => k = l

\* A saved meeting has one, and if it is cancelled no event any more.
SavedOk(m) ==
  /\ EventOf(meetings[m].event, m)
  /\ meetings[m].status = "CANCELLED" => Gone(m)
  /\ \E k \in BookingKeys : bookings[k].meeting = m

MeetingInv ==
  /\ MeetingTypeOK /\ EventsInv /\ RecordsInv /\ BookedInv
  /\ \A c \in Clients : BookOk(op[c]) /\ ChangeOk(op[c])
  /\ \A m \in Saved : SavedOk(m)

\* The meeting n does not hold the slot for the contact.
Clear(contact, slot, row) ==
  row.contact = contact /\ row.status # "CANCELLED" => ~Overlapping(slot, row)

\* What a caller read is still true if nobody has saved since.
FreshOk(o) ==
  o.at # "idle" /\ ~o.overtaken /\ ~o.replay =>
    /\ o.kind = "book" /\ (o.at = "lookup" => o.free) =>
         \A n \in Saved \ {o.id} : Clear(o.row.contact, o.slot, meetings[n])
    /\ o.kind = "reschedule" =>
         \A n \in Saved \ {o.id} : Clear(o.row.contact, o.slot, meetings[n])
    /\ o.kind \in {"book", "reschedule"} /\ o.at \in {"record", "save"} =>
         o.row.start = o.slot.start
    /\ o.kind = "outcome" => /\ o.row.start = meetings[o.id].start
                             /\ o.row.contact = meetings[o.id].contact
                             /\ meetings[o.id].status # "CANCELLED"
    /\ o.kind = "cancel" /\ o.at = "save" => o.row.status = "CANCELLED"

ApartInv ==
  SlotsAreLongEnough => \A m, n \in Saved \ overtaken :
    m # n /\ meetings[m].status # "CANCELLED" =>
      Clear(meetings[m].contact,
            [start |-> meetings[m].start, end |-> meetings[m].start + Duration], meetings[n])

TimesInv == ApartInv /\ \A c \in Clients : FreshOk(op[c])

-----------------------------------------------------------------------------
(* Steps that call nothing.                                                 *)

\* What every proof below uses of the invariant.
LEMMA MeetingFacts ==
  ASSUME MeetingInv
  PROVE  /\ calendar \in Seq([for : MeetingIds, live : BOOLEAN]) /\ Len(calendar) \in Nat
         /\ DOMAIN calendar = 1..Len(calendar)
         /\ \A e \in DOMAIN calendar : calendar[e].for \in Nat /\ calendar[e].live \in BOOLEAN
         /\ op \in [Clients -> Operation]
         /\ meetings \in [MeetingIds -> Meeting \cup {NoMeeting}]
         /\ \A m \in Saved : m \in MeetingIds /\ m \in Nat /\ meetings[m] \in Meeting
                             /\ m \in DOMAIN calendar
         /\ MeetingIds \in SUBSET Nat
<1>1. MeetingTypeOK
  BY DEF MeetingInv
<1>2. calendar \in Seq([for : MeetingIds, live : BOOLEAN])
  BY <1>1 DEF MeetingTypeOK
<1>3. Len(calendar) \in Nat /\ DOMAIN calendar = 1..Len(calendar)
  BY <1>2
<1>4. MeetingIds \in SUBSET Nat
  BY MeetingAssumption DEF MeetingAssumption, MeetingIds
<1>5. \A e \in DOMAIN calendar : calendar[e].for \in MeetingIds /\ calendar[e].live \in BOOLEAN
  <2> SUFFICES ASSUME NEW e \in DOMAIN calendar
               PROVE  calendar[e].for \in MeetingIds /\ calendar[e].live \in BOOLEAN
    OBVIOUS
  <2> DEFINE Event == [for : MeetingIds, live : BOOLEAN]
  <2>1. calendar \in Seq(Event) /\ e \in 1..Len(calendar)
    BY <1>2, <1>3
  <2> HIDE DEF Event
  <2>2. calendar[e] \in Event
    BY <2>1, ElementOfSeq
  <2>. QED  BY <2>2 DEF Event
<1>6. /\ op \in [Clients -> Operation]
      /\ meetings \in [MeetingIds -> Meeting \cup {NoMeeting}]
  BY <1>1 DEF MeetingTypeOK
<1>7. ASSUME NEW m \in Saved
      PROVE  m \in MeetingIds /\ m \in Nat /\ meetings[m] \in Meeting /\ m \in DOMAIN calendar
  <2>1. m \in MeetingIds /\ meetings[m] \in Meeting
    BY <1>6 DEF Saved
  <2>2. meetings[m].event \in DOMAIN calendar /\ calendar[meetings[m].event].for = m
    BY DEF MeetingInv, SavedOk, EventOf
  <2>3. m <= meetings[m].event
    BY <2>2 DEF MeetingInv, EventsInv
  <2>4. m \in 1..MaxEvents
    BY <2>1 DEF MeetingIds
  <2>5. m \in DOMAIN calendar
    BY <1>3, <2>2, <2>3, <2>4
  <2>. QED  BY <1>4, <2>1, <2>5
<1>. QED  BY <1>2, <1>3, <1>4, <1>5, <1>6, <1>7

LEMMA OpMoves ==
  ASSUME op \in [Clients -> Operation], NEW c \in Clients, NEW x \in Operation,
         op' = [op EXCEPT ![c] = x]
  PROVE  /\ op' \in [Clients -> Operation] /\ op'[c] = x
         /\ \A d \in Clients : d # c => op'[d] = op[d]
OBVIOUS

\* A step that only moves an operation, to a place where it has not been promised a
\* new event.
LEMMA OpStep ==
  ASSUME MeetingInv, TimesInv, NEW c \in Clients, NEW x \in Operation,
         UNCHANGED <<calendar, meetings, bookings, overtaken>>,
         op' = [op EXCEPT ![c] = x],
         x.at \in {"cancel", "save"} => x.row \in Meeting,
         BookOk(x), ChangeOk(x), FreshOk(x),
         x.at # "record", ~(x.at = "create" /\ x.kind = "reschedule")
  PROVE  MeetingInv' /\ TimesInv'
<1>1. /\ op' \in [Clients -> Operation] /\ op'[c] = x
      /\ \A d \in Clients : d # c => op'[d] = op[d]
  BY OpMoves, MeetingFacts
<1>2. \A d \in Clients : \A m : Moves(op'[d], m) => Moves(op[d], m)
  BY <1>1 DEF Moves
<1>3. \A m : Gone(m) => Gone(m)'
  BY <1>2 DEF Gone
<1>4. MeetingTypeOK'
  BY <1>1 DEF MeetingInv, MeetingTypeOK
<1>5. EventsInv'
  <2>1. EventsInv
    BY DEF MeetingInv
  <2>2. \A d, b \in Clients : Moves(op'[d], op'[d].id) /\ Moves(op'[b], op'[d].id) => d = b
    BY <1>1, <1>2, <2>1 DEF EventsInv, Moves
  <2>. QED  BY <1>2, <2>1, <2>2 DEF EventsInv
<1>6. RecordsInv'
  BY <1>1 DEF MeetingInv, RecordsInv
<1>7. BookedInv'
  BY DEF MeetingInv, BookedInv, EventOf
<1>8. \A d \in Clients : BookOk(op[d])' /\ ChangeOk(op[d])' /\ FreshOk(op[d])'
  <2> SUFFICES ASSUME NEW d \in Clients
               PROVE  BookOk(op[d])' /\ ChangeOk(op[d])' /\ FreshOk(op[d])'
    OBVIOUS
  <2>1. PICK y : y = op'[d] /\ BookOk(y) /\ ChangeOk(y) /\ FreshOk(y)
    BY <1>1 DEF MeetingInv, TimesInv
  <2>2. Saved' = Saved
    BY DEF Saved
  <2>3. BookOk(op[d])'
    BY <2>1 DEF BookOk, EventOf
  <2>4. ChangeOk(op[d])'
    BY <1>3, <2>1, <2>2 DEF ChangeOk, EventOf
  <2>5. FreshOk(op[d])'
    BY <2>1, <2>2 DEF FreshOk, Clear
  <2>. QED  BY <2>3, <2>4, <2>5
<1>9. \A m \in Saved' : SavedOk(m)'
  BY <1>3 DEF MeetingInv, SavedOk, EventOf, Saved
<1>10. ApartInv'
  BY DEF TimesInv, ApartInv, Saved, Clear, Overlapping
<1>. QED  BY <1>4, <1>5, <1>6, <1>7, <1>8, <1>9, <1>10 DEF MeetingInv, TimesInv

\* Nothing is saved of a call that is refused, fails or dies.
LEMMA EndKeeps ==
  ASSUME MeetingInv, TimesInv, NEW c \in Clients, End(c),
         UNCHANGED <<calendar, meetings, bookings, overtaken>>
  PROVE  MeetingInv' /\ TimesInv'
<1>1. NoOp \in Operation
  BY DEF NoOp, Operation, NoMeeting
<1>2. BookOk(NoOp) /\ ChangeOk(NoOp) /\ FreshOk(NoOp)
  BY DEF NoOp, BookOk, ChangeOk, FreshOk
<1>3. NoOp.at = "idle"
  BY DEF NoOp
<1>. QED  BY <1>1, <1>2, <1>3, OpStep DEF End

\* The list of meetings that a caller reads has no conflict: none of them holds the slot.
LEMMA NoConflictIsClear ==
  ASSUME NEW m, NEW contact, NEW slot, Conflicts(OthersOf(m), contact, slot) = {}
  PROVE  \A n \in Saved \ {m} : Clear(contact, slot, meetings[n])
BY DEF Conflicts, OthersOf, Clear

LEMMA BeginBookingKeeps ==
  ASSUME MeetingInv, TimesInv, NEW c \in Clients, NEW key \in BookingKeys,
         NEW contact \in Contacts, NEW slot \in Slots, BeginBooking(c, key, contact, slot)
  PROVE  MeetingInv' /\ TimesInv'
<1> DEFINE x == [NoOp EXCEPT !.at = "lookup", !.kind = "book", !.key = key,
              !.slot = slot, !.row = [NoMeeting EXCEPT !.contact = contact],
              !.free = Conflicts(OthersOf(0), contact, slot) = {}]
<1>1. /\ x \in Operation /\ x.at = "lookup" /\ x.kind = "book" /\ x.key = key /\ x.slot = slot
      /\ x.row.contact = contact /\ x.row.status = "none" /\ x.id = 0
      /\ x.free <=> Conflicts(OthersOf(0), contact, slot) = {}
  BY MeetingAssumption DEF MeetingAssumption, NoOp, Operation, NoMeeting
<1>2. op' = [op EXCEPT ![c] = x] /\ UNCHANGED <<calendar, meetings, bookings, overtaken>>
  BY DEF BeginBooking
<1> HIDE DEF x
<1>3. BookOk(x) /\ ChangeOk(x)
  BY <1>1 DEF BookOk, ChangeOk
<1>4. FreshOk(x)
  BY <1>1, NoConflictIsClear DEF FreshOk
<1>. QED  BY <1>1, <1>2, <1>3, <1>4, OpStep

LEMMA LookupBookingKeeps ==
  ASSUME MeetingInv, TimesInv, NEW c \in Clients, LookupBooking(c)
  PROVE  MeetingInv' /\ TimesInv'
<1> DEFINE o == op[c]
           found == bookings[o.key]
<1>1. /\ o \in Operation /\ o.at = "lookup" /\ o.kind = "book"
      /\ BookOk(o) /\ ChangeOk(o) /\ FreshOk(o)
      /\ UNCHANGED <<calendar, meetings, bookings, overtaken>>
  BY MeetingFacts DEF LookupBooking, MeetingInv, TimesInv, BookOk
<1>2. o.key \in BookingKeys /\ o.slot \in Slots /\ o.row.contact \in Contacts
      /\ o.row.status # "CANCELLED"
  BY <1>1 DEF BookOk
<1>3. CASE found # NoBooking /\ found.contact = o.row.contact /\ found.slot = o.slot
  <2> DEFINE row == NewMeeting(found.contact, found.slot, found.meeting)
             x == [o EXCEPT !.at = "save", !.id = found.meeting, !.replay = TRUE, !.row = row]
  <2>1. /\ found \in [contact : Contacts, slot : Slots, meeting : MeetingIds]
        /\ EventOf(found.meeting, found.meeting)
    BY <1>2, <1>3 DEF MeetingInv, MeetingTypeOK, BookedInv
  <2>2. /\ found.meeting \in MeetingIds /\ found.meeting \in Nat
        /\ found.slot.start \in Nat /\ found.contact \in Contacts
    BY <2>1, MeetingFacts, MeetingAssumption DEF MeetingAssumption
  <2>3. /\ row \in Meeting /\ row.event = found.meeting /\ row.status = "BOOKED"
        /\ row.contact = found.contact /\ row.start \in Nat
    BY <2>2 DEF NewMeeting, Meeting, MeetingStates
  <2> HIDE DEF row
  <2>4. /\ x \in Operation /\ x.at = "save" /\ x.kind = "book" /\ x.key = o.key /\ x.slot = o.slot
        /\ x.id = found.meeting /\ x.row = row /\ x.replay
    BY <1>1, <2>2, <2>3 DEF Operation, Meeting
  <2>5. op' = [op EXCEPT ![c] = x]
    BY <1>3 DEF LookupBooking, row
  <2> HIDE DEF x
  <2>6. BookOk(x) /\ ChangeOk(x) /\ FreshOk(x)
    BY <1>2, <2>1, <2>2, <2>3, <2>4 DEF BookOk, ChangeOk, FreshOk
  <2>. QED  BY <1>1, <2>3, <2>4, <2>5, <2>6, OpStep
<1>4. CASE o.free /\ Go(c, "create")
  <2> DEFINE x == [o EXCEPT !.at = "create"]
  <2>1. /\ x \in Operation /\ x.at = "create" /\ x.kind = "book" /\ x.key = o.key /\ x.slot = o.slot
        /\ x.id = o.id /\ x.row = o.row /\ x.replay = o.replay /\ x.overtaken = o.overtaken
    BY <1>1 DEF Operation
  <2>2. op' = [op EXCEPT ![c] = x]
    BY <1>4 DEF Go
  <2> HIDE DEF x
  <2>3. BookOk(x) /\ ChangeOk(x)
    BY <1>1, <1>2, <2>1 DEF BookOk, ChangeOk
  <2>4. FreshOk(x)
    BY <1>1, <1>4, <2>1 DEF FreshOk
  <2>. QED  BY <1>1, <2>1, <2>2, <2>3, <2>4, OpStep
<1>5. CASE End(c)
  BY <1>1, <1>5, EndKeeps
<1>. QED  BY <1>3, <1>4, <1>5 DEF LookupBooking

LEMMA BeginRescheduleKeeps ==
  ASSUME MeetingInv, TimesInv, NEW c \in Clients, NEW m \in MeetingIds, NEW slot \in Slots,
         BeginReschedule(c, m, slot)
  PROVE  MeetingInv' /\ TimesInv'
<1> DEFINE x == [NoOp EXCEPT !.at = "cancel", !.kind = "reschedule", !.id = m,
              !.row = meetings[m], !.slot = slot]
<1>1. /\ m \in Saved /\ meetings[m] \in Meeting /\ m \in Nat
      /\ MeetingCan(meetings[m].status, "RESCHEDULED")
      /\ Conflicts(OthersOf(m), meetings[m].contact, slot) = {}
  BY MeetingFacts DEF BeginReschedule
<1>2. /\ x \in Operation /\ x.at = "cancel" /\ x.kind = "reschedule" /\ x.slot = slot
      /\ x.id = m /\ x.row = meetings[m]
  BY <1>1, MeetingFacts, MeetingAssumption
     DEF MeetingAssumption, NoOp, Operation, NoMeeting, Meeting
<1>3. op' = [op EXCEPT ![c] = x] /\ UNCHANGED <<calendar, meetings, bookings, overtaken>>
  BY DEF BeginReschedule
<1> HIDE DEF x
<1>4. meetings[m].status # "CANCELLED"
  BY <1>1 DEF MeetingCan, MeetingTransitions
<1>5. BookOk(x) /\ ChangeOk(x)
  BY <1>1, <1>2, <1>4 DEF BookOk, ChangeOk, MeetingInv, SavedOk
<1>6. FreshOk(x)
  BY <1>1, <1>2, NoConflictIsClear DEF FreshOk
<1>. QED  BY <1>1, <1>2, <1>3, <1>5, <1>6, OpStep

LEMMA BeginCancelKeeps ==
  ASSUME MeetingInv, TimesInv, NEW c \in Clients, NEW m \in MeetingIds, BeginCancel(c, m)
  PROVE  MeetingInv' /\ TimesInv'
<1> DEFINE x == [NoOp EXCEPT !.at = "cancel", !.kind = "cancel", !.id = m, !.row = meetings[m]]
<1>1. m \in Saved /\ meetings[m] \in Meeting /\ m \in Nat
  BY MeetingFacts DEF BeginCancel
<1>2. /\ x \in Operation /\ x.at = "cancel" /\ x.kind = "cancel" /\ x.id = m /\ x.row = meetings[m]
  BY <1>1, MeetingFacts DEF NoOp, Operation, NoMeeting, Meeting
<1>3. op' = [op EXCEPT ![c] = x] /\ UNCHANGED <<calendar, meetings, bookings, overtaken>>
  BY DEF BeginCancel
<1> HIDE DEF x
<1>4. BookOk(x) /\ ChangeOk(x) /\ FreshOk(x)
  BY <1>1, <1>2 DEF BookOk, ChangeOk, FreshOk, MeetingInv, SavedOk
<1>. QED  BY <1>1, <1>2, <1>3, <1>4, OpStep

LEMMA BeginOutcomeKeeps ==
  ASSUME MeetingInv, TimesInv, NEW c \in Clients, NEW m \in MeetingIds,
         NEW status \in {"ATTENDED", "NO_SHOW"}, BeginOutcome(c, m, status)
  PROVE  MeetingInv' /\ TimesInv'
<1> DEFINE row == [meetings[m] EXCEPT !.status = status]
           x == [NoOp EXCEPT !.at = "save", !.kind = "outcome", !.id = m, !.row = row]
<1>1. /\ m \in Saved /\ meetings[m] \in Meeting /\ m \in Nat
      /\ MeetingCan(meetings[m].status, status)
  BY MeetingFacts DEF BeginOutcome
<1>2. /\ row \in Meeting /\ row.status = status /\ row.event = meetings[m].event
      /\ row.start = meetings[m].start /\ row.contact = meetings[m].contact
  BY <1>1 DEF Meeting, MeetingStates
<1>3. op' = [op EXCEPT ![c] = x] /\ UNCHANGED <<calendar, meetings, bookings, overtaken>>
  BY DEF BeginOutcome
<1> HIDE DEF row
<1>4. x \in Operation /\ x.at = "save" /\ x.kind = "outcome" /\ x.id = m /\ x.row = row
  BY <1>1, <1>2, MeetingFacts DEF NoOp, Operation, NoMeeting, Meeting
<1> HIDE DEF x
<1>5. meetings[m].status # "CANCELLED"
  BY <1>1 DEF MeetingCan, MeetingTransitions
<1>6. BookOk(x) /\ ChangeOk(x) /\ FreshOk(x)
  BY <1>1, <1>2, <1>4, <1>5 DEF BookOk, ChangeOk, FreshOk, MeetingInv, SavedOk
<1>. QED  BY <1>1, <1>2, <1>3, <1>4, <1>6, OpStep

-----------------------------------------------------------------------------
(* Steps of the calendar.                                                   *)

\* What is being rescheduled is saved, so it has been booked.
LEMMA MovedIsSaved ==
  ASSUME MeetingInv, NEW c \in Clients, NEW m, Moves(op[c], m)
  PROVE  m \in DOMAIN calendar
<1>1. op[c].id \in Saved
  BY DEF Moves, MeetingInv, ChangeOk
<1>. QED  BY <1>1, MeetingFacts DEF Moves

\* No event is created: if the operation is promised one, a live event has been
\* cancelled for it.
LEMMA EventEnds ==
  ASSUME MeetingInv, NEW c \in Clients, NEW x \in Operation, op' = [op EXCEPT ![c] = x],
         Len(calendar') = Len(calendar), DOMAIN calendar' = DOMAIN calendar,
         \A e \in DOMAIN calendar : /\ calendar'[e].for = calendar[e].for
                                    /\ calendar'[e].live => calendar[e].live,
         x.at = "create" /\ x.kind = "reschedule" =>
           \E e \in DOMAIN calendar : /\ calendar[e].live /\ calendar[e].for = x.id
                                      /\ ~calendar'[e].live
  PROVE  EventsInv' /\ \A m \in DOMAIN calendar : Gone(m) => Gone(m)'
<1>1. op'[c] = x /\ \A d \in Clients : d # c => op'[d] = op[d]
  BY OpMoves, MeetingFacts
<1>2. EventsInv
  BY DEF MeetingInv
<1>3. ASSUME NEW d \in Clients, NEW m, Moves(op'[d], m)
      PROVE  \/ d # c /\ Moves(op[d], m)
             \/ d = c /\ \E e \in DOMAIN calendar : /\ calendar[e].live /\ calendar[e].for = m
                                                    /\ ~calendar'[e].live
  BY <1>1, <1>3 DEF Moves
<1>4. \A e \in DOMAIN calendar' : calendar'[e].for <= e
  BY <1>2 DEF EventsInv
<1>5. \A e, f \in DOMAIN calendar' :
        calendar'[e].live /\ calendar'[f].live /\ calendar'[e].for = calendar'[f].for => e = f
  BY <1>2 DEF EventsInv
<1>6. ASSUME NEW e \in DOMAIN calendar, NEW d \in Clients, calendar'[e].live,
             Moves(op'[d], calendar[e].for)
      PROVE  FALSE
  <2>1. CASE d # c /\ Moves(op[d], calendar[e].for)
    BY <1>2, <1>6, <2>1 DEF EventsInv
  <2>2. ASSUME NEW f \in DOMAIN calendar, calendar[f].live, calendar[f].for = calendar[e].for,
               ~calendar'[f].live
        PROVE  FALSE
    BY <1>2, <1>6, <2>2 DEF EventsInv
  <2>. QED  BY <1>3, <1>6, <2>1, <2>2
<1>7. ASSUME NEW d \in Clients, NEW b \in Clients,
             Moves(op'[d], op'[d].id), Moves(op'[b], op'[d].id)
      PROVE  d = b
  <2> DEFINE m == op'[d].id
  <2> HIDE DEF m
  <2>1. Moves(op'[d], m) /\ Moves(op'[b], m)
    BY <1>7 DEF m
  <2>2. CASE d # c /\ b # c
    <3>1. Moves(op[d], m) /\ Moves(op[b], m) /\ op[d].id = m
      BY <1>1, <2>1, <2>2 DEF Moves
    <3>. QED  BY <1>2, <3>1 DEF EventsInv
  <2>3. ASSUME NEW a \in Clients, Moves(op[a], m),
               NEW e \in DOMAIN calendar, calendar[e].live, calendar[e].for = m
        PROVE  FALSE
    BY <1>2, <2>3 DEF EventsInv
  <2>. QED  BY <1>3, <2>1, <2>2, <2>3
<1>8. ASSUME NEW m \in DOMAIN calendar, Gone(m)
      PROVE  Gone(m)'
  <2>1. \A d \in Clients : ~Moves(op'[d], m)
    BY <1>3, <1>8 DEF Gone
  <2>2. \A e \in DOMAIN calendar' : ~(calendar'[e].for = m /\ calendar'[e].live)
    BY <1>8 DEF Gone
  <2>. QED  BY <2>1, <2>2 DEF Gone
<1>. QED  BY <1>4, <1>5, <1>6, <1>7, <1>8 DEF EventsInv

\* An event is created for a meeting that is booked by it or has been promised it.
LEMMA EventStarts ==
  ASSUME MeetingInv, NEW c \in Clients, NEW x \in Operation, op' = [op EXCEPT ![c] = x],
         Len(calendar) < MaxEvents, ~(x.at = "create" /\ x.kind = "reschedule"),
         NEW f \in MeetingIds, f = Len(calendar) + 1 \/ Moves(op[c], f),
         calendar' = Append(calendar, [for |-> f, live |-> TRUE])
  PROVE  /\ calendar' \in Seq([for : MeetingIds, live : BOOLEAN]) /\ Len(calendar') <= MaxEvents
         /\ EventsInv'
         /\ \A m \in DOMAIN calendar : Gone(m) => Gone(m)'
         /\ \A e \in DOMAIN calendar : e \in DOMAIN calendar' /\ calendar'[e].for = calendar[e].for
         /\ Len(calendar) + 1 \in DOMAIN calendar' /\ calendar'[Len(calendar) + 1].for = f
<1> DEFINE n == Len(calendar) + 1
           new == [for |-> f, live |-> TRUE]
<1>1. /\ op'[c] = x /\ \A d \in Clients : d # c => op'[d] = op[d]
      /\ calendar \in Seq([for : MeetingIds, live : BOOLEAN]) /\ Len(calendar) \in Nat
      /\ DOMAIN calendar = 1..Len(calendar) /\ MeetingIds \in SUBSET Nat
  BY OpMoves, MeetingFacts
<1>2. EventsInv
  BY DEF MeetingInv
<1>3. new \in [for : MeetingIds, live : BOOLEAN] /\ new.for = f /\ new.live
  OBVIOUS
<1>4. /\ calendar' \in Seq([for : MeetingIds, live : BOOLEAN])
      /\ Len(calendar') = n /\ DOMAIN calendar' = 1..n
      /\ calendar'[n] = new
      /\ \A e \in 1..Len(calendar) : calendar'[e] = calendar[e]
  <2> HIDE DEF new
  <2>. QED  BY <1>1, <1>3, AppendProperties DEF new
<1>5. /\ \A e \in DOMAIN calendar : e \in DOMAIN calendar' /\ calendar'[e] = calendar[e] /\ e # n
      /\ \A e \in DOMAIN calendar' : e \in DOMAIN calendar \/ e = n
      /\ n \in DOMAIN calendar' /\ calendar'[n].for = f /\ calendar'[n].live
  BY <1>1, <1>3, <1>4
<1>6. \A d \in Clients : \A m : Moves(op'[d], m) => d # c /\ Moves(op[d], m) /\ m \in DOMAIN calendar
  BY <1>1, MovedIsSaved DEF Moves
<1>7. /\ f = n \/ Moves(op[c], f)
      /\ f \in DOMAIN calendar => Moves(op[c], f)
  BY <1>1
<1>8. \A e \in DOMAIN calendar : calendar[e].for <= e /\ calendar[e].for \in Nat /\ e \in Nat
  BY <1>1, <1>2, MeetingFacts DEF EventsInv
<1> HIDE DEF n, new
<1>9. f <= n /\ Len(calendar) < n /\ n \in Nat
  <2>1. n \in Nat /\ Len(calendar) < n
    BY <1>1 DEF n
  <2>2. Moves(op[c], f) => f <= n
    BY <1>1, <2>1, MovedIsSaved
  <2>. QED  BY <1>7, <2>1, <2>2
<1>10. \A e \in DOMAIN calendar : calendar[e].live => calendar[e].for # f
  <2> SUFFICES ASSUME NEW e \in DOMAIN calendar, calendar[e].live, calendar[e].for = f
               PROVE  FALSE
    OBVIOUS
  <2>1. f \in DOMAIN calendar
    <3>1. 1 <= f /\ f <= e /\ e <= Len(calendar)
      BY <1>1, <1>8 DEF MeetingIds
    <3>. QED  BY <1>1, <3>1
  <2>. QED  BY <1>2, <1>7, <2>1 DEF EventsInv
<1>11. \A e \in DOMAIN calendar' : calendar'[e].for <= e
  BY <1>5, <1>8, <1>9
<1>12. \A e, g \in DOMAIN calendar' :
         calendar'[e].live /\ calendar'[g].live /\ calendar'[e].for = calendar'[g].for => e = g
  BY <1>2, <1>5, <1>10 DEF EventsInv
<1>13. ASSUME NEW e \in DOMAIN calendar', NEW d \in Clients, calendar'[e].live,
              Moves(op'[d], calendar'[e].for)
       PROVE  FALSE
  <2>1. d # c /\ Moves(op[d], calendar'[e].for) /\ calendar'[e].for \in DOMAIN calendar
    BY <1>6, <1>13
  <2>2. CASE e \in DOMAIN calendar
    BY <1>2, <1>5, <1>13, <2>1, <2>2 DEF EventsInv
  <2>3. CASE e = n
    <3>1. Moves(op[c], f) /\ Moves(op[d], f)
      BY <1>5, <1>7, <2>1, <2>3
    <3>2. op[c].id = f
      BY <3>1 DEF Moves
    <3>. QED  BY <1>2, <2>1, <3>1, <3>2 DEF EventsInv
  <2>. QED  BY <1>5, <2>2, <2>3
<1>14. ASSUME NEW d \in Clients, NEW b \in Clients,
              Moves(op'[d], op'[d].id), Moves(op'[b], op'[d].id)
       PROVE  d = b
  <2>1. d # c /\ b # c
    BY <1>6, <1>14
  <2>. QED  BY <1>1, <1>2, <1>14, <2>1 DEF EventsInv
<1>15. ASSUME NEW m \in DOMAIN calendar, Gone(m)
       PROVE  Gone(m)'
  <2>1. f # m
    BY <1>7, <1>15 DEF Gone
  <2>. QED  BY <1>5, <1>6, <1>15, <2>1 DEF Gone
<1>16. EventsInv'
  BY <1>11, <1>12, <1>13, <1>14 DEF EventsInv
<1>17. Len(calendar') <= MaxEvents
  BY <1>1, <1>4, MeetingAssumption DEF MeetingAssumption, n
<1>. QED  BY <1>4, <1>5, <1>15, <1>16, <1>17 DEF n

\* After a step of the calendar the operations and the saved meetings are as they were,
\* but for the operation that took it.
LEMMA CalendarStep ==
  ASSUME MeetingInv, TimesInv, NEW c \in Clients, NEW x \in Operation,
         UNCHANGED <<meetings, bookings, overtaken>>, op' = [op EXCEPT ![c] = x],
         calendar' \in Seq([for : MeetingIds, live : BOOLEAN]), Len(calendar') <= MaxEvents,
         EventsInv',
         \A m \in DOMAIN calendar : Gone(m) => Gone(m)',
         \A e \in DOMAIN calendar : e \in DOMAIN calendar' /\ calendar'[e].for = calendar[e].for,
         x.at \in {"cancel", "record", "save"} => x.row \in Meeting,
         BookOk(x)', ChangeOk(x)', FreshOk(x),
         x.at = "record" => x.id \notin DOMAIN calendar
  PROVE  MeetingInv' /\ TimesInv'
<1>1. /\ op' \in [Clients -> Operation] /\ op'[c] = x
      /\ \A d \in Clients : d # c => op'[d] = op[d]
  BY OpMoves, MeetingFacts
<1>2. /\ Saved' = Saved /\ Saved \subseteq DOMAIN calendar
      /\ \A e, m : EventOf(e, m) => EventOf(e, m)'
  BY MeetingFacts DEF Saved, EventOf
<1>3. MeetingTypeOK'
  BY <1>1 DEF MeetingInv, MeetingTypeOK
<1>4. RecordsInv'
  <2>1. \A d \in Clients : op[d].at = "record" => op[d].id \in DOMAIN calendar
    BY DEF MeetingInv, BookOk, EventOf
  <2>. QED  BY <1>1, <2>1 DEF MeetingInv, RecordsInv
<1>5. BookedInv'
  BY <1>2 DEF MeetingInv, BookedInv
<1>6. \A d \in Clients : BookOk(op[d])' /\ ChangeOk(op[d])' /\ FreshOk(op[d])'
  <2> SUFFICES ASSUME NEW d \in Clients
               PROVE  BookOk(op[d])' /\ ChangeOk(op[d])' /\ FreshOk(op[d])'
    OBVIOUS
  <2>1. PICK y : y = op'[d] /\ FreshOk(y)
                 /\ \/ BookOk(y) /\ ChangeOk(y)
                    \/ BookOk(y)' /\ ChangeOk(y)'
    BY <1>1 DEF MeetingInv, TimesInv
  <2>2. BookOk(op[d])'
    BY <1>2, <2>1 DEF BookOk
  <2>3. ChangeOk(op[d])'
    BY <1>2, <2>1 DEF ChangeOk
  <2>4. FreshOk(op[d])'
    BY <1>2, <2>1 DEF FreshOk, Clear
  <2>. QED  BY <2>2, <2>3, <2>4
<1>7. \A m \in Saved' : SavedOk(m)'
  BY <1>2 DEF MeetingInv, SavedOk
<1>8. ApartInv'
  BY <1>2 DEF TimesInv, ApartInv, Clear, Overlapping
<1>. QED  BY <1>3, <1>4, <1>5, <1>6, <1>7, <1>8 DEF MeetingInv, TimesInv

\* cancelEvent ends one event and no other.
LEMMA OneEventEnds ==
  ASSUME MeetingInv, NEW e \in DOMAIN calendar, calendar' = [calendar EXCEPT ![e].live = FALSE]
  PROVE  /\ calendar' \in Seq([for : MeetingIds, live : BOOLEAN])
         /\ Len(calendar') = Len(calendar) /\ DOMAIN calendar' = DOMAIN calendar
         /\ \A f \in DOMAIN calendar : /\ calendar'[f].for = calendar[f].for
                                       /\ calendar'[f].live => calendar[f].live
         /\ ~calendar'[e].live
<1> DEFINE Event == [for : MeetingIds, live : BOOLEAN]
           dead == [calendar[e] EXCEPT !.live = FALSE]
<1>1. calendar \in Seq(Event) /\ e \in 1..Len(calendar)
  BY MeetingFacts
<1>2. calendar' = [calendar EXCEPT ![e] = dead]
  OBVIOUS
<1>3. calendar[e] \in Event
  <2> HIDE DEF Event
  <2>. QED  BY <1>1, ElementOfSeq
<1>4. dead \in Event /\ dead.for = calendar[e].for /\ ~dead.live
  BY <1>3
<1> HIDE DEF Event, dead
<1>5. /\ calendar' \in Seq(Event) /\ Len(calendar') = Len(calendar)
      /\ \A f \in 1..Len(calendar) : calendar'[f] = IF f = e THEN dead ELSE calendar[f]
  <2> DEFINE new == [calendar EXCEPT ![e] = dead]
  <2>1. /\ new \in Seq(Event) /\ Len(new) = Len(calendar)
        /\ \A f \in 1..Len(calendar) : new[f] = IF f = e THEN dead ELSE calendar[f]
    BY <1>1, <1>4, ExceptSeq
  <2>2. calendar' = new
    BY <1>2
  <2> HIDE DEF new
  <2>. QED  BY <2>1, <2>2
<1>6. DOMAIN calendar' = DOMAIN calendar /\ DOMAIN calendar = 1..Len(calendar)
  BY <1>1, <1>5
<1>. QED  BY <1>1, <1>4, <1>5, <1>6 DEF Event

LEMMA CancelEventKeeps ==
  ASSUME MeetingInv, TimesInv, NEW c \in Clients, CancelEvent(c)
  PROVE  MeetingInv' /\ TimesInv'
<1>1. PICK e, m : e = op[c].row.event /\ m = op[c].id
  OBVIOUS
<1>2. /\ op[c] \in Operation /\ op[c].at = "cancel" /\ op[c].kind \in {"reschedule", "cancel"}
      /\ BookOk(op[c]) /\ ChangeOk(op[c]) /\ FreshOk(op[c])
      /\ op[c].row \in Meeting /\ m \in Saved /\ EventOf(e, m) /\ calendar[e].live
      /\ UNCHANGED <<meetings, bookings, overtaken>>
      /\ calendar' = [calendar EXCEPT ![e].live = FALSE]
  BY <1>1, MeetingFacts DEF CancelEvent, MeetingInv, TimesInv, ChangeOk
<1>3. PICK x \in Operation :
        /\ op' = [op EXCEPT ![c] = x]
        /\ x.kind = op[c].kind /\ x.key = op[c].key /\ x.slot = op[c].slot /\ x.id = m
        /\ x.overtaken = op[c].overtaken /\ x.replay = op[c].replay
        /\ x.row \in Meeting /\ x.row.event = e
        /\ x.kind = "reschedule" => x.at = "create" /\ x.row = op[c].row
        /\ x.kind = "cancel" => x.at = "save" /\ x.row.status = "CANCELLED"
  <2>1. CASE op[c].kind = "reschedule"
    <3> DEFINE x == [op[c] EXCEPT !.at = "create"]
    <3>1. x \in Operation
      BY <1>2 DEF Operation
    <3>2. op' = [op EXCEPT ![c] = x]
      BY <2>1 DEF CancelEvent, Go
    <3>. QED  BY <1>1, <1>2, <2>1, <3>1, <3>2 DEF Operation
  <2>2. CASE op[c].kind = "cancel"
    <3> DEFINE row == [op[c].row EXCEPT !.status = "CANCELLED"]
               x == [op[c] EXCEPT !.at = "save", !.row = row]
    <3>1. row \in Meeting /\ row.event = e /\ row.status = "CANCELLED"
      BY <1>1, <1>2 DEF Meeting, MeetingStates
    <3>2. op' = [op EXCEPT ![c] = x]
      BY <1>1, <2>2 DEF CancelEvent
    <3> HIDE DEF row
    <3>3. MeetingIds \in SUBSET Nat
      BY MeetingFacts
    <3>4. x \in Operation /\ x.row = row
      BY <1>2, <3>1, <3>3 DEF Operation, Meeting
    <3>. QED  BY <1>1, <1>2, <2>2, <3>1, <3>2, <3>4 DEF Operation
  <2>. QED  BY <1>2, <2>1, <2>2
<1>4. /\ calendar' \in Seq([for : MeetingIds, live : BOOLEAN])
      /\ Len(calendar') = Len(calendar) /\ DOMAIN calendar' = DOMAIN calendar
      /\ \A f \in DOMAIN calendar : /\ calendar'[f].for = calendar[f].for
                                    /\ calendar'[f].live => calendar[f].live
      /\ ~calendar'[e].live
  BY <1>2, OneEventEnds DEF EventOf
<1>5. e \in DOMAIN calendar /\ calendar[e].for = m
  BY <1>2 DEF EventOf
<1>6. EventsInv' /\ \A n \in DOMAIN calendar : Gone(n) => Gone(n)'
  <2>1. x.at = "create" /\ x.kind = "reschedule" =>
          \E f \in DOMAIN calendar : /\ calendar[f].live /\ calendar[f].for = x.id
                                     /\ ~calendar'[f].live
    BY <1>2, <1>3, <1>4, <1>5
  <2>. QED  BY <1>3, <1>4, <2>1, EventEnds
<1>7. x.kind = "cancel" => Gone(m)'
  <2> SUFFICES ASSUME x.kind = "cancel"
               PROVE  Gone(m)'
    OBVIOUS
  <2>1. EventsInv
    BY DEF MeetingInv
  <2>2. \A f \in DOMAIN calendar' : ~(calendar'[f].for = m /\ calendar'[f].live)
    BY <1>2, <1>4, <1>5, <2>1 DEF EventsInv
  <2>3. \A d \in Clients : ~Moves(op[d], m)
    BY <1>2, <1>5, <2>1 DEF EventsInv
  <2>4. \A d \in Clients : ~Moves(op'[d], m)
    <3>1. op'[c] = x /\ \A d \in Clients : d # c => op'[d] = op[d]
      BY <1>3, OpMoves, MeetingFacts
    <3>. QED  BY <1>3, <2>3, <3>1 DEF Moves
  <2>. QED  BY <2>2, <2>4 DEF Gone
<1>8. BookOk(x)'
  BY <1>2, <1>3 DEF BookOk
<1>9. ChangeOk(x)'
  <2>1. x.id \in Saved' /\ EventOf(x.row.event, x.id)'
    BY <1>2, <1>3, <1>4, <1>5 DEF Saved, EventOf
  <2>. QED  BY <1>2, <1>3, <1>7, <2>1 DEF ChangeOk
<1>10. FreshOk(x)
  BY <1>1, <1>2, <1>3 DEF FreshOk
<1>11. Len(calendar') <= MaxEvents
  BY <1>4 DEF MeetingInv, MeetingTypeOK
<1>. QED  BY <1>2, <1>3, <1>4, <1>6, <1>8, <1>9, <1>10, <1>11, CalendarStep

\* The event that createEvent creates is of the meeting it books or moves.
LEMMA CreateIsFor ==
  ASSUME MeetingInv, NEW c \in Clients, op[c].at = "create", Len(calendar) < MaxEvents
  PROVE  \E f \in MeetingIds :
           /\ Create(op[c]) = Append(calendar, [for |-> f, live |-> TRUE])
           /\ f = Len(calendar) + 1 \/ Moves(op[c], f)
           /\ IF op[c].kind = "book" THEN f = Len(calendar) + 1 ELSE f = op[c].id
<1>1. op[c].kind \in {"book", "reschedule"}
      /\ (op[c].kind = "reschedule" => op[c].id \in MeetingIds)
  BY MeetingFacts DEF MeetingInv, ChangeOk
<1>2. Len(calendar) + 1 \in MeetingIds
  BY MeetingFacts, MeetingAssumption DEF MeetingAssumption, MeetingIds
<1>3. CASE op[c].kind = "book"
  BY <1>2, <1>3 DEF Create
<1>4. CASE op[c].kind = "reschedule"
  BY <1>1, <1>4 DEF Create, Moves
<1>. QED  BY <1>1, <1>3, <1>4

LEMMA CreateEventKeeps ==
  ASSUME MeetingInv, TimesInv, NEW c \in Clients, CreateEvent(c)
  PROVE  MeetingInv' /\ TimesInv'
<1> DEFINE n == Len(calendar) + 1
<1>1. /\ op[c] \in Operation /\ op[c].at = "create" /\ op[c].kind \in {"book", "reschedule"}
      /\ BookOk(op[c]) /\ ChangeOk(op[c]) /\ FreshOk(op[c])
      /\ UNCHANGED <<meetings, bookings, overtaken>>
      /\ calendar' = Create(op[c]) /\ n \in Nat /\ n \in MeetingIds /\ Len(calendar) < MaxEvents
      /\ n \notin DOMAIN calendar /\ MeetingIds \in SUBSET Nat
  <2>1. Len(calendar) \in Nat /\ DOMAIN calendar = 1..Len(calendar)
    BY MeetingFacts
  <2>2. n <= MaxEvents
    BY DEF CreateEvent
  <2>. QED  BY <2>1, <2>2, MeetingFacts, MeetingAssumption
            DEF CreateEvent, MeetingInv, TimesInv, ChangeOk, MeetingAssumption, MeetingIds
<1>2. PICK f \in MeetingIds :
        /\ Create(op[c]) = Append(calendar, [for |-> f, live |-> TRUE])
        /\ f = n \/ Moves(op[c], f)
        /\ IF op[c].kind = "book" THEN f = n ELSE f = op[c].id
  BY <1>1, CreateIsFor
<1>3. /\ op[c].slot \in Slots /\ op[c].slot.start \in Nat
      /\ op[c].kind = "book" => op[c].row.contact \in Contacts /\ op[c].key \in BookingKeys
                                /\ op[c].id = 0
      /\ op[c].kind = "reschedule" => op[c].row \in Meeting /\ op[c].id \in Saved
  BY <1>1, MeetingAssumption DEF MeetingAssumption, BookOk, ChangeOk
<1>4. PICK x \in Operation :
        /\ op' = [op EXCEPT ![c] = x]
        /\ x.kind = op[c].kind /\ x.key = op[c].key /\ x.slot = op[c].slot
        /\ x.overtaken = op[c].overtaken /\ x.replay = op[c].replay
        /\ x.row \in Meeting /\ x.row.event = n /\ x.row.start = op[c].slot.start
        /\ x.row.contact = op[c].row.contact /\ x.row.status # "CANCELLED" /\ x.id = f
        /\ IF op[c].kind = "book" THEN x.at = "record" ELSE x.at = "save"
  <2>1. CASE op[c].kind = "book"
    <3> DEFINE row == NewMeeting(op[c].row.contact, op[c].slot, n)
               x == [op[c] EXCEPT !.at = "record", !.id = n, !.row = row]
    <3>1. /\ row \in Meeting /\ row.event = n /\ row.status = "BOOKED"
          /\ row.contact = op[c].row.contact /\ row.start = op[c].slot.start
      BY <1>1, <1>3, <2>1 DEF NewMeeting, Meeting, MeetingStates
    <3>2. op' = [op EXCEPT ![c] = x]
      BY <2>1 DEF CreateEvent
    <3> HIDE DEF row
    <3>3. x \in Operation /\ x.row = row /\ x.id = n
      BY <1>1, <3>1 DEF Operation, Meeting
    <3>. QED  BY <1>1, <1>2, <2>1, <3>1, <3>2, <3>3 DEF Operation
  <2>2. CASE op[c].kind = "reschedule"
    <3> DEFINE row == [op[c].row EXCEPT !.start = op[c].slot.start, !.status = "RESCHEDULED",
                                        !.event = n]
               x == [op[c] EXCEPT !.at = "save", !.row = row]
    <3>1. /\ row \in Meeting /\ row.event = n /\ row.status = "RESCHEDULED"
          /\ row.contact = op[c].row.contact /\ row.start = op[c].slot.start
      BY <1>1, <1>3, <2>2 DEF Meeting, MeetingStates
    <3>2. op' = [op EXCEPT ![c] = x]
      BY <2>2 DEF CreateEvent
    <3> HIDE DEF row
    <3>3. x \in Operation /\ x.row = row
      BY <1>1, <3>1 DEF Operation, Meeting
    <3>. QED  BY <1>1, <1>2, <2>2, <3>1, <3>2, <3>3 DEF Operation
  <2>. QED  BY <1>1, <2>1, <2>2
<1>5. /\ calendar' \in Seq([for : MeetingIds, live : BOOLEAN]) /\ Len(calendar') <= MaxEvents
      /\ EventsInv'
      /\ \A m \in DOMAIN calendar : Gone(m) => Gone(m)'
      /\ \A e \in DOMAIN calendar : e \in DOMAIN calendar' /\ calendar'[e].for = calendar[e].for
      /\ n \in DOMAIN calendar' /\ calendar'[n].for = f
  BY <1>1, <1>2, <1>4, EventStarts
<1> HIDE DEF n
<1>6. BookOk(x)'
  <2>1. \A k \in BookingKeys : bookings[k].meeting # n
    BY <1>1 DEF MeetingInv, BookedInv, EventOf, NoBooking, MeetingIds
  <2>. QED  BY <1>1, <1>2, <1>3, <1>4, <1>5, <2>1 DEF BookOk, EventOf
<1>7. ChangeOk(x)'
  BY <1>1, <1>2, <1>3, <1>4, <1>5 DEF ChangeOk, EventOf, Saved
<1>8. FreshOk(x)
  <2>1. 0 \notin Saved
    BY DEF Saved, MeetingIds
  <2>. QED  BY <1>1, <1>2, <1>3, <1>4, <2>1 DEF FreshOk
<1>. QED  BY <1>1, <1>2, <1>4, <1>5, <1>6, <1>7, <1>8, CalendarStep

LEMMA ProviderFailedKeeps ==
  ASSUME MeetingInv, TimesInv, NEW c \in Clients, ProviderFailed(c)
  PROVE  MeetingInv' /\ TimesInv'
<1>1. /\ op[c] \in Operation /\ op[c].at \in {"cancel", "create"}
      /\ BookOk(op[c]) /\ ChangeOk(op[c]) /\ FreshOk(op[c])
      /\ UNCHANGED <<meetings, bookings, overtaken>>
  BY MeetingFacts DEF ProviderFailed, MeetingInv, TimesInv
<1>2. PICK x \in Operation :
        /\ op' = [op EXCEPT ![c] = x] /\ x.at \in {"createFailed", "cancelFailed"}
        /\ x.kind = op[c].kind /\ x.key = op[c].key /\ x.slot = op[c].slot /\ x.id = op[c].id
        /\ x.overtaken = op[c].overtaken /\ x.replay = op[c].replay /\ x.row = op[c].row
  <2>1. PICK place : /\ place \in {"createFailed", "cancelFailed"}
                     /\ op' = [op EXCEPT ![c].at = place]
    BY DEF ProviderFailed
  <2> DEFINE x == [op[c] EXCEPT !.at = place]
  <2>2. x \in Operation
    BY <1>1, <2>1 DEF Operation
  <2>3. op' = [op EXCEPT ![c] = x]
    BY <2>1
  <2>. QED  BY <1>1, <2>1, <2>2, <2>3 DEF Operation
<1>3. FreshOk(x)
  <2>1. op[c].at # "lookup"
    BY <1>1
  <2>. QED  BY <1>1, <1>2, <2>1 DEF FreshOk
<1>4. /\ calendar' \in Seq([for : MeetingIds, live : BOOLEAN]) /\ Len(calendar') <= MaxEvents
      /\ EventsInv'
      /\ \A m \in DOMAIN calendar : Gone(m) => Gone(m)'
      /\ \A e \in DOMAIN calendar : e \in DOMAIN calendar' /\ calendar'[e].for = calendar[e].for
  <2>1. CASE UNCHANGED calendar
    <3>1. calendar \in Seq([for : MeetingIds, live : BOOLEAN]) /\ Len(calendar) <= MaxEvents
      BY DEF MeetingInv, MeetingTypeOK
    <3>2. EventsInv' /\ \A m \in DOMAIN calendar : Gone(m) => Gone(m)'
      BY <1>2, <2>1, EventEnds
    <3>. QED  BY <2>1, <3>1, <3>2
  <2>2. CASE op[c].at = "cancel" /\ calendar' = [calendar EXCEPT ![op[c].row.event].live = FALSE]
    <3> DEFINE e == op[c].row.event
    <3>1. e \in DOMAIN calendar
      BY <1>1, <2>2 DEF ChangeOk, EventOf
    <3>2. /\ calendar' \in Seq([for : MeetingIds, live : BOOLEAN])
          /\ Len(calendar') = Len(calendar) /\ DOMAIN calendar' = DOMAIN calendar
          /\ \A f \in DOMAIN calendar : /\ calendar'[f].for = calendar[f].for
                                        /\ calendar'[f].live => calendar[f].live
      BY <2>2, <3>1, OneEventEnds
    <3>3. EventsInv' /\ \A m \in DOMAIN calendar : Gone(m) => Gone(m)'
      BY <1>2, <3>2, EventEnds
    <3>4. Len(calendar') <= MaxEvents
      BY <3>2 DEF MeetingInv, MeetingTypeOK
    <3>. QED  BY <3>2, <3>3, <3>4
  <2>3. CASE op[c].at = "create" /\ Len(calendar) < MaxEvents /\ calendar' = Create(op[c])
    <3>1. PICK f \in MeetingIds :
            /\ Create(op[c]) = Append(calendar, [for |-> f, live |-> TRUE])
            /\ f = Len(calendar) + 1 \/ Moves(op[c], f)
      BY <2>3, CreateIsFor
    <3>. QED  BY <1>2, <2>3, <3>1, EventStarts
  <2>. QED  BY <2>1, <2>2, <2>3 DEF ProviderFailed
<1>5. \A e, m : EventOf(e, m) => EventOf(e, m)'
  BY <1>4 DEF EventOf
<1>6. BookOk(x)'
  BY <1>1, <1>2 DEF BookOk
<1>7. ChangeOk(x)'
  BY <1>1, <1>2, <1>5 DEF ChangeOk, Saved
<1>. QED  BY <1>1, <1>2, <1>3, <1>4, <1>6, <1>7, CalendarStep

-----------------------------------------------------------------------------
(* Steps that put on record and save.                                       *)

LEMMA RecordBookingKeeps ==
  ASSUME MeetingInv, TimesInv, NEW c \in Clients, RecordBooking(c)
  PROVE  MeetingInv' /\ TimesInv'
<1>1. PICK o \in Operation :
        /\ o = op[c] /\ o.at = "record" /\ o.kind = "book" /\ o.key \in BookingKeys
        /\ o.row.contact \in Contacts /\ o.slot \in Slots /\ o.row \in Meeting
        /\ BookOk(o) /\ ChangeOk(o) /\ FreshOk(o) /\ EventOf(o.id, o.id)
        /\ UNCHANGED <<calendar, meetings, overtaken>>
  BY MeetingFacts DEF RecordBooking, MeetingInv, MeetingTypeOK, TimesInv, BookOk
<1>2. o.id \in MeetingIds /\ o.id # 0 /\ o.id \in DOMAIN calendar
  <2>1. o.id \in DOMAIN calendar /\ calendar[o.id].for = o.id
    BY <1>1 DEF EventOf
  <2>2. o.id \in 1..Len(calendar) /\ Len(calendar) \in Nat /\ Len(calendar) <= MaxEvents
    BY <2>1, MeetingFacts DEF MeetingInv, MeetingTypeOK
  <2>. QED  BY <2>1, <2>2, MeetingAssumption DEF MeetingAssumption, MeetingIds
<1>3. CASE End(c) /\ UNCHANGED bookings
  BY <1>1, <1>3, EndKeeps
<1>4. ASSUME bookings[o.key] = NoBooking,
             bookings' = [bookings EXCEPT ![o.key] =
               [contact |-> o.row.contact, slot |-> o.slot, meeting |-> o.id]],
             Go(c, "save")
      PROVE  MeetingInv' /\ TimesInv'
  <2> DEFINE Row == [contact : Contacts, slot : Slots, meeting : MeetingIds]
             row == [contact |-> o.row.contact, slot |-> o.slot, meeting |-> o.id]
  <2>1. row \in Row /\ row.meeting = o.id /\ bookings \in [BookingKeys -> Row \cup {NoBooking}]
    BY <1>1, <1>2 DEF MeetingInv, MeetingTypeOK
  <2>2. bookings' = [bookings EXCEPT ![o.key] = row]
    BY <1>4
  <2> HIDE DEF Row, row
  <2>3. /\ bookings' \in [BookingKeys -> Row \cup {NoBooking}]
        /\ bookings'[o.key].meeting = o.id
        /\ \A k \in BookingKeys : k # o.key => bookings'[k] = bookings[k]
    BY <1>1, <2>1, <2>2
  <2>4. bookings[o.key].meeting = 0
    BY <1>4 DEF NoBooking
  <2>5. PICK x \in Operation :
          /\ op' = [op EXCEPT ![c] = x] /\ x.at = "save" /\ x.kind = "book" /\ x.row = o.row
          /\ x.key = o.key /\ x.slot = o.slot /\ x.id = o.id
          /\ x.overtaken = o.overtaken /\ x.replay = o.replay
    <3> DEFINE x == [o EXCEPT !.at = "save"]
    <3>1. /\ x \in Operation /\ x.at = "save" /\ x.kind = o.kind /\ x.row = o.row
          /\ x.key = o.key /\ x.slot = o.slot /\ x.id = o.id
          /\ x.overtaken = o.overtaken /\ x.replay = o.replay
      BY <1>1 DEF Operation
    <3>2. op' = [op EXCEPT ![c] = x]
      BY <1>1, <1>4 DEF Go
    <3> HIDE DEF x
    <3>. QED  BY <1>1, <3>1, <3>2
  <2>6. /\ op' \in [Clients -> Operation] /\ op'[c] = x
        /\ \A d \in Clients : d # c => op'[d] = op[d]
    BY <2>5, OpMoves, MeetingFacts
  <2>7. \A d \in Clients : \A m : Moves(op'[d], m) => Moves(op[d], m)
    BY <2>5, <2>6 DEF Moves
  <2>8. /\ \A m : Gone(m) => Gone(m)'
        /\ \A e, m : EventOf(e, m) => EventOf(e, m)'
        /\ Saved' = Saved
    BY <1>1, <2>7 DEF Gone, EventOf, Saved
  <2>9. \A m : m # 0 /\ (\E k \in BookingKeys : bookings[k].meeting = m) =>
          \E k \in BookingKeys : bookings'[k].meeting = m
    BY <2>3, <2>4
  <2>10. MeetingTypeOK'
    BY <1>1, <2>3, <2>5, <2>6 DEF MeetingInv, MeetingTypeOK, Row
  <2>11. EventsInv'
    <3>1. \A d, b \in Clients : Moves(op'[d], op'[d].id) /\ Moves(op'[b], op'[d].id) => d = b
      <4>1. ASSUME NEW d \in Clients, NEW b \in Clients,
                   Moves(op'[d], op'[d].id), Moves(op'[b], op'[d].id)
            PROVE  d = b
        <5>1. Moves(op[d], op[d].id) /\ Moves(op[b], op[d].id)
          BY <2>5, <2>6, <2>7, <4>1 DEF Moves
        <5>. QED  BY <5>1 DEF MeetingInv, EventsInv
      <4>. QED  BY <4>1
    <3>. QED  BY <1>1, <2>7, <3>1 DEF MeetingInv, EventsInv
  <2>12. RecordsInv'
    BY <2>5, <2>6 DEF MeetingInv, RecordsInv
  <2>13. BookedInv'
    <3>1. BookedInv /\ \A k \in BookingKeys : bookings[k].meeting # o.id
      BY <1>1 DEF MeetingInv, BookOk
    <3>2. \A k \in BookingKeys : bookings'[k] # NoBooking =>
            EventOf(bookings'[k].meeting, bookings'[k].meeting)
      BY <1>1, <2>3, <3>1 DEF BookedInv
    <3>3. \A k, l \in BookingKeys :
            bookings'[k] # NoBooking /\ bookings'[l].meeting = bookings'[k].meeting => k = l
      BY <2>3, <3>1 DEF BookedInv
    <3>4. \A k \in BookingKeys : bookings'[k] # NoBooking =>
            EventOf(bookings[k].meeting, bookings[k].meeting)'
      BY <1>1, <3>2 DEF EventOf
    <3>. QED  BY <3>3, <3>4 DEF BookedInv
  <2>14. ASSUME NEW d \in Clients
         PROVE  BookOk(op[d])' /\ ChangeOk(op[d])' /\ FreshOk(op[d])'
    <3>1. PICK y : /\ y = op'[d] /\ FreshOk(y) /\ ChangeOk(y)
                   /\ \/ BookOk(y) /\ y = op[d] /\ d # c
                      \/ y = x
      <4>1. ChangeOk(x) /\ FreshOk(x)
        BY <1>1, <2>5 DEF ChangeOk, FreshOk
      <4>. QED  BY <2>6, <4>1 DEF MeetingInv, TimesInv
    <3>2. CASE y = x
      <4>1. BookOk(x)'
        BY <1>1, <2>3, <2>5, <2>8 DEF BookOk
      <4>2. ChangeOk(x)' /\ FreshOk(x)'
        BY <1>1, <2>5, <2>8, <3>1, <3>2 DEF ChangeOk, FreshOk, Clear
      <4>. QED  BY <3>1, <3>2, <4>1, <4>2 DEF BookOk, ChangeOk, FreshOk, EventOf, Gone, Clear
    <3>3. CASE BookOk(y) /\ y = op[d] /\ d # c
      <4>1. y.at = "record" => y.id # o.id
        BY <1>1, <3>3 DEF MeetingInv, RecordsInv
      <4>2. y.kind = "book" /\ y.at = "save" => y.id # 0
        BY <3>3, MeetingFacts DEF BookOk, EventOf
      <4>3. BookOk(y)'
        BY <2>3, <2>8, <2>9, <3>3, <4>1, <4>2 DEF BookOk
      <4>4. ChangeOk(y)' /\ FreshOk(y)'
        BY <1>1, <2>8, <3>1 DEF ChangeOk, FreshOk, Clear
      <4>. QED  BY <3>1, <4>3, <4>4 DEF BookOk, ChangeOk, FreshOk, EventOf, Gone, Clear
    <3>. QED  BY <3>1, <3>2, <3>3
  <2>15. \A m \in Saved' : SavedOk(m)'
    <3>1. \A m \in Saved : m # 0 /\ SavedOk(m)
      BY MeetingFacts DEF MeetingInv, Saved, MeetingIds
    <3>. QED  BY <1>1, <2>8, <2>9, <3>1 DEF SavedOk, EventOf
  <2>16. ApartInv'
    BY <1>1, <2>8 DEF TimesInv, ApartInv, Clear, Overlapping
  <2>. QED  BY <2>10, <2>11, <2>12, <2>13, <2>14, <2>15, <2>16 DEF MeetingInv, TimesInv
<1>. QED  BY <1>1, <1>3, <1>4 DEF RecordBooking

LEMMA SaveKeeps ==
  ASSUME MeetingInv, TimesInv, NEW c \in Clients, Save(c)
  PROVE  MeetingInv' /\ TimesInv'
<1>1. PICK o \in Operation :
        /\ o = op[c] /\ o.at = "save" /\ o.row \in Meeting
        /\ BookOk(o) /\ ChangeOk(o) /\ FreshOk(o)
        /\ UNCHANGED <<calendar, bookings>>
  BY MeetingFacts DEF Save, MeetingInv, MeetingTypeOK, TimesInv
<1>2. PICK writes \in BOOLEAN : writes <=> ~(o.replay /\ o.id \in Saved)
  OBVIOUS
<1>3. /\ meetings' = IF writes THEN [meetings EXCEPT ![o.id] = o.row] ELSE meetings
      /\ overtaken' = IF writes /\ (o.replay \/ o.overtaken) THEN overtaken \cup {o.id}
                      ELSE overtaken
      /\ op' = [d \in Clients |->
           IF d = c THEN NoOp
           ELSE [op[d] EXCEPT !.overtaken = @ \/ (writes /\ op[d].at # "idle")]]
  BY <1>1, <1>2 DEF Save
<1>4. /\ o.kind \in {"book", "reschedule", "cancel", "outcome"}
      /\ o.id \in MeetingIds /\ EventOf(o.row.event, o.id)
      /\ \E k \in BookingKeys : bookings[k].meeting = o.id
      /\ o.row.status = "CANCELLED" => Gone(o.id)
  <2>1. o.kind \in {"book", "reschedule", "cancel", "outcome"}
    BY <1>1 DEF ChangeOk, Operation
  <2>2. CASE o.kind = "book"
    <3>1. EventOf(o.id, o.id) /\ o.row.event = o.id /\ o.row.status # "CANCELLED"
          /\ \E k \in BookingKeys : bookings[k].meeting = o.id
      BY <1>1, <2>2 DEF BookOk
    <3>2. calendar \in Seq([for : MeetingIds, live : BOOLEAN])
      BY MeetingFacts
    <3>3. o.id \in 1..Len(calendar) /\ Len(calendar) \in Nat /\ Len(calendar) <= MaxEvents
      BY <3>1, MeetingFacts DEF EventOf, MeetingInv, MeetingTypeOK
    <3>4. o.id \in MeetingIds
      BY <3>3, MeetingAssumption DEF MeetingAssumption, MeetingIds
    <3>. QED  BY <2>1, <3>1, <3>4
  <2>3. CASE o.kind # "book"
    <3>1. o.id \in Saved /\ EventOf(o.row.event, o.id)
          /\ (o.row.status = "CANCELLED" => Gone(o.id))
      BY <1>1, <2>1, <2>3 DEF ChangeOk
    <3>2. SavedOk(o.id) /\ o.id \in MeetingIds
      BY <3>1, MeetingFacts DEF MeetingInv
    <3>. QED  BY <2>1, <3>1, <3>2 DEF SavedOk
  <2>. QED  BY <2>2, <2>3
<1>5. NoOp \in Operation /\ NoOp.at = "idle" /\ NoOp.kind = "none"
  BY DEF NoOp, Operation, NoMeeting
<1>6. /\ op' \in [Clients -> Operation] /\ op'[c] = NoOp
      /\ \A d \in Clients : d # c =>
           /\ op'[d].at = op[d].at /\ op'[d].kind = op[d].kind /\ op'[d].key = op[d].key
           /\ op'[d].slot = op[d].slot /\ op'[d].id = op[d].id /\ op'[d].row = op[d].row
           /\ op'[d].free = op[d].free /\ op'[d].replay = op[d].replay
           /\ op'[d].overtaken <=> op[d].overtaken \/ (writes /\ op[d].at # "idle")
  <2>1. ASSUME NEW d \in Clients, d # c
        PROVE  /\ op'[d] \in Operation
               /\ op'[d].at = op[d].at /\ op'[d].kind = op[d].kind /\ op'[d].key = op[d].key
               /\ op'[d].slot = op[d].slot /\ op'[d].id = op[d].id /\ op'[d].row = op[d].row
               /\ op'[d].free = op[d].free /\ op'[d].replay = op[d].replay
               /\ op'[d].overtaken <=> op[d].overtaken \/ (writes /\ op[d].at # "idle")
    <3>1. op[d] \in Operation
      BY MeetingFacts
    <3>2. op'[d] = [op[d] EXCEPT !.overtaken = op[d].overtaken \/ (writes /\ op[d].at # "idle")]
      BY <1>3, <2>1
    <3>. QED  BY <3>1, <3>2 DEF Operation
  <2>2. op'[c] = NoOp /\ DOMAIN op' = Clients
    BY <1>3
  <2>3. op' \in [Clients -> Operation]
    BY <1>3, <1>5, <2>1, <2>2
  <2>. QED  BY <2>1, <2>2, <2>3
<1>7. /\ meetings' \in [MeetingIds -> Meeting \cup {NoMeeting}]
      /\ \A m \in Saved' : m \in Saved \/ (writes /\ m = o.id)
      /\ Saved \subseteq Saved'
      /\ \A m \in MeetingIds : meetings'[m] = IF writes /\ m = o.id THEN o.row ELSE meetings[m]
  <2>1. \A r \in Meeting : r # NoMeeting
    BY DEF Meeting, NoMeeting, MeetingStates
  <2>2. meetings \in [MeetingIds -> Meeting \cup {NoMeeting}]
    BY MeetingFacts
  <2>. QED  BY <1>1, <1>3, <1>4, <2>1, <2>2 DEF Saved
<1>8. \A d \in Clients : \A m : Moves(op'[d], m) => Moves(op[d], m)
  BY <1>5, <1>6 DEF Moves
<1>9. /\ \A m : Gone(m) => Gone(m)'
      /\ \A e, m : EventOf(e, m) <=> EventOf(e, m)'
  BY <1>1, <1>8 DEF Gone, EventOf
<1>10. MeetingTypeOK'
  BY <1>1, <1>3, <1>4, <1>5, <1>6, <1>7 DEF MeetingInv, MeetingTypeOK
<1>11. EventsInv'
  <2>1. \A d, b \in Clients : Moves(op'[d], op'[d].id) /\ Moves(op'[b], op'[d].id) => d = b
    <3>1. ASSUME NEW d \in Clients, NEW b \in Clients,
                 Moves(op'[d], op'[d].id), Moves(op'[b], op'[d].id)
          PROVE  d = b
      <4>1. Moves(op[d], op[d].id) /\ Moves(op[b], op[d].id)
        BY <1>5, <1>6, <1>8, <3>1 DEF Moves
      <4>. QED  BY <4>1 DEF MeetingInv, EventsInv
    <3>. QED  BY <3>1
  <2>. QED  BY <1>1, <1>8, <2>1 DEF MeetingInv, EventsInv
<1>12. RecordsInv' /\ BookedInv'
  BY <1>1, <1>5, <1>6 DEF MeetingInv, RecordsInv, BookedInv, EventOf
<1>13. ASSUME NEW d \in Clients
       PROVE  BookOk(op[d])' /\ ChangeOk(op[d])' /\ FreshOk(op[d])'
  <2>1. CASE d = c
    BY <1>5, <1>6, <2>1 DEF BookOk, ChangeOk, FreshOk
  <2>2. CASE d # c
    <3>1. BookOk(op[d]) /\ ChangeOk(op[d]) /\ FreshOk(op[d])
      BY DEF MeetingInv, TimesInv
    <3>2. BookOk(op[d])'
      BY <1>1, <1>6, <2>2, <3>1 DEF BookOk, EventOf
    <3>3. ChangeOk(op[d])'
      BY <1>1, <1>6, <1>7, <1>9, <2>2, <3>1 DEF ChangeOk, EventOf
    <3>4. FreshOk(op[d])'
      <4>1. CASE writes
        BY <1>6, <2>2, <4>1 DEF FreshOk
      <4>2. CASE ~writes
        <5>1. meetings' = meetings /\ Saved' = Saved
          BY <1>3, <4>2 DEF Saved
        <5>2. op[d].overtaken \in BOOLEAN
          BY MeetingFacts DEF Operation
        <5>. QED  BY <1>6, <2>2, <3>1, <4>2, <5>1, <5>2 DEF FreshOk, Clear
      <4>. QED  BY <1>2, <4>1, <4>2
    <3>. QED  BY <3>2, <3>3, <3>4
  <2>. QED  BY <2>1, <2>2
<1>14. ASSUME NEW m \in Saved'
       PROVE  SavedOk(m)'
  <2>1. m \in MeetingIds
    BY DEF Saved
  <2>2. CASE writes /\ m = o.id
    BY <1>1, <1>4, <1>7, <1>9, <2>1, <2>2 DEF SavedOk
  <2>3. CASE ~(writes /\ m = o.id)
    <3>1. m \in Saved /\ meetings'[m] = meetings[m]
      BY <1>7, <2>1, <2>3
    <3>2. SavedOk(m)
      BY <3>1 DEF MeetingInv
    <3>. QED  BY <1>1, <1>9, <3>1, <3>2 DEF SavedOk
  <2>. QED  BY <2>2, <2>3
<1>15. ApartInv'
  <2> DEFINE SlotOf(row) == [start |-> row.start, end |-> row.start + Duration]
  <2> SUFFICES ASSUME SlotsAreLongEnough,
                      NEW m \in Saved' \ overtaken', NEW n \in Saved' \ overtaken', m # n,
                      meetings'[m].status # "CANCELLED"
               PROVE  Clear(meetings'[m].contact, SlotOf(meetings'[m]), meetings'[n])
    BY DEF ApartInv, Clear, Overlapping
  <2>1. overtaken \subseteq overtaken' /\ m \in MeetingIds /\ n \in MeetingIds
    BY <1>3 DEF Saved
  <2>2. \A a, b \in Saved \ overtaken : a # b /\ meetings[a].status # "CANCELLED" =>
          Clear(meetings[a].contact, SlotOf(meetings[a]), meetings[b])
    BY DEF TimesInv, ApartInv
  \* What is saved keeps clear of every other meeting, and they of it.
  <2>3. ASSUME writes, o.id \notin overtaken', o.row.status # "CANCELLED",
               NEW k \in Saved \ overtaken, k # o.id
        PROVE  /\ Clear(o.row.contact, SlotOf(o.row), meetings[k])
               /\ meetings[k].status # "CANCELLED" =>
                    Clear(meetings[k].contact, SlotOf(meetings[k]), o.row)
    <3>1. ~o.replay /\ ~o.overtaken
      BY <1>3, <2>3
    <3>2. /\ o.row.start \in Nat /\ meetings[k].start \in Nat
      BY <1>1, MeetingFacts DEF Meeting
    <3>3. CASE o.kind \in {"book", "reschedule"}
      <4>1. /\ Clear(o.row.contact, o.slot, meetings[k]) /\ o.row.start = o.slot.start
            /\ o.slot \in Slots
        BY <1>1, <2>3, <3>1, <3>3 DEF FreshOk, BookOk, ChangeOk
      <4>2. o.slot.start \in Nat /\ o.slot.end \in Nat /\ o.slot.end >= o.slot.start + Duration
        BY <4>1, MeetingAssumption DEF MeetingAssumption, SlotsAreLongEnough
      <4>. QED  BY <2>3, <3>2, <4>1, <4>2 DEF Clear, Overlapping, Duration
    <3>4. CASE o.kind = "outcome"
      <4>1. /\ o.row.start = meetings[o.id].start /\ o.row.contact = meetings[o.id].contact
            /\ meetings[o.id].status # "CANCELLED" /\ o.id \in Saved \ overtaken
        BY <1>1, <2>1, <2>3, <3>1, <3>4 DEF FreshOk, ChangeOk
      <4>2. /\ Clear(meetings[o.id].contact, SlotOf(meetings[o.id]), meetings[k])
            /\ meetings[k].status # "CANCELLED" =>
                 Clear(meetings[k].contact, SlotOf(meetings[k]), meetings[o.id])
        BY <2>2, <2>3, <4>1
      <4>. QED  BY <4>1, <4>2 DEF Clear, Overlapping
    <3>5. CASE o.kind = "cancel"
      BY <1>1, <2>3, <3>1, <3>5 DEF FreshOk
    <3>. QED  BY <1>4, <3>3, <3>4, <3>5
  <2>4. CASE writes /\ m = o.id
    <3>1. n \in Saved \ overtaken /\ meetings'[n] = meetings[n] /\ meetings'[m] = o.row
      BY <1>7, <2>1, <2>4
    <3>. QED  BY <2>3, <2>4, <3>1
  <2>5. CASE writes /\ n = o.id
    <3>1. m \in Saved \ overtaken /\ meetings'[m] = meetings[m] /\ meetings'[n] = o.row
      BY <1>7, <2>1, <2>5
    <3>2. CASE o.row.status = "CANCELLED"
      BY <3>1, <3>2 DEF Clear
    <3>3. CASE o.row.status # "CANCELLED"
      BY <2>3, <2>5, <3>1, <3>3
    <3>. QED  BY <3>2, <3>3
  <2>6. CASE ~(writes /\ m = o.id) /\ ~(writes /\ n = o.id)
    BY <1>7, <2>1, <2>2, <2>6
  <2>. QED  BY <2>4, <2>5, <2>6
<1>. QED  BY <1>10, <1>11, <1>12, <1>13, <1>14, <1>15 DEF MeetingInv, TimesInv

-----------------------------------------------------------------------------

LEMMA MeetingInitHolds == MeetingInit => MeetingInv /\ TimesInv
<1> SUFFICES ASSUME MeetingInit
             PROVE  MeetingInv /\ TimesInv
  OBVIOUS
<1>1. NoOp \in Operation /\ NoOp.at = "idle" /\ NoOp.kind = "none"
  BY DEF NoOp, Operation, NoMeeting
<1>2. /\ calendar \in Seq([for : MeetingIds, live : BOOLEAN]) /\ Len(calendar) = 0
      /\ DOMAIN calendar = {}
  BY EmptySeq DEF MeetingInit
<1>3. Saved = {} /\ \A c \in Clients : op[c] = NoOp
  BY DEF MeetingInit, Saved
<1>4. MeetingTypeOK
  BY <1>1, <1>2, <1>3, MeetingAssumption DEF MeetingInit, MeetingTypeOK, MeetingAssumption
<1>5. EventsInv /\ RecordsInv /\ BookedInv
  BY <1>1, <1>2, <1>3 DEF MeetingInit, EventsInv, RecordsInv, BookedInv, Moves, NoBooking
<1>6. \A c \in Clients : BookOk(op[c]) /\ ChangeOk(op[c]) /\ FreshOk(op[c])
  BY <1>1, <1>3 DEF BookOk, ChangeOk, FreshOk
<1>7. ApartInv
  BY <1>3 DEF ApartInv
<1>. QED  BY <1>3, <1>4, <1>5, <1>6, <1>7 DEF MeetingInv, TimesInv

LEMMA MeetingStep ==
  ASSUME MeetingInv, TimesInv, [MeetingNext]_meetingVars
  PROVE  MeetingInv' /\ TimesInv'
<1>1. CASE UNCHANGED meetingVars
  <2>1. UNCHANGED <<calendar, meetings, bookings, op, overtaken>>
    BY <1>1 DEF meetingVars
  <2>2. Saved' = Saved /\ \A m : Gone(m) => Gone(m)'
    BY <2>1 DEF Saved, Gone
  <2>3. MeetingTypeOK' /\ EventsInv' /\ RecordsInv' /\ BookedInv'
    BY <2>1 DEF MeetingInv, MeetingTypeOK, EventsInv, RecordsInv, BookedInv, EventOf
  <2>4. \A c \in Clients : BookOk(op[c])' /\ ChangeOk(op[c])' /\ FreshOk(op[c])'
    BY <2>1, <2>2 DEF MeetingInv, TimesInv, BookOk, ChangeOk, FreshOk, EventOf, Clear
  <2>5. \A m \in Saved' : SavedOk(m)'
    BY <2>1, <2>2 DEF MeetingInv, SavedOk, EventOf
  <2>6. ApartInv'
    BY <2>1, <2>2 DEF TimesInv, ApartInv, Clear, Overlapping
  <2>. QED  BY <2>3, <2>4, <2>5, <2>6 DEF MeetingInv, TimesInv
<1>2. ASSUME NEW c \in Clients, Abandon(c)
      PROVE  MeetingInv' /\ TimesInv'
  BY <1>2, EndKeeps DEF Abandon
<1>. QED  BY <1>1, <1>2, BeginBookingKeeps, BeginRescheduleKeeps, BeginCancelKeeps,
             BeginOutcomeKeeps, LookupBookingKeeps, CancelEventKeeps, CreateEventKeeps,
             ProviderFailedKeeps, RecordBookingKeeps, SaveKeeps DEF MeetingNext

LEMMA MeetingInvariant == MeetingSpec => [](MeetingInv /\ TimesInv)
BY MeetingInitHolds, MeetingStep, PTL DEF MeetingSpec

\* The calendar, the saved meetings, the bookings and the operations keep their types.
THEOREM MeetingTypeCorrect == MeetingSpec => []MeetingTypeOK
<1>1. MeetingInv => MeetingTypeOK
  BY DEF MeetingInv
<1>. QED  BY <1>1, MeetingInvariant, PTL

\* However many callers book, reschedule and cancel at once, whatever the provider
\* answers and wherever they die: a meeting has at most one live event, none once it is
\* cancelled, and one key; and two meetings of a contact are apart unless one of them was
\* saved over a newer list.
THEOREM NothingCollides == MeetingSpec => []BookingsDoNotCollide
<1>1. ASSUME MeetingInv, TimesInv
      PROVE  BookingsDoNotCollide
  <2>1. ASSUME NEW m \in Saved
        PROVE  /\ Cardinality(LiveEvents(m)) <= 1
               /\ meetings[m].status = "CANCELLED" => LiveEvents(m) = {}
               /\ Cardinality({k \in BookingKeys : bookings[k].meeting = m}) = 1
    <3>1. SavedOk(m) /\ m # 0
      BY <1>1, MeetingFacts DEF MeetingInv, Saved, MeetingIds
    <3>2. Cardinality(LiveEvents(m)) <= 1
      <4>1. CASE LiveEvents(m) = {}
        BY <4>1, FS_EmptySet
      <4>2. ASSUME NEW e \in LiveEvents(m)
            PROVE  Cardinality(LiveEvents(m)) <= 1
        <5>1. LiveEvents(m) = {e}
          BY <1>1, <4>2 DEF LiveEvents, MeetingInv, EventsInv
        <5>. QED  BY <5>1, FS_Singleton
      <4>. QED  BY <4>1, <4>2
    <3>3. meetings[m].status = "CANCELLED" => LiveEvents(m) = {}
      BY <3>1 DEF SavedOk, Gone, LiveEvents
    <3>4. Cardinality({k \in BookingKeys : bookings[k].meeting = m}) = 1
      <4>1. PICK k \in BookingKeys : bookings[k].meeting = m
        BY <3>1 DEF SavedOk
      <4>2. bookings[k] # NoBooking
        BY <3>1, <4>1 DEF NoBooking
      <4>3. {l \in BookingKeys : bookings[l].meeting = m} = {k}
        BY <1>1, <4>1, <4>2 DEF MeetingInv, BookedInv
      <4>. QED  BY <4>3, FS_Singleton
    <3>. QED  BY <3>2, <3>3, <3>4
  <2>2. SlotsAreLongEnough => \A m, n \in Saved \ overtaken :
          /\ m # n /\ meetings[m].contact = meetings[n].contact
          /\ meetings[m].status # "CANCELLED" /\ meetings[n].status # "CANCELLED"
          => ~Overlapping([start |-> meetings[m].start, end |-> meetings[m].start + Duration],
                          meetings[n])
    BY <1>1 DEF TimesInv, ApartInv, Clear
  <2>. QED  BY <2>1, <2>2 DEF BookingsDoNotCollide
<1>. QED  BY <1>1, MeetingInvariant, PTL
-----------------------------------------------------------------------------
(* The messages of Core, n8n and the workers.                              *)

ContractsSpec == ContractsInit /\ [][ContractsNext]_lastMessage

\* What the receiver has taken passed the schema of its kind.
ContractsInv ==
  lastMessage \in {NoPart} \cup {c \in ToolCalls : ToolCallOk(c)}
                    \cup {r \in ToolResults : ToolResultOk(r)} \cup {c \in Callbacks : CallbackOk(c)}

LEMMA ContractsInvariant == ContractsSpec => []ContractsInv
<1>1. ContractsInit => ContractsInv
  BY DEF ContractsInit, ContractsInv
<1>2. ContractsInv /\ [ContractsNext]_lastMessage => ContractsInv'
  BY DEF ContractsInv, ContractsNext, AcceptCall, AcceptResult, AcceptCallback, Drop, Accept
<1>. QED  BY <1>1, <1>2, PTL DEF ContractsSpec

\* A result that its schema lets through names its correlation only, and says that it
\* succeeded exactly if it has an output and no error and is not partial.
LEMMA ResultsCohere ==
  ASSUME NEW r \in JobResults, JobResultOk(r)
  PROVE  /\ CorrelationsNamed(r) = {r.correlationId}
         /\ JobsNamed(r) = {r.jobId}
         /\ r.status = "SUCCEEDED" <=> r.output # NoPart /\ r.error = NoPart /\ r.status # "PARTIAL"
<1>1. /\ r.kind = "JOB_RESULT" /\ r.status \in {"SUCCEEDED", "PARTIAL", "FAILED"}
      /\ DOMAIN r = {"kind", "jobId", "correlationId", "jobType", "status", "output", "error"}
  BY DEF JobResults
<1>2. CorrelationsNamed(r) = {r.correlationId}
  BY <1>1 DEF CorrelationsNamed, ErrorOf, JobResultOk
<1>3. JobsNamed(r) = {r.jobId}
  BY <1>1 DEF JobsNamed
<1>. QED  BY <1>1, <1>2, <1>3 DEF JobResultOk

\* What the schemas accept is about one job and one correlation, at every level.
THEOREM MessagesCohere == ContractsSpec => []AcceptedMessagesCohere
<1>1. ASSUME ContractsInv PROVE AcceptedMessagesCohere
  <2>. SUFFICES ASSUME lastMessage # NoPart
                PROVE  /\ CorrelationsNamed(lastMessage.nested) = {lastMessage.correlationId}
                       /\ lastMessage.kind # "CALLBACK" => JobsNamed(lastMessage.nested) \subseteq {lastMessage.jobId}
                       /\ lastMessage.nested.kind = "JOB_RESULT" =>
                            (lastMessage.nested.status = "SUCCEEDED"
                               <=> lastMessage.nested.output # NoPart /\ lastMessage.nested.error = NoPart
                                     /\ lastMessage.nested.status # "PARTIAL")
    BY DEF AcceptedMessagesCohere
  <2>1. CASE lastMessage \in ToolCalls /\ ToolCallOk(lastMessage)
    <3>1. CASE lastMessage.nested \in SearchRequests
      <4>1. /\ lastMessage.nested.kind = "SEARCH"
            /\ DOMAIN lastMessage.nested = {"kind", "correlationId"}
        BY <3>1 DEF SearchRequests
      <4>. QED  BY <2>1, <4>1 DEF ToolCallOk, CorrelationsNamed, ErrorOf, JobsNamed
    <3>2. CASE lastMessage.nested \in JobRequests
      <4>1. /\ lastMessage.nested.kind = "JOB"
            /\ DOMAIN lastMessage.nested = {"kind", "jobType", "jobId", "correlationId"}
        BY <3>2 DEF JobRequests
      <4>2. lastMessage.toolKind \in {"SEARCH", "WORKFLOW"}
        BY <2>1 DEF ToolCalls
      <4>. QED  BY <2>1, <4>1, <4>2 DEF ToolCallOk, CorrelationsNamed, ErrorOf, JobsNamed
    <3>. QED  BY <2>1, <3>1, <3>2 DEF ToolCalls
  <2>2. CASE lastMessage \in ToolResults /\ ToolResultOk(lastMessage)
    <3>1. CASE lastMessage.nested \in SearchResponses
      <4>1. /\ lastMessage.nested.kind = "SEARCH_RESPONSE"
            /\ DOMAIN lastMessage.nested = {"kind", "correlationId"}
        BY <3>1 DEF SearchResponses
      <4>. QED  BY <2>2, <4>1 DEF ToolResultOk, CorrelationsNamed, ErrorOf, JobsNamed
    <3>2. CASE lastMessage.nested \in JobResults /\ JobResultOk(lastMessage.nested)
      <4>1. lastMessage.nested.kind = "JOB_RESULT"
        BY <3>2 DEF JobResults
      <4>. QED  BY <2>2, <3>2, <4>1, ResultsCohere DEF ToolResultOk
    <3>3. CASE lastMessage.nested \in [kind : {"ERROR"}, error : {e \in RhiaErrors : ErrorOk(e)}]
      <4>1. /\ lastMessage.nested.kind = "ERROR" /\ lastMessage.nested.error \in RhiaErrors
            /\ DOMAIN lastMessage.nested = {"kind", "error"}
        BY <3>3
      <4>2. CorrelationsNamed(lastMessage.nested) = {lastMessage.nested.error.correlationId}
        BY <4>1, ContractsAssumption DEF CorrelationsNamed, ErrorOf
      <4>3. JobsNamed(lastMessage.nested) = {}
        BY <4>1 DEF JobsNamed
      <4>. QED  BY <2>2, <4>1, <4>2, <4>3 DEF ToolResultOk
    <3>. QED  BY <2>2, <3>1, <3>2, <3>3 DEF ToolResults
  <2>3. CASE lastMessage \in Callbacks /\ CallbackOk(lastMessage)
    <3>1. lastMessage.kind = "CALLBACK"
      BY <2>3 DEF Callbacks
    <3>2. CASE lastMessage.nested \in JobResults /\ JobResultOk(lastMessage.nested)
      BY <2>3, <3>1, <3>2, ResultsCohere DEF CallbackOk
    <3>3. CASE lastMessage.nested \in ExecutionEvents \cup ApprovalDecisions
      <4>1. lastMessage.nested.kind \in {"EXECUTION_EVENT", "APPROVAL_DECISION"}
        BY <3>3 DEF ExecutionEvents, ApprovalDecisions
      <4>. QED  BY <2>3, <3>1, <4>1 DEF CallbackOk, CorrelationsNamed, ErrorOf
    <3>. QED  BY <2>3, <3>2, <3>3 DEF Callbacks
  <2>. QED  BY <1>1, <2>1, <2>2, <2>3 DEF ContractsInv
<1>. QED  BY <1>1, ContractsInvariant, PTL

-----------------------------------------------------------------------------
(* The next action of an opportunity.                                       *)

\* What a decision of the rules or of the model is, and which rule may give up.
Sound(d, now, reachable, scored) ==
  /\ d.action \in NbaActions
  /\ d.action = "CONTACT" => reachable
  /\ d.source # "RULE" => reachable
  /\ d.requiresApproval <=> d.action = "DISCARD"
  /\ (d.nextActionAt = NoDate) <=> (d.action = "DISCARD")
  /\ d.nextActionAt \in Nat \cup {NoDate}
  /\ d.action # "DISCARD" =>
       d.nextActionAt - d.decidedAt \in
         {NbaPolicy.urgent, NbaPolicy.research, NbaPolicy.revalidate, NbaPolicy.wait, NbaPolicy.proactive}
  /\ d.action = "DISCARD" /\ d.source = "RULE" =>
       /\ d.decidedAt >= NbaPolicy.staleAfterDays * Day
       /\ Below(scored, NbaPolicy.discard)

\* The windows of the policy.
LEMMA WindowsAreLengths ==
  /\ NbaPolicy.urgent \in Nat /\ NbaPolicy.research \in Nat /\ NbaPolicy.revalidate \in Nat
  /\ NbaPolicy.wait \in Nat /\ NbaPolicy.proactive \in Nat
  /\ NbaPolicy.staleAfterDays \in Nat
BY NbaAssumption DEF NbaAssumption, PolicyType

\* A decision with a window names a moment, one without is to discard.
LEMMA DecisionOf ==
  ASSUME NEW source, NEW action \in NbaActions, NEW now \in Nat, NEW window \in Nat,
         action # "DISCARD", NEW d, d = decisionOf(source, action, now, window)
  PROVE  /\ d # Undecided
         /\ d.action = action /\ d.source = source /\ d.decidedAt = now
         /\ ~d.requiresApproval
         /\ d.nextActionAt \in Nat /\ d.nextActionAt # NoDate
         /\ d.nextActionAt - d.decidedAt = window
<1>1. /\ d.action = action /\ d.source = source /\ d.decidedAt = now
      /\ ~d.requiresApproval
      /\ d.nextActionAt = IF window = NoDate THEN NoDate ELSE now + window
  BY DEF decisionOf, actionRequiresApproval
<1>2. action # "none"
  BY DEF NbaActions
<1>3. d # Undecided
  BY <1>1, <1>2 DEF Undecided
<1>4. window # NoDate
  BY DEF NoDate
<1>5. now + window \in Nat /\ now + window # NoDate /\ now + window - now = window
  BY DEF NoDate
<1>. QED  BY <1>1, <1>3, <1>4, <1>5

LEMMA DiscardOf ==
  ASSUME NEW source, NEW now \in Nat, NEW d, d = decisionOf(source, "DISCARD", now, NoDate)
  PROVE  /\ d # Undecided
         /\ d.action = "DISCARD" /\ d.source = source /\ d.decidedAt = now
         /\ d.requiresApproval /\ d.nextActionAt = NoDate
<1>1. /\ d.action = "DISCARD" /\ d.source = source /\ d.decidedAt = now
      /\ d.requiresApproval /\ d.nextActionAt = NoDate
  BY DEF decisionOf, actionRequiresApproval
<1>2. d # Undecided
  BY <1>1 DEF Undecided
<1>. QED  BY <1>1, <1>2

\* The age in days of an opportunity, and the ticks it stands for.
LEMMA AgeInTicks ==
  ASSUME NEW now \in Nat, NEW days \in Nat, daysBetween(0, now) >= days
  PROVE  now >= days * Day
<1>1. daysBetween(0, now) = now \div 6
  BY DEF daysBetween, Day
<1>2. now \div 6 >= days
  BY <1>1
<1>3. now >= days * 6
  BY <1>2
<1>. QED  BY <1>3 DEF Day

\* Each rule decides soundly, and nobody else is asked of an opportunity that
\* cannot be reached.
LEMMA RulesAreSound ==
  ASSUME NEW waits \in BOOLEAN, NEW sendable, NEW scored, NEW now \in Nat,
         NEW reachable \in BOOLEAN, reachable <=> waits \/ sendable # 0,
         NEW d, d = applyPolicy(waits, sendable, scored, daysBetween(0, now), now)
  PROVE  (d = Undecided /\ reachable) \/ (d # Undecided /\ Sound(d, now, reachable, scored))
<1> DEFINE age == daysBetween(0, now)
           Rule(action, window) == decisionOf("RULE", action, now, window)
<1>1. ASSUME NEW action \in {"CONTACT", "RESEARCH", "REVALIDATE"},
             NEW window \in {NbaPolicy.urgent, NbaPolicy.research, NbaPolicy.revalidate,
                             NbaPolicy.wait, NbaPolicy.proactive},
             action = "CONTACT" => reachable, d = Rule(action, window)
      PROVE  d # Undecided /\ Sound(d, now, reachable, scored)
  <2>1. window \in Nat /\ action \in NbaActions /\ action # "DISCARD"
    BY WindowsAreLengths DEF NbaActions
  <2>2. window # NoDate
    BY <2>1 DEF NoDate
  <2>. QED  BY <1>1, <2>1, <2>2, DecisionOf DEF Sound
<1>2. CASE waits
  <2>1. d = Rule("CONTACT", NbaPolicy.urgent)
    BY <1>2 DEF applyPolicy
  <2>. QED  BY <1>1, <1>2, <2>1
<1>3. CASE ~waits /\ sendable = 0
  <2>1. d = Rule("RESEARCH", NbaPolicy.research)
    BY <1>3 DEF applyPolicy
  <2>. QED  BY <1>1, <2>1
<1>4. CASE ~waits /\ sendable # 0 /\ scored = NoScore
  BY <1>4 DEF applyPolicy
<1>5. CASE ~waits /\ sendable # 0 /\ scored # NoScore
  <2>1. CASE Below(scored, NbaPolicy.discard) /\ age >= NbaPolicy.staleAfterDays
    <3>1. d = Rule("DISCARD", NoDate)
      BY <1>5, <2>1 DEF applyPolicy
    <3>2. now >= NbaPolicy.staleAfterDays * Day
      BY <2>1, AgeInTicks, WindowsAreLengths
    <3>3. "DISCARD" \in NbaActions
      BY DEF NbaActions
    <3>4. /\ d # Undecided /\ d.action = "DISCARD" /\ d.source = "RULE" /\ d.decidedAt = now
          /\ d.requiresApproval /\ d.nextActionAt = NoDate
      BY <3>1, DiscardOf
    <3>. QED  BY <1>5, <2>1, <3>2, <3>3, <3>4 DEF Sound
  <2>2. CASE ~(Below(scored, NbaPolicy.discard) /\ age >= NbaPolicy.staleAfterDays)
    <3>1. \/ d = Rule("REVALIDATE", NbaPolicy.revalidate)
          \/ d = Rule("CONTACT", NbaPolicy.proactive)
          \/ d = Undecided
      BY <1>5, <2>2 DEF applyPolicy
    <3>. QED  BY <1>1, <1>5, <3>1
  <2>. QED  BY <2>1, <2>2
<1>. QED  BY <1>2, <1>3, <1>4, <1>5

\* What the model may choose has its window.
LEMMA ModelWindows ==
  ASSUME NEW action \in NbaActions
  PROVE  /\ modelWindow(action) \in Nat \cup {NoDate}
         /\ (modelWindow(action) = NoDate) <=> (action = "DISCARD")
         /\ action # "DISCARD" =>
              modelWindow(action) \in {NbaPolicy.research, NbaPolicy.revalidate,
                                       NbaPolicy.wait, NbaPolicy.proactive}
<1>1. action = "DISCARD" => modelWindow(action) = NoDate
  BY DEF modelWindow
<1>2. action # "DISCARD" =>
        modelWindow(action) \in {NbaPolicy.research, NbaPolicy.revalidate,
                                 NbaPolicy.wait, NbaPolicy.proactive}
  BY DEF modelWindow, NbaActions
<1>3. NoDate \notin Nat
  BY DEF NoDate
<1>. QED  BY <1>1, <1>2, <1>3, WindowsAreLengths

LEMMA DecisionsAreSound ==
  ASSUME NEW waits \in BOOLEAN, NEW sendable, NEW scored, NEW now \in Nat, NEW answer,
         NEW reachable \in BOOLEAN, reachable <=> waits \/ sendable # 0,
         NEW d, d = decideNextBestAction(waits, sendable, scored, daysBetween(0, now), now, answer)
  PROVE  Sound(d, now, reachable, scored)
<1> DEFINE ruled == applyPolicy(waits, sendable, scored, daysBetween(0, now), now)
           chosen == decideWithModel(answer)
<1>1. CASE ruled # Undecided
  <2>1. d = ruled
    BY <1>1 DEF decideNextBestAction
  <2>. QED  BY <1>1, <2>1, RulesAreSound
<1>2. CASE ruled = Undecided /\ chosen # "none"
  <2>1. d = decisionOf("MODEL", chosen, now, modelWindow(chosen))
    BY <1>2 DEF decideNextBestAction
  <2>2. chosen \in NbaActions
    BY <1>2 DEF decideWithModel
  <2>3. reachable
    BY <1>2, RulesAreSound
  <2>4. /\ modelWindow(chosen) \in Nat \cup {NoDate}
        /\ (modelWindow(chosen) = NoDate) <=> (chosen = "DISCARD")
        /\ chosen # "DISCARD" =>
             modelWindow(chosen) \in {NbaPolicy.research, NbaPolicy.revalidate,
                                      NbaPolicy.wait, NbaPolicy.proactive}
    BY <2>2, ModelWindows
  <2>. HIDE DEF chosen
  <2>5. CASE chosen = "DISCARD"
    <3>1. d = decisionOf("MODEL", "DISCARD", now, NoDate)
      BY <2>1, <2>4, <2>5
    <3>2. /\ d.action = "DISCARD" /\ d.source = "MODEL" /\ d.decidedAt = now
          /\ d.requiresApproval /\ d.nextActionAt = NoDate
      BY <3>1, DiscardOf
    <3>. QED  BY <2>2, <2>3, <2>5, <3>2 DEF Sound
  <2>6. CASE chosen # "DISCARD"
    <3>1. modelWindow(chosen) \in Nat
      BY <2>4, <2>6, WindowsAreLengths
    <3>2. /\ d.action = chosen /\ d.source = "MODEL" /\ d.decidedAt = now
          /\ ~d.requiresApproval /\ d.nextActionAt \in Nat /\ d.nextActionAt # NoDate
          /\ d.nextActionAt - d.decidedAt = modelWindow(chosen)
      BY <2>1, <2>2, <2>6, <3>1, DecisionOf
    <3>. QED  BY <2>2, <2>3, <2>4, <2>6, <3>2 DEF Sound
  <2>. QED  BY <2>5, <2>6
<1>3. CASE ruled = Undecided /\ chosen = "none"
  <2>1. d = decisionOf("FALLBACK", "WAIT", now, NbaPolicy.wait)
    BY <1>3 DEF decideNextBestAction
  <2>2. reachable
    BY <1>3, RulesAreSound
  <2>3. "WAIT" \in NbaActions /\ NbaPolicy.wait \in Nat /\ NbaPolicy.wait # NoDate
    BY WindowsAreLengths DEF NbaActions, NoDate
  <2>. QED  BY <2>1, <2>2, <2>3, DecisionOf DEF Sound
<1>. QED  BY <1>1, <1>2, <1>3

\* The last decision was sound when it was taken.
NbaInv ==
  /\ nbaClock \in 0..MaxNbaClock /\ profile \in Profiles /\ reply \in BOOLEAN
  /\ decision # Undecided => Sound(decision, nbaClock, basis.reachable, basis.score)

\* The usable points of an opportunity are counted.
LEMMA PointsAreCounted == \A p \in Profiles : p.sendable \in Nat
BY NbaAssumption DEF NbaAssumption, ProfileType

LEMMA NbaStart == NbaInit => NbaInv
<1>1. MaxNbaClock \in Nat
  BY NbaAssumption DEF NbaAssumption
<1>. SUFFICES ASSUME NbaInit PROVE NbaInv
  OBVIOUS
<1>2. nbaClock \in 0..MaxNbaClock
  BY <1>1 DEF NbaInit
<1>3. profile \in Profiles /\ reply \in BOOLEAN /\ decision = Undecided
  BY DEF NbaInit
<1>. QED  BY <1>2, <1>3 DEF NbaInv

LEMMA NbaStep == NbaInv /\ [NbaNext]_nbaVars => NbaInv'
<1> SUFFICES ASSUME NbaInv, [NbaNext]_nbaVars PROVE NbaInv'
  OBVIOUS
<1>. MaxNbaClock \in Nat /\ Leaps \subseteq Nat /\ nbaClock \in Nat
  BY NbaAssumption DEF NbaAssumption, NbaInv
<1>1. CASE TimePasses
  BY <1>1 DEF TimePasses, NbaInv, Sound
<1>2. CASE Learn
  BY <1>2 DEF Learn, NbaInv, Sound
<1>3. CASE ReplyMoves
  BY <1>3 DEF ReplyMoves, NbaInv, Sound
<1>4. CASE Score
  BY <1>4 DEF Score, NbaInv, Sound
<1>5. CASE Decide
  <2>1. PICK answer \in ModelAnswers :
          decision' = decideNextBestAction(reply, profile.sendable, score,
                        daysBetween(0, nbaClock), nbaClock, answer)
    BY <1>5 DEF Decide
  <2> DEFINE can == reply \/ profile.sendable > 0
  <2>2. basis' = [reachable |-> can, score |-> score] /\ can \in BOOLEAN
    BY <1>5 DEF Decide
  <2>. HIDE DEF can
  <2>6. basis'.reachable = can /\ basis'.score = score /\ basis'.reachable \in BOOLEAN
    BY <2>2
  <2>3. profile.sendable \in Nat /\ reply \in BOOLEAN
    BY PointsAreCounted DEF NbaInv
  <2>7. can <=> reply \/ profile.sendable # 0
    BY <2>3 DEF can
  <2>4. basis'.reachable \in BOOLEAN /\ (basis'.reachable <=> reply \/ profile.sendable # 0)
    BY <2>6, <2>7, Zenon
  <2>5. Sound(decision', nbaClock, basis'.reachable, basis'.score)
    BY <2>1, <2>6, <2>3, <2>4, DecisionsAreSound
  <2>. QED  BY <1>5, <2>5 DEF Decide, NbaInv, Sound
<1>6. CASE UNCHANGED nbaVars
  BY <1>6 DEF nbaVars, NbaInv, Sound
<1>. QED  BY <1>1, <1>2, <1>3, <1>4, <1>5, <1>6 DEF NbaNext

\* For any policy, weights and profiles, and whatever the model answers: no contact is
\* proposed that cannot be made, what cannot be undone is for a person to approve, and
\* a rule gives up only what is old and scored low when it was decided.
THEOREM NextActionsHold == NbaSpec => []NextActionsAreBacked
<1>1. NbaInv => NextActionsAreBacked
  BY DEF NbaInv, Sound, NextActionsAreBacked
<1>. QED  BY <1>1, NbaStart, NbaStep, PTL DEF NbaSpec

-----------------------------------------------------------------------------
(* The score of an opportunity.                                             *)

\* What is counted of the first i signals: how many are backed and what they weigh.
Signals == [weight : 0..Unit, hasEvidence : BOOLEAN]
Backings == {r \in [weight : Nat, count : Nat] : r.weight <= Unit * r.count}
NextBacking(signal, r) ==
  IF signal.hasEvidence THEN [weight |-> r.weight + signal.weight, count |-> r.count + 1] ELSE r
CountsBacked(signals, g) ==
  g = [i \in 0..Len(signals) |->
         IF i = 0 THEN [weight |-> 0, count |-> 0]
         ELSE IF signals[i].hasEvidence
         THEN [weight |-> g[i - 1].weight + signals[i].weight, count |-> g[i - 1].count + 1]
         ELSE g[i - 1]]

LEMMA BackingGrows ==
  ASSUME NEW signal \in Signals, NEW r \in Backings
  PROVE  NextBacking(signal, r) \in Backings
<1>1. /\ signal.weight \in 0..180 /\ r.weight \in Nat /\ r.count \in Nat
      /\ r.weight <= 180 * r.count /\ r \in [weight : Nat, count : Nat]
  BY DEF Signals, Backings, Unit
<1>2. PICK w, v, c : w = r.weight /\ v = signal.weight /\ c = r.count
  OBVIOUS
<1>3. w + v \in Nat /\ c + 1 \in Nat /\ w + v <= 180 * (c + 1)
  BY <1>1, <1>2
<1>4. [weight |-> w + v, count |-> c + 1] \in Backings
  BY <1>3 DEF Backings, Unit
<1>. QED  BY <1>2, <1>4 DEF NextBacking

\* The recursive function of signalScore exists, and every one of its values is a
\* count whose average is a part of a score.
LEMMA SomeBacking ==
  ASSUME NEW signals \in Seq(Signals)
  PROVE  \E g : CountsBacked(signals, g)
<1>1. PICK n \in Nat : n = Len(signals)
  BY LenProperties
<1>2. \A i \in 1..n : signals[i] \in Signals
  BY <1>1, LenProperties, ElementOfSeq
<1>3. PICK F : F = [p \in (1..n) \X Backings |-> NextBacking(signals[p[1]], p[2])]
  OBVIOUS
<1>4. \A i \in 1..n : \A r \in Backings :
        F[<<i, r>>] = NextBacking(signals[i], r) /\ F[<<i, r>>] \in Backings
  BY <1>2, <1>3, BackingGrows
<1>5. F \in [(1..n) \X Backings -> Backings]
  BY <1>3, <1>4
<1>6. PICK none \in Backings : none = [weight |-> 0, count |-> 0]
  <2>1. [weight |-> 0, count |-> 0] \in Backings
    BY DEF Backings, Unit
  <2>. QED  BY <2>1
<1>7. PICK g : Steps(n, Backings, none, F, g)
  BY <1>5, StepByStep
<1>8. g \in [0..n -> Backings] /\ g[0] = none /\ \A i \in 1..n : g[i] = F[<<i, g[i - 1]>>]
  BY <1>7 DEF Steps
<1>9. \A i \in 0..n : g[i] = IF i = 0 THEN [weight |-> 0, count |-> 0]
         ELSE IF signals[i].hasEvidence
         THEN [weight |-> g[i - 1].weight + signals[i].weight, count |-> g[i - 1].count + 1]
         ELSE g[i - 1]
  <2> SUFFICES ASSUME NEW i \in 0..n, i # 0
               PROVE  g[i] = NextBacking(signals[i], g[i - 1])
    BY <1>6, <1>8 DEF NextBacking
  <2>1. i \in 1..n /\ i - 1 \in 0..n
    OBVIOUS
  <2>. QED  BY <1>4, <1>8, <2>1
<1>10. g = [i \in 0..n |-> g[i]]
  BY <1>8
<1>. QED  BY <1>1, <1>9, <1>10 DEF CountsBacked

LEMMA EveryBacking ==
  ASSUME NEW signals \in Seq(Signals), NEW g, CountsBacked(signals, g)
  PROVE  g[Len(signals)] \in Backings
<1>1. PICK n \in Nat : n = Len(signals)
  BY LenProperties
<1>2. \A i \in 1..n : signals[i] \in Signals
  BY <1>1, LenProperties, ElementOfSeq
<1>3. \A i \in 0..n : g[i] = IF i = 0 THEN [weight |-> 0, count |-> 0]
                             ELSE NextBacking(signals[i], g[i - 1])
  BY <1>1 DEF CountsBacked, NextBacking
<1> DEFINE K == {i \in 0..n : g[i] \notin Backings}
<1>4. K = {}
  <2> SUFFICES ASSUME K # {}
               PROVE  FALSE
    OBVIOUS
  <2>1. K \in SUBSET Nat
    OBVIOUS
  <2> DEFINE k == Min(K)
  <2>2. k \in K /\ \A l \in K : k <= l
    BY <2>1, MinIsLeast
  <2> HIDE DEF k
  <2>3. k \in 0..n /\ g[k] \notin Backings
    BY <2>2
  <2>4. k # 0
    <3>1. [weight |-> 0, count |-> 0] \in Backings
      BY DEF Backings, Unit
    <3>. QED  BY <1>3, <2>3, <3>1
  <2>5. k \in 1..n /\ k - 1 \in 0..n /\ ~(k <= k - 1)
    BY <2>3, <2>4
  <2>6. g[k - 1] \in Backings
    BY <2>2, <2>5
  <2>7. g[k] = NextBacking(signals[k], g[k - 1])
    BY <1>3, <2>3, <2>4
  <2>. QED  BY <1>2, <2>3, <2>5, <2>6, <2>7, BackingGrows
<1>. QED  BY <1>1, <1>4

\* An average of what weighs at most one is at most one.
LEMMA AveragesAreInUnits ==
  ASSUME NEW w \in Nat, NEW c \in Nat \ {0}, w <= 180 * c
  PROVE  w \div c \in 0..180
<1>1. PICK q \in Int, r \in Int : q = w \div c /\ w = c * q + r /\ 0 <= r /\ r < c
  OBVIOUS
<1>2. q >= 0
  <2>1. q < 0 => c * q <= -c
    OBVIOUS
  <2>. QED  BY <1>1, <2>1
<1>3. q <= 180
  <2>1. q >= 181 => c * q >= 181 * c
    OBVIOUS
  <2>2. ~(q >= 181)
    BY <1>1, <2>1
  <2>. QED  BY <1>1, <2>2
<1>. QED  BY <1>1, <1>2, <1>3

LEMMA SignalsAreInUnits ==
  ASSUME NEW signals \in Seq(Signals)
  PROVE  signalScore(signals) \in 0..180
<1> DEFINE g == CHOOSE h : CountsBacked(signals, h)
<1>1. CountsBacked(signals, g)
  BY SomeBacking
<1>2. signalScore(signals) = IF g[Len(signals)].count = 0 THEN 0
                             ELSE g[Len(signals)].weight \div g[Len(signals)].count
  BY DEF signalScore, CountsBacked
<1>3. PICK all \in Backings : all = g[Len(signals)]
  BY <1>1, EveryBacking
<1>4. PICK w, c \in Nat : w = all.weight /\ c = all.count /\ w <= 180 * c
  BY DEF Backings, Unit
<1>5. signalScore(signals) = IF c = 0 THEN 0 ELSE w \div c
  BY <1>2, <1>3, <1>4
<1>6. c # 0 => w \div c \in 0..180
  BY <1>4, AveragesAreInUnits
<1>. QED  BY <1>5, <1>6

LEMMA SharesAreInUnits ==
  ASSUME NEW some \in Nat, NEW whole \in Nat \ {0}
  PROVE  Share(some, whole) \in 0..180
<1>1. some * 180 \in Int
  OBVIOUS
<1>2. \A n \in Int : n \div whole \in Int
  OBVIOUS
<1>3. PICK p \in Int : p = (some * 180) \div whole
  BY <1>1, <1>2
<1>4. Share(some, whole) = Within(0, p, 180)
  BY <1>3 DEF Share, Unit
<1>. QED  BY <1>4 DEF Within

\* The parts of a score are between none and all of it.
LEMMA PartsAreInUnits ==
  ASSUME NEW p \in ProfileType, NEW date \in Nat \cup {NoDate}, NEW now \in Nat
  PROVE  /\ fitScore(p.matched, p.criteria) \in 0..180
         /\ signalScore(p.signals) \in 0..180
         /\ contactabilityScore(p.sendable, p.points) \in 0..180
         /\ timingScore(date, now) \in 0..180
         /\ geoPriority(p.country, p.city) \in 0..180
         /\ evidenceScore(p.evidence) \in 0..180
<1>1. /\ p.matched \in Nat /\ p.criteria \in Nat /\ p.signals \in Seq(Signals)
      /\ p.sendable \in Nat /\ p.points \in Nat /\ p.evidence \in Nat
  BY DEF ProfileType, Signals
<1>2. fitScore(p.matched, p.criteria) \in 0..180
  <2>1. PICK m, t \in Nat : m = p.matched /\ t = p.criteria
    BY <1>1
  <2>2. CASE t = 0
    BY <2>1, <2>2 DEF fitScore, Unit
  <2>3. CASE t # 0
    <3>1. Share(m, t) \in 0..180
      BY <2>3, SharesAreInUnits
    <3>. QED  BY <2>1, <2>3, <3>1 DEF fitScore
  <2>. QED  BY <2>2, <2>3
<1>3. contactabilityScore(p.sendable, p.points) \in 0..180
  <2>1. PICK m, t \in Nat : m = p.sendable /\ t = p.points
    BY <1>1
  <2>2. CASE t = 0
    BY <2>1, <2>2 DEF contactabilityScore
  <2>3. CASE t # 0
    <3>1. Share(m, t) \in 0..180
      BY <2>3, SharesAreInUnits
    <3>. QED  BY <2>1, <2>3, <3>1 DEF contactabilityScore
  <2>. QED  BY <2>2, <2>3
<1>4. timingScore(date, now) \in 0..180
  <2>1. CASE date = NoDate \/ date < now
    BY <2>1 DEF timingScore
  <2>2. CASE ~(date = NoDate \/ date < now)
    <3>1. date - now \in Nat
      BY <2>2
    <3>2. PICK s \in 0..180 : s = Share(date - now, TimingWindow)
      <4>1. TimingWindow \in Nat \ {0}
        BY DEF TimingWindow, Day
      <4>2. Share(date - now, TimingWindow) \in 0..180
        BY <3>1, <4>1, SharesAreInUnits
      <4>. QED  BY <4>2
    <3>3. timingScore(date, now) = Within(0, 180 - s, 180)
      BY <2>2, <3>2 DEF timingScore, Unit
    <3>. QED  BY <3>3 DEF Within
  <2>. QED  BY <2>1, <2>2
<1>5. geoPriority(p.country, p.city) \in 0..180
  BY NbaAssumption DEF NbaAssumption, geoPriority, Unit
<1>6. evidenceScore(p.evidence) \in 0..180
  <2>1. PICK m \in Nat : m = p.evidence
    BY <1>1
  <2>2. Share(m, 5) \in 0..180
    <3>1. 5 \in Nat \ {0}
      OBVIOUS
    <3>. QED  BY <3>1, SharesAreInUnits
  <2>. QED  BY <2>1, <2>2 DEF evidenceScore, EvidenceSaturation
<1>. QED  BY <1>1, <1>2, <1>3, <1>4, <1>5, <1>6, SignalsAreInUnits

\* A part that counts for w of the whole adds at most that.
LEMMA PartsOfTheWhole ==
  ASSUME NEW r \in 0..180, NEW w \in Nat
  PROVE  r * w \in Nat /\ r * w <= 180 * w
<1>1. r \in Nat /\ r <= 180
  OBVIOUS
<1>. QED  BY <1>1

LEMMA ScoresAreInRange ==
  ASSUME NEW p \in ProfileType, NEW date \in Nat \cup {NoDate}, NEW now \in Nat
  PROVE  computeOpportunityScore(p, date, now) \in 0..(Unit * TotalWeight)
<1>1. PICK a, b, c, d, e, f \in 0..180 :
        /\ a = fitScore(p.matched, p.criteria) /\ b = signalScore(p.signals)
        /\ c = contactabilityScore(p.sendable, p.points) /\ d = timingScore(date, now)
        /\ e = geoPriority(p.country, p.city) /\ f = evidenceScore(p.evidence)
  <2>1. /\ fitScore(p.matched, p.criteria) \in 0..180
        /\ signalScore(p.signals) \in 0..180
        /\ contactabilityScore(p.sendable, p.points) \in 0..180
        /\ timingScore(date, now) \in 0..180
        /\ geoPriority(p.country, p.city) \in 0..180
        /\ evidenceScore(p.evidence) \in 0..180
    BY PartsAreInUnits
  <2>. QED  BY <2>1, Zenon
<1>2. PICK A, B, C, D, E, F \in Nat :
        /\ A = Weights.FIT /\ B = Weights.SIGNAL /\ C = Weights.CONTACTABILITY
        /\ D = Weights.TIMING /\ E = Weights.GEO_PRIORITY /\ F = Weights.EVIDENCE
  <2>1. \A x \in ScoreComponents : Weights[x] \in Nat
    BY NbaAssumption DEF NbaAssumption
  <2>. QED  BY <2>1 DEF ScoreComponents
<1>3. computeOpportunityScore(p, date, now) = a * A + b * B + c * C + d * D + e * E + f * F
  BY <1>1, <1>2 DEF computeOpportunityScore, Combine
<1>4. TotalWeight = A + B + C + D + E + F
  BY <1>2 DEF TotalWeight
<1>5. PICK aA, bB, cC, dD, eE, fF \in Nat :
        /\ aA = a * A /\ bB = b * B /\ cC = c * C /\ dD = d * D /\ eE = e * E /\ fF = f * F
        /\ aA <= 180 * A /\ bB <= 180 * B /\ cC <= 180 * C /\ dD <= 180 * D
        /\ eE <= 180 * E /\ fF <= 180 * F
  BY PartsOfTheWhole
<1>6. aA + bB + cC + dD + eE + fF \in 0..(180 * (A + B + C + D + E + F))
  <2>1. /\ aA <= 180 * A /\ bB <= 180 * B /\ cC <= 180 * C /\ dD <= 180 * D
        /\ eE <= 180 * E /\ fF <= 180 * F
    BY <1>5
  <2>. QED  BY <2>1
<1>. QED  BY <1>3, <1>4, <1>5, <1>6 DEF Unit

\* The stored score is one.
ScoreInv == score \in {NoScore} \cup 0..(Unit * TotalWeight)

LEMMA ScoreStep == NbaInv /\ ScoreInv /\ [NbaNext]_nbaVars => ScoreInv'
<1> SUFFICES ASSUME NbaInv, ScoreInv, [NbaNext]_nbaVars
             PROVE  ScoreInv'
  OBVIOUS
<1>1. CASE Score
  <2>1. profile \in ProfileType /\ nbaClock \in Nat
    BY NbaAssumption DEF NbaAssumption, NbaInv
  <2>2. PICK date \in Nat \cup {NoDate} :
          date = IF decision = Undecided THEN NoDate ELSE decision.nextActionAt
    BY DEF NbaInv, Sound
  <2>3. score' = computeOpportunityScore(profile, date, nbaClock)
    BY <1>1, <2>2 DEF Score
  <2>. QED  BY <2>1, <2>3, ScoresAreInRange DEF ScoreInv
<1>2. CASE TimePasses \/ Learn \/ ReplyMoves \/ Decide \/ UNCHANGED nbaVars
  BY <1>2 DEF TimePasses, Learn, ReplyMoves, Decide, nbaVars, ScoreInv
<1>. QED  BY <1>1, <1>2 DEF NbaNext

LEMMA NbaInvariant == NbaSpec => [](NbaInv /\ ScoreInv)
<1>1. NbaInit => ScoreInv
  BY DEF NbaInit, ScoreInv
<1>. QED  BY <1>1, NbaStart, NbaStep, ScoreStep, PTL DEF NbaSpec

-----------------------------------------------------------------------------
(* What the agent answers.                                                  *)

\* The intent is the first pattern that the message matches.
LEMMA FirstPattern ==
  ASSUME NEW m
  PROVE  \/ classifyIntent(m) = "UNKNOWN" /\ \A i \in 1..7 : PATTERNS[i] \notin m
         \/ \E i \in 1..7 : /\ classifyIntent(m) = PATTERNS[i] /\ PATTERNS[i] \in m
                            /\ \A j \in 1..(i - 1) : PATTERNS[j] \notin m
<1>1. DOMAIN PATTERNS = 1..7
  BY DEF PATTERNS
<1> DEFINE S == {i \in 1..7 : PATTERNS[i] \in m}
           First(i) == PATTERNS[i] \in m /\ \A j \in 1..(i - 1) : PATTERNS[j] \notin m
<1>2. CASE S = {}
  BY <1>1, <1>2 DEF classifyIntent
<1>3. CASE S # {}
  <2>1. S \in SUBSET Nat
    OBVIOUS
  <2> DEFINE k == Min(S)
  <2>2. k \in S /\ \A y \in S : k <= y
    BY <1>3, <2>1, MinIsLeast
  <2>. HIDE DEF k
  <2>3. k \in 1..7 /\ First(k)
    <3>1. k \in 1..7 /\ PATTERNS[k] \in m
      BY <2>2
    <3>2. ASSUME NEW j \in 1..(k - 1), PATTERNS[j] \in m PROVE FALSE
      <4>1. j \in 1..7 /\ j < k
        BY <3>1
      <4>2. j \in S
        BY <3>2, <4>1
      <4>. QED  BY <2>2, <3>1, <4>1, <4>2
    <3>. QED  BY <3>1, <3>2
  <2> DEFINE c == CHOOSE i \in DOMAIN PATTERNS : First(i)
  <2>4. c \in 1..7 /\ First(c)
    BY <1>1, <2>3
  <2>5. classifyIntent(m) = PATTERNS[c]
    BY <1>1, <2>3 DEF classifyIntent
  <2>. HIDE DEF c
  <2>. QED  BY <2>4, <2>5
<1>. QED  BY <1>2, <1>3

\* What an intent says of the message.
Intended(m, intent) ==
  /\ intent \in {"OPT_OUT", "HOSTILE", "DISCOUNT_REQUEST", "COMMITMENT_REQUEST",
                 "COMMERCIAL_TERMS_REQUEST", "PRICE_INQUIRY", "PRODUCT_QUESTION", "UNKNOWN"}
  /\ intent = "OPT_OUT" <=> "OPT_OUT" \in m
  /\ intent = "HOSTILE" <=> "OPT_OUT" \notin m /\ "HOSTILE" \in m
  /\ intent \notin {"OPT_OUT", "HOSTILE"} =>
       /\ intent = "DISCOUNT_REQUEST" <=> "DISCOUNT_REQUEST" \in m
       /\ intent = "COMMITMENT_REQUEST" <=>
            "DISCOUNT_REQUEST" \notin m /\ "COMMITMENT_REQUEST" \in m
       /\ intent = "COMMERCIAL_TERMS_REQUEST" <=>
            /\ "DISCOUNT_REQUEST" \notin m /\ "COMMITMENT_REQUEST" \notin m
            /\ "COMMERCIAL_TERMS_REQUEST" \in m
  /\ intent = "PRICE_INQUIRY" => "PRICE_INQUIRY" \in m

LEMMA IntentTells == \A m : Intended(m, classifyIntent(m))
<1>. SUFFICES ASSUME NEW m, NEW intent, intent = classifyIntent(m) PROVE Intended(m, intent)
  OBVIOUS
<1>1. /\ PATTERNS[1] = "OPT_OUT" /\ PATTERNS[2] = "HOSTILE" /\ PATTERNS[3] = "DISCOUNT_REQUEST"
      /\ PATTERNS[4] = "COMMITMENT_REQUEST" /\ PATTERNS[5] = "COMMERCIAL_TERMS_REQUEST"
      /\ PATTERNS[6] = "PRICE_INQUIRY" /\ PATTERNS[7] = "PRODUCT_QUESTION"
  BY DEF PATTERNS
<1>2. ASSUME NEW i \in 1..7, intent = PATTERNS[i], PATTERNS[i] \in m,
             \A j \in 1..(i - 1) : PATTERNS[j] \notin m
      PROVE  /\ i >= 2 => "OPT_OUT" \notin m
             /\ i >= 3 => "HOSTILE" \notin m
             /\ i >= 4 => "DISCOUNT_REQUEST" \notin m
             /\ i >= 5 => "COMMITMENT_REQUEST" \notin m
             /\ i >= 6 => "COMMERCIAL_TERMS_REQUEST" \notin m
  BY <1>1, <1>2
<1>3. ASSUME NEW i \in 1..7, intent = PATTERNS[i], PATTERNS[i] \in m,
             \A j \in 1..(i - 1) : PATTERNS[j] \notin m
      PROVE  /\ i = 1 => intent = "OPT_OUT"
             /\ i = 2 => intent = "HOSTILE"
             /\ i = 3 => intent = "DISCOUNT_REQUEST"
             /\ i = 4 => intent = "COMMITMENT_REQUEST"
             /\ i = 5 => intent = "COMMERCIAL_TERMS_REQUEST"
             /\ i = 6 => intent = "PRICE_INQUIRY"
             /\ i = 7 => intent = "PRODUCT_QUESTION"
  BY <1>1, <1>3
<1>4. ASSUME NEW i \in 1..7, intent = PATTERNS[i], PATTERNS[i] \in m,
             \A j \in 1..(i - 1) : PATTERNS[j] \notin m
      PROVE  Intended(m, intent)
  <2>1. i = 1 \/ i = 2 \/ i = 3 \/ i = 4 \/ i = 5 \/ i = 6 \/ i = 7
    OBVIOUS
  <2>2. intent \in m
    BY <1>4
  <2>. QED  BY <2>1, <2>2, <1>2, <1>3, <1>4 DEF Intended
<1>5. CASE intent = "UNKNOWN" /\ \A i \in 1..7 : PATTERNS[i] \notin m
  BY <1>1, <1>5 DEF Intended
<1>. QED  BY <1>4, <1>5, FirstPattern

\* What a turn that answered must be.
Backed(t) ==
  LET requests == t.message \cap DOMAIN ApprovalFor
      ending == t.message \cap {"OPT_OUT", "HOSTILE"} IN
  /\ ending # {} =>
       /\ t.action = "SUPPRESS" /\ t.reply = NoReply /\ t.draft = "none"
       /\ t.stop = IF "OPT_OUT" \in ending THEN "OPT_OUT" ELSE "RISK"
  /\ ending = {} /\ requests # {} =>
       /\ t.action = "ESCALATE" /\ t.reply.says = {} /\ t.reply.safe
       /\ t.draft \in {ApprovalFor[r] : r \in requests}
       /\ t.draft = "CHANGE_COMMERCIAL_TERMS" => "COMMITMENT_REQUEST" \notin requests
  /\ ending = {} /\ requests = {} =>
       t.action = "REPLY" /\ t.draft = "none" /\ t.stop = "none"
  /\ "PRICE" \in t.reply.says =>
       /\ "PRICE_INQUIRY" \in t.message /\ t.book # NoBook
       /\ t.book.status = "ACTIVE" /\ t.at >= t.book.from
       /\ t.book.to = NeverEnds \/ t.at < t.book.to
  /\ t.reply.says \ {"PRICE"} \subseteq t.facts

\* The requests that an approval is for.
LEMMA RequestKinds ==
  /\ DOMAIN ApprovalFor = {"DISCOUNT_REQUEST", "COMMERCIAL_TERMS_REQUEST", "COMMITMENT_REQUEST"}
  /\ ApprovalFor["DISCOUNT_REQUEST"] = "GRANT_DISCOUNT"
  /\ ApprovalFor["COMMERCIAL_TERMS_REQUEST"] = "CHANGE_COMMERCIAL_TERMS"
  /\ ApprovalFor["COMMITMENT_REQUEST"] = "BINDING_COMMITMENT"
BY DEF ApprovalFor

\* Whatever book its caller fetched, a message is answered by what is known.
LEMMA AnswersAreBacked ==
  ASSUME NEW m \in Messages, NEW b \in Books \cup {NoBook}, NEW named \in BOOLEAN,
         NEW told \in SUBSET Predicates, NEW now \in Nat,
         NEW t, t = handleInboundMessage(m, b, named, told, now)
  PROVE  /\ Backed(t) /\ t.message = m
         /\ t.action \in {"REPLY", "ESCALATE", "SUPPRESS"}
<1> DEFINE official == named /\ communicateOfficialPrice(b, now)
<1>1. PICK intent : intent = classifyIntent(m)
  OBVIOUS
<1>2. PICK meets : meets = detectMeetingIntent(m)
  OBVIOUS
<1>3. PICK base : base = [NoTurn EXCEPT !.message = m, !.intent = intent, !.at = now, !.facts = told,
                                         !.book = b, !.meeting = meets]
  OBVIOUS
<1>4. Intended(m, intent)
  BY <1>1, IntentTells
<1>5. base = [message |-> m, intent |-> intent, action |-> "none", meeting |-> meets,
              stop |-> "none", draft |-> "none", reply |-> NoReply, at |-> now,
              facts |-> told, book |-> b]
  BY <1>3 DEF NoTurn
<1>6. NoReply.says = {}
  BY DEF NoReply
<1>7. t = CASE intent = "OPT_OUT" -> [base EXCEPT !.action = "SUPPRESS", !.stop = "OPT_OUT"]
             [] intent = "HOSTILE" -> [base EXCEPT !.action = "SUPPRESS", !.stop = "RISK"]
             [] intent \in DOMAIN ApprovalFor ->
                  [base EXCEPT !.action = "ESCALATE", !.draft = ApprovalFor[intent],
                               !.reply = buildEscalationAcknowledgementReply]
             [] intent = "PRICE_INQUIRY" ->
                  [base EXCEPT !.action = "REPLY", !.reply = buildPriceReply(official, b)]
             [] OTHER -> [base EXCEPT !.action = "REPLY", !.reply = buildProductQuestionReply(told)]
  BY <1>1, <1>2, <1>3, Zenon DEF handleInboundMessage
<1>8. CASE intent \in {"OPT_OUT", "HOSTILE"}
  <2>1. \/ intent = "OPT_OUT" /\ t = [base EXCEPT !.action = "SUPPRESS", !.stop = "OPT_OUT"]
        \/ intent = "HOSTILE" /\ t = [base EXCEPT !.action = "SUPPRESS", !.stop = "RISK"]
    BY <1>8, <1>7, RequestKinds
  <2>2. /\ t.message = m /\ t.action = "SUPPRESS" /\ t.reply = NoReply /\ t.draft = "none"
        /\ t.stop = IF intent = "OPT_OUT" THEN "OPT_OUT" ELSE "RISK"
    BY <1>5, <2>1
  <2>. QED  BY <1>4, <1>6, <1>8, <2>2 DEF Backed, Intended
<1>9. CASE intent \in DOMAIN ApprovalFor
  <2>1. t = [base EXCEPT !.action = "ESCALATE", !.draft = ApprovalFor[intent],
                         !.reply = buildEscalationAcknowledgementReply]
    BY <1>9, <1>7, RequestKinds
  <2>2. /\ buildEscalationAcknowledgementReply.says = {}
        /\ buildEscalationAcknowledgementReply.safe
    BY DEF buildEscalationAcknowledgementReply, buildReply
  <2>3. /\ t.message = m /\ t.action = "ESCALATE" /\ t.draft = ApprovalFor[intent]
        /\ t.reply = buildEscalationAcknowledgementReply
    BY <1>5, <2>1
  <2>4. m \cap {"OPT_OUT", "HOSTILE"} = {} /\ intent \in m
    BY <1>4, <1>9, RequestKinds DEF Intended
  <2>5. t.draft = "CHANGE_COMMERCIAL_TERMS" => "COMMITMENT_REQUEST" \notin m
    BY <1>4, <1>9, <2>3, RequestKinds DEF Intended
  <2>. QED  BY <1>9, <2>2, <2>3, <2>4, <2>5 DEF Backed
<1>10. CASE intent = "PRICE_INQUIRY"
  <2>1. t = [base EXCEPT !.action = "REPLY", !.reply = buildPriceReply(official, b)]
    BY <1>10, <1>7, RequestKinds
  <2>2. /\ buildPriceReply(official, b).says \subseteq {"PRICE"}
        /\ "PRICE" \in buildPriceReply(official, b).says => official
    BY DEF buildPriceReply, buildReply
  <2>3. /\ t.message = m /\ t.action = "REPLY" /\ t.draft = "none" /\ t.stop = "none"
        /\ t.reply = buildPriceReply(official, b) /\ t.at = now /\ t.book = b
    BY <1>5, <2>1
  <2>4. official => /\ b # NoBook /\ b.status = "ACTIVE" /\ now >= b.from
                    /\ b.to = NeverEnds \/ now < b.to
    <3>1. ASSUME b # NoBook PROVE b.from \in Nat
      BY <3>1, TalkAssumption DEF TalkAssumption
    <3>. QED  BY <3>1 DEF communicateOfficialPrice
  <2>5. m \cap {"OPT_OUT", "HOSTILE"} = {} /\ m \cap DOMAIN ApprovalFor = {} /\ "PRICE_INQUIRY" \in m
    BY <1>4, <1>10, RequestKinds DEF Intended
  <2>. QED  BY <2>2, <2>3, <2>4, <2>5 DEF Backed
<1>11. CASE intent \in {"PRODUCT_QUESTION", "UNKNOWN"}
  <2>1. t = [base EXCEPT !.action = "REPLY", !.reply = buildProductQuestionReply(told)]
    BY <1>11, <1>7, RequestKinds
  <2>2. buildProductQuestionReply(told).says = told
    BY DEF buildProductQuestionReply, buildReply
  <2>3. /\ t.message = m /\ t.action = "REPLY" /\ t.draft = "none" /\ t.stop = "none"
        /\ t.reply = buildProductQuestionReply(told) /\ t.facts = told
    BY <1>5, <2>1
  <2>4. m \cap {"OPT_OUT", "HOSTILE"} = {} /\ m \cap DOMAIN ApprovalFor = {}
    BY <1>4, <1>11, RequestKinds DEF Intended
  <2>5. "PRICE" \notin told
    BY TalkAssumption DEF TalkAssumption
  <2>. QED  BY <2>2, <2>3, <2>4, <2>5 DEF Backed
<1>. QED  BY <1>4, <1>8, <1>9, <1>10, <1>11, RequestKinds DEF Intended

TalkInv == TalkTypeOK /\ (turn.action # "none" => Backed(turn))

LEMMA TalkStart == TalkInit => TalkInv
<1>. SUFFICES ASSUME TalkInit PROVE TalkInv
  OBVIOUS
<1>1. NoTurn.message = {} /\ NoTurn.action = "none"
  BY DEF NoTurn
<1>2. talkClock \in 0..MaxTalkClock
  BY TalkAssumption DEF TalkAssumption, TalkInit
<1>. QED  BY <1>1, <1>2 DEF TalkInit, TalkInv, TalkTypeOK

LEMMA TalkStep == TalkInv /\ [TalkNext]_talkVars => TalkInv'
<1>. SUFFICES ASSUME TalkInv, [TalkNext]_talkVars PROVE TalkInv'
  OBVIOUS
<1>. MaxTalkClock \in Nat /\ talkClock \in Nat
  BY TalkAssumption DEF TalkAssumption, TalkInv, TalkTypeOK
<1>1. CASE TalkClockTicks
  BY <1>1 DEF TalkClockTicks, TalkInv, TalkTypeOK
<1>2. CASE PublishBook
  BY <1>2 DEF PublishBook, TalkInv, TalkTypeOK
<1>3. CASE FetchBook
  BY <1>3 DEF FetchBook, TalkInv, TalkTypeOK
<1>4. CASE Inbound
  <2>1. PICK message \in Messages, named \in BOOLEAN, told \in SUBSET Predicates :
          turn' = handleInboundMessage(message, fetched, named, told, talkClock)
    BY <1>4 DEF Inbound
  <2>2. /\ Backed(turn') /\ turn'.message = message
        /\ turn'.action \in {"REPLY", "ESCALATE", "SUPPRESS"}
    BY <2>1, AnswersAreBacked DEF TalkInv, TalkTypeOK
  <2>3. message \subseteq Patterns
    BY TalkAssumption DEF TalkAssumption
  <2>. QED  BY <1>4, <2>2, <2>3 DEF Inbound, TalkInv, TalkTypeOK
<1>5. CASE UNCHANGED talkVars
  BY <1>5 DEF talkVars, TalkInv, TalkTypeOK
<1>. QED  BY <1>1, <1>2, <1>3, <1>4, <1>5 DEF TalkNext

\* For any messages, price books and facts: who opts out or threatens is not answered,
\* who asks for terms is handed to a person, a price is told only from a book that was
\* active and in its window, and nothing is told of a company that was not in the facts.
THEOREM RepliesHold == TalkSpec => []RepliesAreBacked
<1>1. TalkInv => RepliesAreBacked
  BY DEF TalkInv, Backed, RepliesAreBacked
<1>. QED  BY <1>1, TalkStart, TalkStep, PTL DEF TalkSpec

-----------------------------------------------------------------------------
(* Facts and what they are collapsed from.                                  *)

\* Shares in 1/10000 and in hundredths.
Whole == 0..10000
Percent == 0..100

\* A piece of evidence as it is kept; what no source deserves is certainty.
Reliabilities == {40, 45, 55, 65, 75, 85, 95}
EvidenceType ==
  [subject : Subjects, claim : Claims, value : Values, source : DOMAIN EvidenceSources,
   confidence : Reliabilities, freshnessAt : [at : Nat, zone : Int], status : {"ACTIVE", "STALE"}]

\* What is left in doubt of a share is not more than there was, and not more than that
\* piece of evidence alone would leave.
LEMMA ShareIsLess ==
  \A v \in Whole, w \in Percent :
    /\ v \in Nat /\ v <= 10000 /\ w \in Nat /\ w <= 100
    /\ (v * w) \div 100 \in Whole
    /\ (v * w) \div 100 <= v
    /\ (v * w) \div 100 <= 100 * w
    /\ 100 - w \in Percent /\ 100 * w \in Nat
<1> SUFFICES ASSUME NEW v \in Whole, NEW w \in Percent
             PROVE  /\ v \in Nat /\ v <= 10000 /\ w \in Nat /\ w <= 100
                    /\ (v * w) \div 100 \in Whole
                    /\ (v * w) \div 100 <= v
                    /\ (v * w) \div 100 <= 100 * w
                    /\ 100 - w \in Percent /\ 100 * w \in Nat
  OBVIOUS
<1>1. v \in 0..10000 /\ w \in 0..100
  BY DEF Whole, Percent
<1>. v \in Nat /\ v <= 10000 /\ w \in Nat /\ w <= 100
  BY <1>1
<1>2. v * w \in Nat
  OBVIOUS
<1>3. v * w <= v * 100
  OBVIOUS
<1>4. v * w <= 10000 * w
  OBVIOUS
<1> DEFINE p == v * w
<1>5. p \in Nat /\ p <= 100 * v /\ p <= 10000 * w
  BY <1>2, <1>3, <1>4
<1> HIDE DEF p
<1>6. /\ p \div 100 \in Nat /\ p \div 100 <= v /\ p \div 100 <= 100 * w
  BY <1>5
<1>7. 100 - w \in 0..100 /\ 100 * w \in Nat
  OBVIOUS
<1>8. \A q : q \in Nat /\ q <= v => q \in 0..10000
  OBVIOUS
<1>. QED  BY <1>6, <1>7, <1>8 DEF p, Whole, Percent

\* What is left in doubt after each of n pieces of evidence, of which items count.
IsDoubt(n, rest, items, g) ==
  g = [i \in 0..n |-> IF i = 0 THEN 10000
                      ELSE IF i \in items THEN (g[i - 1] * rest[i]) \div 100 ELSE g[i - 1]]

LEMMA AllInDoubt == 10000 \in Whole
BY DEF Whole

LEMMA WholeIsNat == \A v \in Whole : v \in Nat /\ v <= 10000 /\ v \in 0..10000
BY DEF Whole

LEMMA SomeDoubt ==
  ASSUME NEW n \in Nat, NEW rest \in [1..n -> Percent], NEW items
  PROVE  \E g \in [0..n -> Whole] : IsDoubt(n, rest, items, g)
<1>1. PICK F : F = [p \in (1..n) \X (Whole) |->
                      IF p[1] \in items THEN (p[2] * rest[p[1]]) \div 100 ELSE p[2]]
  OBVIOUS
<1>2. \A i \in 1..n : \A v \in Whole :
        F[<<i, v>>] = IF i \in items THEN (v * rest[i]) \div 100 ELSE v
  BY <1>1
<1>3. F \in [(1..n) \X (Whole) -> Whole]
  <2>1. \A i \in 1..n : \A v \in Whole : (v * rest[i]) \div 100 \in Whole
    BY ShareIsLess
  <2>2. \A i \in 1..n : \A v \in Whole : F[<<i, v>>] \in Whole
    BY <1>2, <2>1
  <2>. QED  BY <1>1, <2>2
<1>4. PICK all \in Whole : all = 10000
  BY AllInDoubt
<1>5. PICK g : Steps(n, Whole, all, F, g)
  BY <1>3, StepByStep
<1>6. g \in [0..n -> Whole] /\ g[0] = all /\ \A i \in 1..n : g[i] = F[<<i, g[i - 1]>>]
  BY <1>5 DEF Steps
<1>7. \A i \in 0..n : g[i] = IF i = 0 THEN 10000
          ELSE IF i \in items THEN (g[i - 1] * rest[i]) \div 100 ELSE g[i - 1]
  <2> SUFFICES ASSUME NEW i \in 0..n, i # 0
               PROVE  g[i] = IF i \in items THEN (g[i - 1] * rest[i]) \div 100 ELSE g[i - 1]
    BY <1>6, <1>4
  <2>1. i \in 1..n /\ i - 1 \in 0..n
    OBVIOUS
  <2>2. g[i - 1] \in Whole /\ g[i] = F[<<i, g[i - 1]>>]
    BY <1>6, <2>1
  <2>. QED  BY <1>2, <2>1, <2>2
<1>8. g = [i \in 0..n |-> g[i]]
  BY <1>6
<1>. QED  BY <1>6, <1>7, <1>8 DEF IsDoubt

\* All it can be.
LEMMA OneDoubt ==
  ASSUME NEW n \in Nat, NEW rest, NEW items, NEW g, NEW h,
         IsDoubt(n, rest, items, g), IsDoubt(n, rest, items, h)
  PROVE  g[n] = h[n]
<1> DEFINE K == {i \in 0..n : g[i] # h[i]}
<1>1. K = {}
  <2> SUFFICES ASSUME K # {}
               PROVE  FALSE
    OBVIOUS
  <2>1. K \in SUBSET Nat
    OBVIOUS
  <2> DEFINE k == Min(K)
  <2>2. k \in K /\ \A l \in K : k <= l
    BY <2>1, MinIsLeast
  <2> HIDE DEF k
  <2>3. k \in 0..n /\ g[k] # h[k]
    BY <2>2
  <2>4. k # 0
    BY <2>3 DEF IsDoubt
  <2>5. k - 1 \in 0..n /\ ~(k <= k - 1)
    BY <2>3, <2>4
  <2>6. g[k - 1] = h[k - 1]
    BY <2>2, <2>5
  <2>7. /\ g[k] = IF k \in items THEN (g[k - 1] * rest[k]) \div 100 ELSE g[k - 1]
        /\ h[k] = IF k \in items THEN (h[k - 1] * rest[k]) \div 100 ELSE h[k - 1]
    BY <2>3, <2>4 DEF IsDoubt
  <2>. QED  BY <2>3, <2>6, <2>7
<1>. QED  BY <1>1

LEMMA DoubtShrinks ==
  ASSUME NEW n \in Nat, NEW rest \in [1..n -> Percent], NEW items \in SUBSET (1..n),
         NEW g \in [0..n -> Whole], IsDoubt(n, rest, items, g)
  PROVE  \A j \in items : g[n] <= 100 * rest[j]
<1>1. \A i \in 1..n : /\ i - 1 \in 0..n /\ i \in 0..n
                      /\ g[i] = IF i \in items THEN (g[i - 1] * rest[i]) \div 100 ELSE g[i - 1]
  BY DEF IsDoubt
<1>2. \A i \in 1..n : g[i] <= g[i - 1] /\ (i \in items => g[i] <= 100 * rest[i])
  <2> SUFFICES ASSUME NEW i \in 1..n
               PROVE  g[i] <= g[i - 1] /\ (i \in items => g[i] <= 100 * rest[i])
    OBVIOUS
  <2>1. g[i - 1] \in Whole /\ rest[i] \in Percent
    BY <1>1
  <2>2. CASE i \in items
    <3>1. /\ (g[i - 1] * rest[i]) \div 100 <= g[i - 1]
          /\ (g[i - 1] * rest[i]) \div 100 <= 100 * rest[i]
      BY <2>1, ShareIsLess
    <3>. QED  BY <1>1, <2>2, <3>1
  <2>3. CASE i \notin items
    <3>1. g[i] = g[i - 1] /\ g[i - 1] \in Nat
      BY <1>1, <2>1, <2>3, WholeIsNat
    <3>. QED  BY <2>3, <3>1
  <2>. QED  BY <2>2, <2>3
<1>3. g \in [0..n -> Nat]
  <2>1. \A i \in 0..n : g[i] \in Whole
    OBVIOUS
  <2>2. \A i \in 0..n : g[i] \in Nat
    BY <2>1, WholeIsNat
  <2>. QED  BY <2>2
<1>4. \A i, j \in 0..n : i <= j => g[j] <= g[i]
  BY <1>2, <1>3, NeverMore
<1> SUFFICES ASSUME NEW j \in items
             PROVE  g[n] <= 100 * rest[j]
  OBVIOUS
<1>5. j \in 0..n /\ n \in 0..n /\ j <= n /\ rest[j] \in Percent
  OBVIOUS
<1>6. g[n] <= g[j] /\ g[j] <= 100 * rest[j] /\ g[n] \in Whole /\ g[j] \in Whole
  BY <1>2, <1>4, <1>5
<1>7. 100 * rest[j] \in Nat
  BY <1>5, AllInDoubt, ShareIsLess
<1>. QED  BY <1>6, <1>7, WholeIsNat

\* What evidence leaves in doubt is not more than each piece leaves alone.
LEMMA DoubtIsLess ==
  ASSUME evidence \in Seq(EvidenceType), NEW items \in SUBSET (DOMAIN evidence)
  PROVE  /\ Doubt(items) \in Whole
         /\ \A j \in items : Doubt(items) <= 100 * (100 - evidence[j].confidence)
<1> DEFINE Equation(g) ==
             g = [i \in 0..Len(evidence) |->
                    IF i = 0 THEN 10000
                    ELSE IF i \in items THEN (g[i - 1] * (100 - evidence[i].confidence)) \div 100
                    ELSE g[i - 1]]
           left == CHOOSE g : Equation(g)
<1>1. Doubt(items) = left[Len(evidence)]
  BY Zenon DEF Doubt
<1>2. PICK n \in Nat : n = Len(evidence)
  BY LenProperties
<1>3. PICK rest : rest = [i \in 1..n |-> 100 - evidence[i].confidence]
  OBVIOUS
<1>4. DOMAIN evidence = 1..n
  BY <1>2, LenProperties
<1>5. rest \in [1..n -> Percent]
  <2>1. \A i \in 1..n : evidence[i].confidence \in Percent
    <3>1. \A i \in 1..n : evidence[i] \in EvidenceType
      BY <1>2, ElementOfSeq
    <3>2. Reliabilities \subseteq Percent
      BY DEF Reliabilities, Percent
    <3>. QED  BY <3>1, <3>2 DEF EvidenceType
  <2>2. \A i \in 1..n : 100 - evidence[i].confidence \in Percent
    BY <2>1, AllInDoubt, ShareIsLess
  <2>. QED  BY <1>3, <2>2
<1>6. PICK g \in [0..n -> Whole] : IsDoubt(n, rest, items, g)
  BY <1>5, SomeDoubt
<1>7. \A h : Equation(h) <=> IsDoubt(n, rest, items, h)
  <2> SUFFICES ASSUME NEW h
               PROVE  Equation(h) <=> IsDoubt(n, rest, items, h)
    OBVIOUS
  <2>1. \A i \in items : rest[i] = 100 - evidence[i].confidence
    BY <1>3, <1>4
  <2>. QED  BY <1>2, <2>1 DEF IsDoubt
<1>. HIDE DEF Equation
<1>8. Equation(left)
  BY <1>6, <1>7
<1>. HIDE DEF left
<1>9. left[n] = g[n]
  BY <1>6, <1>7, <1>8, OneDoubt
<1>10. \A j \in items : g[n] <= 100 * rest[j]
  BY <1>4, <1>5, <1>6, DoubtShrinks
<1>11. \A j \in items : rest[j] = 100 - evidence[j].confidence
  BY <1>3, <1>4
<1>12. g[n] \in Whole
  <2>1. n \in 0..n
    OBVIOUS
  <2>. QED  BY <1>6, <2>1
<1>. QED  BY <1>1, <1>2, <1>9, <1>10, <1>11, <1>12

\* The evidence of a subgroup says the same of the same.
LEMMA SubgroupFacts ==
  ASSUME evidence \in Seq(EvidenceType), NEW i \in ActiveEvidence
  PROVE  /\ i \in SubgroupOf(i) /\ SubgroupOf(i) \subseteq GroupOf(i)
         /\ GroupOf(i) \subseteq ActiveEvidence
         /\ ActiveEvidence \subseteq DOMAIN evidence
         /\ ActiveEvidence \in SUBSET Nat
         /\ \A j \in ActiveEvidence : evidence[j] \in EvidenceType
         /\ \A j \in GroupOf(i) : /\ evidence[j].subject = evidence[i].subject
                                  /\ evidence[j].claim = evidence[i].claim
                                  /\ GroupOf(j) = GroupOf(i)
                                  /\ j \in SubgroupOf(i) <=> evidence[j].value = evidence[i].value
         /\ \A j \in SubgroupOf(i) : SubgroupOf(j) = SubgroupOf(i)
<1>1. DOMAIN evidence = 1..Len(evidence) /\ Len(evidence) \in Nat
  BY LenProperties
<1>2. \A j \in DOMAIN evidence : evidence[j] \in EvidenceType
  BY <1>1, ElementOfSeq
<1>3. ActiveEvidence \subseteq DOMAIN evidence
  BY DEF ActiveEvidence
<1>4. ActiveEvidence \in SUBSET Nat
  BY <1>1, <1>3
<1>5. \A j : j \in GroupOf(i) <=> /\ j \in ActiveEvidence
                                  /\ evidence[j].subject = evidence[i].subject
                                  /\ evidence[j].claim = evidence[i].claim
  BY DEF GroupOf, groupKey
<1>6. \A j \in GroupOf(i) : GroupOf(j) = GroupOf(i)
  BY DEF GroupOf
<1>7. \A j : j \in SubgroupOf(i) <=> j \in GroupOf(i) /\ evidence[j].value = evidence[i].value
  BY DEF SubgroupOf
<1>8. \A j \in SubgroupOf(i) : SubgroupOf(j) = SubgroupOf(i)
  BY <1>6, <1>7 DEF SubgroupOf
<1>9. i \in GroupOf(i)
  BY DEF GroupOf
<1>10. i \in SubgroupOf(i)
  BY <1>7, <1>9
<1>. QED  BY <1>2, <1>3, <1>4, <1>5, <1>6, <1>7, <1>8, <1>10

\* What a fact deserves that another contradicts.
Contested == 0..6000

\* What is combined is at least what each piece deserves, and never certain.
LEMMA CombinedIsMore ==
  ASSUME evidence \in Seq(EvidenceType)
  PROVE  \A items \in SUBSET (DOMAIN evidence) :
           /\ combineConfidence(items) \in Shares
           /\ \A j \in items : combineConfidence(items) >= evidence[j].confidence * 100
<1> SUFFICES ASSUME NEW items \in SUBSET (DOMAIN evidence)
             PROVE  /\ combineConfidence(items) \in Shares
                    /\ \A j \in items : combineConfidence(items) >= evidence[j].confidence * 100
  OBVIOUS
<1>1. PICK d \in Whole : d = Doubt(items)
  BY DoubtIsLess
<1>2. d \in Nat /\ d <= 10000
  BY <1>1, WholeIsNat
<1>3. combineConfidence(items) = IF 10000 - d > 9900 THEN 9900 ELSE 10000 - d
  BY <1>1 DEF combineConfidence
<1>4. \A j \in items : evidence[j].confidence \in Reliabilities
  <2>1. \A j \in DOMAIN evidence : evidence[j] \in EvidenceType
    BY LenProperties, ElementOfSeq
  <2>. QED  BY <2>1 DEF EvidenceType
<1>5. ASSUME NEW j \in items
      PROVE  combineConfidence(items) >= evidence[j].confidence * 100
  <2>1. PICK c : c = evidence[j].confidence
    OBVIOUS
  <2>2. c \in Nat /\ c <= 95
    BY <1>4, <2>1 DEF Reliabilities
  <2>3. d <= 100 * (100 - c)
    BY <1>1, <2>1, DoubtIsLess
  <2>. QED  BY <1>2, <1>3, <2>1, <2>2, <2>3
<1>. QED  BY <1>2, <1>3, <1>5 DEF Shares

LEMMA SixtyPercent ==
  \A raw \in Shares : (raw * 60) \div 100 \in Shares /\ (raw * 60) \div 100 \in Contested
BY DEF Shares, Contested

\* A fact of the evidence of its subgroup.
LEMMA FactSays ==
  ASSUME evidence \in Seq(EvidenceType), NEW i \in ActiveEvidence, NEW f, f = FactOf(i)
  PROVE  /\ f.subject = evidence[i].subject /\ f.predicate = evidence[i].claim
         /\ f.value = evidence[i].value /\ f.support = SubgroupOf(i)
         /\ f.confidence \in Shares
         /\ SubgroupOf(i) # GroupOf(i) => f.confidence \in Contested
         /\ SubgroupOf(i) = GroupOf(i) =>
              \A j \in SubgroupOf(i) : f.confidence >= evidence[j].confidence * 100
<1>1. PICK raw : raw = combineConfidence(SubgroupOf(i))
  OBVIOUS
<1>2. SubgroupOf(i) \in SUBSET (DOMAIN evidence)
  BY SubgroupFacts
<1>3. raw \in Shares /\ \A j \in SubgroupOf(i) : raw >= evidence[j].confidence * 100
  BY Zenon, <1>1, <1>2, CombinedIsMore
<1>4. /\ f.subject = evidence[i].subject /\ f.predicate = evidence[i].claim
      /\ f.value = evidence[i].value /\ f.support = SubgroupOf(i)
      /\ f.confidence = IF SubgroupOf(i) = GroupOf(i) THEN raw ELSE (raw * 60) \div 100
  BY <1>1 DEF FactOf
<1>5. f.confidence \in Shares
  BY Zenon, <1>3, <1>4, SixtyPercent
<1>6. SubgroupOf(i) # GroupOf(i) => f.confidence \in Contested
  <2>1. (raw * 60) \div 100 \in Contested
    BY Zenon, <1>3, SixtyPercent
  <2>. QED  BY Zenon, <1>4, <2>1
<1>7. SubgroupOf(i) = GroupOf(i) =>
        \A j \in SubgroupOf(i) : f.confidence >= evidence[j].confidence * 100
  BY <1>3, <1>4
<1>. QED  BY Zenon, <1>4, <1>5, <1>6, <1>7

\* The first of a subgroup.
FirstOf(k) == k \in ActiveEvidence /\ \A j \in SubgroupOf(k) : k <= j

LEMMA SomeIsFirst ==
  ASSUME evidence \in Seq(EvidenceType), NEW i \in ActiveEvidence
  PROVE  \E k \in SubgroupOf(i) : FirstOf(k)
<1>1. PICK S : S = SubgroupOf(i)
  OBVIOUS
<1>2. S \in SUBSET Nat /\ S # {}
  BY <1>1, SubgroupFacts
<1>3. PICK k \in S : \A j \in S : k <= j
  BY <1>2, MinIsLeast
<1>. QED  BY <1>1, <1>3, SubgroupFacts DEF FirstOf

LEMMA FirstIsOne ==
  ASSUME evidence \in Seq(EvidenceType), NEW k, NEW l, FirstOf(k), FirstOf(l),
         l \in SubgroupOf(k)
  PROVE  k = l
<1>1. k \in ActiveEvidence /\ l \in ActiveEvidence /\ k \in Nat /\ l \in Nat
  BY SubgroupFacts DEF FirstOf
<1>2. k \in SubgroupOf(l) /\ k <= l
  BY <1>1, SubgroupFacts DEF FirstOf
<1>3. l <= k
  BY <1>2 DEF FirstOf
<1>. QED  BY <1>1, <1>2, <1>3

LEMMA CollapsedFacts == \A f : f \in collapseToFacts <=> \E k : FirstOf(k) /\ f = FactOf(k)
BY DEF collapseToFacts, FirstOf

\* Active evidence supports a fact, that of the first of its subgroup.
LEMMA EvidenceCounts ==
  ASSUME evidence \in Seq(EvidenceType), NEW i \in ActiveEvidence
  PROVE  \E f \in collapseToFacts :
           /\ i \in f.support /\ f.value = evidence[i].value
           /\ <<f.subject, f.predicate>> = groupKey(evidence[i])
           /\ {g \in collapseToFacts : i \in g.support} = {f}
<1>1. PICK k \in SubgroupOf(i) : FirstOf(k)
  BY SomeIsFirst
<1>2. k \in ActiveEvidence /\ k \in GroupOf(i) /\ SubgroupOf(k) = SubgroupOf(i) /\ i \in SubgroupOf(i)
  BY <1>1, SubgroupFacts
<1>3. PICK f : f = FactOf(k)
  OBVIOUS
<1>4. f \in collapseToFacts
  BY <1>1, <1>3, CollapsedFacts
<1>5. /\ f.support = SubgroupOf(i) /\ f.value = evidence[i].value
      /\ f.subject = evidence[i].subject /\ f.predicate = evidence[i].claim
  BY <1>2, <1>1, <1>3, FactSays, SubgroupFacts
<1>6. ASSUME NEW g \in collapseToFacts, i \in g.support PROVE g = f
  <2>1. PICK l : FirstOf(l) /\ g = FactOf(l)
    BY CollapsedFacts
  <2>2. l \in ActiveEvidence
    BY <2>1 DEF FirstOf
  <2>3. i \in SubgroupOf(l)
    BY <1>6, <2>1, <2>2, FactSays
  <2>4. k \in SubgroupOf(l)
    BY <1>1, <2>2, <2>3, SubgroupFacts
  <2>5. k = l
    BY <1>1, <2>1, <2>4, FirstIsOne
  <2>. QED  BY <1>3, <2>1, <2>5
<1>7. {g \in collapseToFacts : i \in g.support} = {f}
  BY <1>2, <1>4, <1>5, <1>6
<1>. QED  BY <1>2, <1>4, <1>5, <1>7 DEF groupKey

-----------------------------------------------------------------------------
(* Collapsing.                                                              *)

\* CollapsesAreFaithful, of any facts.
Faithful(fs) ==
  /\ \A i \in DOMAIN evidence :
       Cardinality({f \in fs : i \in f.support}) = IF evidence[i].status = "ACTIVE" THEN 1 ELSE 0
  /\ \A f \in fs :
       /\ f.support # {}
       /\ \A i \in f.support :
            /\ evidence[i].subject = f.subject /\ evidence[i].claim = f.predicate
            /\ evidence[i].value = f.value
            /\ researchClock - evidence[i].freshnessAt.at <= EvidenceStaleAfter
  /\ \A f, g \in fs :
       f # g /\ f.subject = g.subject /\ f.predicate = g.predicate =>
         f.value # g.value /\ f.confidence <= 6000
  /\ \A f \in fs :
       (\A g \in fs : g # f => <<g.subject, g.predicate>> # <<f.subject, f.predicate>>) =>
         \A i \in f.support : f.confidence >= evidence[i].confidence * 100

\* Collapsing after what is too old was marked is faithful.
LEMMA CollapseIsFaithful ==
  ASSUME evidence \in Seq(EvidenceType), evidence = markStaleEvidence(researchClock),
         researchClock \in Nat
  PROVE  Faithful(collapseToFacts)
<1> DEFINE fs == collapseToFacts
<1> HIDE DEF fs
<1>1. \A f \in fs : \E k : FirstOf(k) /\ f = FactOf(k)
  BY CollapsedFacts DEF fs
<1>2. \A k : FirstOf(k) => k \in ActiveEvidence
  BY DEF FirstOf
<1>3. ASSUME NEW i \in DOMAIN evidence
      PROVE  Cardinality({f \in fs : i \in f.support}) = IF evidence[i].status = "ACTIVE" THEN 1 ELSE 0
  <2>1. CASE evidence[i].status = "ACTIVE"
    <3>1. i \in ActiveEvidence
      BY <2>1 DEF ActiveEvidence
    <3>2. PICK f \in fs : {g \in fs : i \in g.support} = {f}
      BY <3>1, EvidenceCounts DEF fs
    <3>3. Cardinality({f}) = 1
      BY FS_Singleton
    <3>. QED  BY <2>1, <3>2, <3>3
  <2>2. CASE evidence[i].status # "ACTIVE"
    <3>1. i \notin ActiveEvidence
      BY <2>2 DEF ActiveEvidence
    <3>2. \A f \in fs : i \notin f.support
      <4> SUFFICES ASSUME NEW f \in fs PROVE i \notin f.support
        OBVIOUS
      <4>1. PICK k : FirstOf(k) /\ f = FactOf(k)
        BY <1>1
      <4>. QED  BY <1>2, <3>1, <4>1, FactSays, SubgroupFacts
    <3>3. {f \in fs : i \in f.support} = {}
      BY <3>2
    <3>. QED  BY <2>2, <3>3, FS_EmptySet
  <2>. QED  BY <2>1, <2>2
<1>4. \A i \in ActiveEvidence : researchClock - evidence[i].freshnessAt.at <= EvidenceStaleAfter
  <2> SUFFICES ASSUME NEW i \in ActiveEvidence
               PROVE  researchClock - evidence[i].freshnessAt.at <= EvidenceStaleAfter
    OBVIOUS
  <2>1. i \in DOMAIN evidence /\ evidence[i].status = "ACTIVE" /\ evidence[i] \in EvidenceType
    BY SubgroupFacts DEF ActiveEvidence
  <2>2. PICK item \in EvidenceType : item = evidence[i]
    BY <2>1
  <2>3. item = IF item.status = "ACTIVE" /\ isStaleEvidence(item, researchClock, EvidenceStaleAfter)
               THEN [item EXCEPT !.status = "STALE"] ELSE item
    BY <2>1, <2>2 DEF markStaleEvidence
  <2>4. ~isStaleEvidence(item, researchClock, EvidenceStaleAfter)
    <3> SUFFICES ASSUME isStaleEvidence(item, researchClock, EvidenceStaleAfter)
                 PROVE  FALSE
      OBVIOUS
    <3>1. item = [item EXCEPT !.status = "STALE"]
      BY <2>1, <2>2, <2>3
    <3>2. [item EXCEPT !.status = "STALE"].status = "STALE"
      BY DEF EvidenceType
    <3>. QED  BY <2>1, <2>2, <3>1, <3>2
  <2>5. item.freshnessAt.at \in Nat /\ EvidenceStaleAfter \in Nat
    BY ResearchAssumption DEF ResearchAssumption, EvidenceType
  <2>. QED  BY <2>2, <2>4, <2>5 DEF isStaleEvidence
<1>5. ASSUME NEW f \in fs
      PROVE  /\ f.support # {}
             /\ \A i \in f.support :
                  /\ evidence[i].subject = f.subject /\ evidence[i].claim = f.predicate
                  /\ evidence[i].value = f.value
                  /\ researchClock - evidence[i].freshnessAt.at <= EvidenceStaleAfter
  <2>1. PICK k : FirstOf(k) /\ f = FactOf(k)
    BY <1>1
  <2>2. k \in ActiveEvidence /\ f.support = SubgroupOf(k) /\ f.subject = evidence[k].subject
        /\ f.predicate = evidence[k].claim /\ f.value = evidence[k].value
    BY <1>2, <2>1, FactSays
  <2>3. k \in SubgroupOf(k)
    BY <2>2, SubgroupFacts
  <2>4. \A i \in SubgroupOf(k) : /\ evidence[i].subject = evidence[k].subject
                                /\ evidence[i].claim = evidence[k].claim
                                /\ evidence[i].value = evidence[k].value
                                /\ i \in ActiveEvidence
    BY <2>2, SubgroupFacts
  <2>. QED  BY <1>4, <2>2, <2>3, <2>4
<1>6. ASSUME NEW f \in fs, NEW g \in fs, f # g, f.subject = g.subject, f.predicate = g.predicate
      PROVE  f.value # g.value /\ f.confidence <= 6000
  <2>1. PICK k : FirstOf(k) /\ f = FactOf(k)
    BY <1>1
  <2>2. PICK l : FirstOf(l) /\ g = FactOf(l)
    BY <1>1
  <2>3. k \in ActiveEvidence /\ l \in ActiveEvidence /\ k # l
    BY <1>2, <1>6, <2>1, <2>2
  <2>4. /\ f.subject = evidence[k].subject /\ f.predicate = evidence[k].claim
        /\ f.value = evidence[k].value
        /\ SubgroupOf(k) # GroupOf(k) => f.confidence \in Contested
    BY <2>1, <2>3, FactSays
  <2>5. /\ g.subject = evidence[l].subject /\ g.predicate = evidence[l].claim
        /\ g.value = evidence[l].value
    BY <2>2, <2>3, FactSays
  <2>6. l \in GroupOf(k)
    <3>1. evidence[l].subject = evidence[k].subject
      BY <1>6, <2>4, <2>5
    <3>2. evidence[l].claim = evidence[k].claim
      BY <1>6, <2>4, <2>5
    <3>. QED  BY <2>3, <3>1, <3>2 DEF GroupOf, groupKey
  <2>7. l \notin SubgroupOf(k)
    BY <2>1, <2>2, <2>3, FirstIsOne
  <2>8. evidence[l].value # evidence[k].value
    BY <2>3, <2>6, <2>7, SubgroupFacts
  <2>9. SubgroupOf(k) # GroupOf(k)
    BY <2>6, <2>7
  <2>10. f.confidence <= 6000
    <3>1. \A low \in Contested : low <= 6000
      BY DEF Contested
    <3>2. f.confidence \in Contested
      BY Zenon, <2>4, <2>9
    <3>. QED  BY <3>1, <3>2
  <2>11. f.value # g.value
    BY Zenon, <2>4, <2>5, <2>8
  <2>. QED  BY <2>10, <2>11
<1>7. ASSUME NEW f \in fs,
             \A g \in fs : g # f => <<g.subject, g.predicate>> # <<f.subject, f.predicate>>
      PROVE  \A i \in f.support : f.confidence >= evidence[i].confidence * 100
  <2>1. PICK k : FirstOf(k) /\ f = FactOf(k)
    BY <1>1
  <2>2. k \in ActiveEvidence
    BY <1>2, <2>1
  <2>3. /\ f.subject = evidence[k].subject /\ f.predicate = evidence[k].claim
        /\ f.value = evidence[k].value /\ f.support = SubgroupOf(k)
        /\ SubgroupOf(k) = GroupOf(k) =>
             \A j \in SubgroupOf(k) : f.confidence >= evidence[j].confidence * 100
    BY <2>1, <2>2, FactSays
  <2>4. SubgroupOf(k) = GroupOf(k)
    <3> SUFFICES ASSUME NEW j \in GroupOf(k), j \notin SubgroupOf(k)
                 PROVE  FALSE
      BY <2>2, SubgroupFacts
    <3>1. j \in ActiveEvidence /\ evidence[j].value # evidence[k].value
          /\ evidence[j].subject = evidence[k].subject /\ evidence[j].claim = evidence[k].claim
      BY <2>2, SubgroupFacts
    <3>2. PICK g \in fs : /\ g.value = evidence[j].value
                          /\ <<g.subject, g.predicate>> = groupKey(evidence[j])
      BY <3>1, EvidenceCounts DEF fs
    <3>. QED  BY <1>7, <2>3, <3>1, <3>2 DEF groupKey
  <2>. QED  BY <2>3, <2>4
<1>. QED  BY <1>3, <1>5, <1>6, <1>7 DEF Faithful, fs

-----------------------------------------------------------------------------
(* Answers of the cache.                                                    *)

\* What a person declared, and when, as the server writes it.
InvalidationType == [key : Keys, at : [at : Nat, zone : {0}]]

\* The ages allowed for the claim and the source of a piece of evidence.
LimitsOf(item) ==
  {CachePolicy.claims[c] : c \in {item.claim} \cap DOMAIN CachePolicy.claims}
  \cup {CachePolicy.sources[t] :
          t \in {EvidenceSources[item.source].type} \cap DOMAIN CachePolicy.sources}

LEMMA TtlIsTheShortest ==
  ASSUME NEW item
  PROVE  /\ resolveTtl(item) \in Nat
         /\ LimitsOf(item) = {} => resolveTtl(item) = CachePolicy.default
         /\ LimitsOf(item) # {} => resolveTtl(item) \in LimitsOf(item)
         /\ \A limit \in LimitsOf(item) : limit \in Nat /\ resolveTtl(item) <= limit
<1>1. LimitsOf(item) \in SUBSET Nat
  BY ResearchAssumption DEF ResearchAssumption, LimitsOf
<1> DEFINE S == LimitsOf(item)
<1>2. resolveTtl(item) = IF S = {} THEN CachePolicy.default
                         ELSE CHOOSE ttl \in S : \A other \in S : ttl <= other
  BY DEF resolveTtl, LimitsOf
<1>3. S = LimitsOf(item)
  OBVIOUS
<1> HIDE DEF S
<1>4. CASE S = {}
  <2>1. resolveTtl(item) = CachePolicy.default
    BY <1>2, <1>4
  <2>. QED  BY <1>3, <1>4, <2>1, ResearchAssumption DEF ResearchAssumption
<1>5. CASE S # {}
  <2>1. \E ttl \in S : \A other \in S : ttl <= other
    BY <1>1, <1>3, <1>5, MinIsLeast
  <2>2. PICK ttl \in S : ttl = resolveTtl(item) /\ \A other \in S : ttl <= other
    BY <1>2, <1>5, <2>1
  <2>. QED  BY <1>1, <1>3, <1>5, <2>2
<1>. QED  BY <1>4, <1>5

\* Evidence is invalidated when the latest declaration on its key is written later.
LEMMA LatestCounts ==
  ASSUME invalidations \in SUBSET InvalidationType, IsFiniteSet(invalidations),
         NEW item \in EvidenceType
  PROVE  Invalidated(item) <=> \E entry \in invalidations :
           entry.key = groupKey(item) /\ entry.at.at > Written(item.freshnessAt)
<1>1. PICK S : S = {entry \in invalidations : entry.key = groupKey(item)}
  OBVIOUS
<1>2. findLatestInvalidation(groupKey(item)) =
        IF S = {} THEN {}
        ELSE {CHOOSE e \in S : \A other \in S : Written(other.at) <= Written(e.at)}
  BY Zenon, <1>1 DEF findLatestInvalidation
<1>3. \A e \in S : e \in InvalidationType
  BY <1>1
<1>4. \A e \in S : Written(e.at) = e.at.at /\ e.at.at \in Nat
  <2> SUFFICES ASSUME NEW e \in S
               PROVE  Written(e.at) = e.at.at /\ e.at.at \in Nat
    OBVIOUS
  <2>1. PICK stamp \in [at : Nat, zone : {0}] : stamp = e.at
    BY <1>3 DEF InvalidationType
  <2>2. stamp.at \in Nat /\ stamp.zone = 0
    BY <2>1
  <2>3. stamp.at + stamp.zone = stamp.at
    BY <2>2
  <2>. QED  BY <2>1, <2>2, <2>3 DEF Written
<1>5. Written(item.freshnessAt) \in Int
  BY DEF Written, EvidenceType
<1>6. CASE S = {}
  <2>1. ~Invalidated(item)
    BY <1>2, <1>6 DEF Invalidated
  <2>. QED  BY <1>1, <1>6, <2>1
<1>7. CASE S # {}
  <2>1. IsFiniteSet(S)
    BY <1>1, FS_Subset
  <2>2. PICK f : f = [e \in S |-> e.at.at]
    OBVIOUS
  <2>3. f \in [S -> Nat]
    BY <1>4, <2>2
  <2>4. PICK x \in S : \A y \in S : f[y] <= f[x]
    BY <1>7, <2>1, <2>3, SomeIsGreatest
  <2>5. \A y \in S : Written(y.at) <= Written(x.at)
    BY <1>4, <2>2, <2>4
  <2>6. PICK e \in S : /\ findLatestInvalidation(groupKey(item)) = {e}
                       /\ \A other \in S : Written(other.at) <= Written(e.at)
    BY <1>2, <1>7, <2>4, <2>5
  <2>7. Invalidated(item) <=> Written(e.at) > Written(item.freshnessAt)
    BY <2>6 DEF Invalidated
  <2>8. \A other \in S : other.at.at <= e.at.at
    BY <1>4, <2>6
  <2>9. (\E other \in S : other.at.at > Written(item.freshnessAt))
        <=> e.at.at > Written(item.freshnessAt)
    BY <1>4, <1>5, <2>8
  <2>10. (\E entry \in invalidations :
            entry.key = groupKey(item) /\ entry.at.at > Written(item.freshnessAt))
         <=> \E other \in S : other.at.at > Written(item.freshnessAt)
    BY <1>1
  <2>11. Written(e.at) = e.at.at
    BY <1>4
  <2>. QED  BY <2>7, <2>9, <2>10, <2>11
<1>. QED  BY <1>6, <1>7

\* HitsAreFresh, of any finding, without the facts that a hit supports.
FreshAnswer(fd) ==
  fd.kind = "cache" =>
    LET Now(i) == evidence[i].status = "ACTIVE" /\ groupKey(evidence[i]) = fd.key
        Young(i, limits) == \A limit \in limits : researchClock - evidence[i].freshnessAt.at <= limit
        After(i) == \A entry \in invalidations :
                      entry.key = fd.key => entry.at.at <= evidence[i].freshnessAt.at
        OneZone(i) == evidence[i].freshnessAt.zone = 0 IN
    /\ (fd.decision = "CACHE_HIT") <=> (fd.reusable # {})
    /\ \A i \in fd.reusable :
         /\ i \in DOMAIN evidence
         /\ Now(i) /\ Young(i, LimitsOf(evidence[i])) /\ (OneZone(i) => After(i))
         /\ LimitsOf(evidence[i]) = {} => Young(i, {CachePolicy.default})
    /\ fd.decision # "CACHE_HIT" =>
         \A i \in DOMAIN evidence :
           Now(i) /\ OneZone(i) => ~After(i) \/ ~Young(i, LimitsOf(evidence[i]))
                                   \/ (LimitsOf(evidence[i]) = {} /\ ~Young(i, {CachePolicy.default}))

\* What the cache answers is fresh.
LEMMA AnswerIsFresh ==
  ASSUME evidence \in Seq(EvidenceType), researchClock \in Nat,
         invalidations \in SUBSET InvalidationType, IsFiniteSet(invalidations),
         NEW key, NEW fd, fd = evaluateResearchCache(key, researchClock)
  PROVE  FreshAnswer(fd)
<1>1. \A i \in DOMAIN evidence : evidence[i] \in EvidenceType
  BY LenProperties, ElementOfSeq
<1>2. PICK S : S = {i \in DOMAIN evidence : groupKey(evidence[i]) = key /\ Reusable(evidence[i], researchClock)}
  OBVIOUS
<1>3. /\ fd.kind = "cache" /\ fd.key = key /\ fd.reusable = S
      /\ (fd.decision = "CACHE_HIT") <=> (S # {})
  <2> DEFINE relevant == {i \in DOMAIN evidence : groupKey(evidence[i]) = key}
             reusable == {i \in relevant : Reusable(evidence[i], researchClock)}
             active == {i \in relevant : evidence[i].status = "ACTIVE"}
             reason == IF \E i \in active : Invalidated(evidence[i])
                       THEN "MANUALLY_INVALIDATED" ELSE "TTL_EXPIRED"
             verdict ==
               CASE relevant = {} -> <<"CACHE_MISS", "NO_EVIDENCE">>
                 [] relevant # {} /\ reusable # {} -> <<"CACHE_HIT", "FRESH_EVIDENCE_FOUND">>
                 [] OTHER -> <<"STALE_REVALIDATE", reason>>
  <2>1. reusable = S
    BY Zenon, <1>2
  <2>2. fd = [kind |-> "cache", key |-> key, at |-> researchClock, decision |-> verdict[1],
              reason |-> verdict[2], reusable |-> reusable, stale |-> relevant \ reusable]
    BY Zenon DEF evaluateResearchCache
  <2>3. reusable \subseteq relevant
    OBVIOUS
  <2>4. (verdict[1] = "CACHE_HIT") <=> (reusable # {})
    <3> HIDE DEF reason
    <3>1. PICK R : R = relevant
      OBVIOUS
    <3>2. PICK U : U = reusable
      OBVIOUS
    <3>3. U \subseteq R
      BY <2>3, <3>1, <3>2
    <3>4. CASE R = {}
      BY <3>1, <3>2, <3>3, <3>4
    <3>5. CASE R # {} /\ U # {}
      BY <3>1, <3>2, <3>5
    <3>6. CASE R # {} /\ U = {}
      BY <3>1, <3>2, <3>6
    <3>. QED  BY <3>4, <3>5, <3>6
  <2> HIDE DEF verdict, reusable, relevant
  <2>5. fd.decision = verdict[1] /\ fd.kind = "cache" /\ fd.key = key /\ fd.reusable = reusable
    BY <2>2
  <2>. QED  BY <2>1, <2>4, <2>5
<1> DEFINE Young(i, limits) == \A limit \in limits : researchClock - evidence[i].freshnessAt.at <= limit
           After(i) == \A entry \in invalidations :
                         entry.key = key => entry.at.at <= evidence[i].freshnessAt.at
           OneZone(i) == evidence[i].freshnessAt.zone = 0
           Old(i) == LimitsOf(evidence[i]) = {} /\ ~Young(i, {CachePolicy.default})
<1>4. \A i \in DOMAIN evidence :
        /\ (researchClock - evidence[i].freshnessAt.at <= resolveTtl(evidence[i]))
           <=> (Young(i, LimitsOf(evidence[i])) /\ ~Old(i))
        /\ OneZone(i) /\ groupKey(evidence[i]) = key => (Invalidated(evidence[i]) <=> ~After(i))
  <2> SUFFICES ASSUME NEW i \in DOMAIN evidence
               PROVE  /\ (researchClock - evidence[i].freshnessAt.at <= resolveTtl(evidence[i]))
                         <=> (Young(i, LimitsOf(evidence[i])) /\ ~Old(i))
                      /\ OneZone(i) /\ groupKey(evidence[i]) = key =>
                           (Invalidated(evidence[i]) <=> ~After(i))
    OBVIOUS
  <2>1. PICK item \in EvidenceType : item = evidence[i]
    BY <1>1
  <2>2. PICK at \in Nat : at = item.freshnessAt.at
    BY DEF EvidenceType
  <2>3. PICK ttl \in Nat : ttl = resolveTtl(item)
    BY TtlIsTheShortest
  <2>4. PICK limits : limits = LimitsOf(item)
    OBVIOUS
  <2>5. /\ limits = {} => ttl = CachePolicy.default
        /\ limits # {} => ttl \in limits
        /\ \A limit \in limits : limit \in Nat /\ ttl <= limit
    BY <2>3, <2>4, TtlIsTheShortest
  <2>6. (researchClock - at <= ttl)
        <=> /\ \A limit \in limits : researchClock - at <= limit
            /\ ~(limits = {} /\ ~(\A limit \in {CachePolicy.default} : researchClock - at <= limit))
    <3>1. CASE limits = {}
      BY <2>5, <3>1
    <3>2. CASE limits # {}
      <4>1. ttl \in limits /\ \A limit \in limits : limit \in Nat /\ ttl <= limit
        BY <2>5, <3>2
      <4>2. \A limit \in Nat : ttl <= limit /\ researchClock - at <= ttl => researchClock - at <= limit
        OBVIOUS
      <4>. QED  BY <3>2, <4>1, <4>2
    <3>. QED  BY <3>1, <3>2
  <2>7. ASSUME OneZone(i), groupKey(evidence[i]) = key
        PROVE  Invalidated(evidence[i]) <=> ~After(i)
    <3>1. PICK stamp \in [at : Nat, zone : Int] : stamp = item.freshnessAt
      BY DEF EvidenceType
    <3>2. stamp.zone = 0 /\ stamp.at \in Nat /\ stamp.at = at
      BY <2>1, <2>2, <2>7, <3>1
    <3>3. stamp.at + stamp.zone = at
      BY <3>2
    <3>4. Written(item.freshnessAt) = at
      BY Zenon, <3>1, <3>3 DEF Written
    <3>5. Invalidated(item) <=> \E entry \in invalidations :
            entry.key = groupKey(item) /\ entry.at.at > at
      BY Zenon, <3>4, LatestCounts
    <3>6. \A entry \in invalidations : entry.at.at \in Nat
      BY DEF InvalidationType
    <3>7. \A entry \in invalidations : entry.at.at > at <=> ~(entry.at.at <= at)
      BY <3>6
    <3>8. groupKey(item) = key
      BY <2>1, <2>7
    <3>9. Invalidated(item) <=> ~(\A entry \in invalidations : entry.key = key => entry.at.at <= at)
      BY Zenon, <3>5, <3>7, <3>8
    <3>. QED  BY Zenon, <2>1, <2>2, <3>9
  <2>. QED  BY Zenon, <2>1, <2>2, <2>3, <2>4, <2>6, <2>7
<1>5. \A i : i \in S <=> /\ i \in DOMAIN evidence /\ groupKey(evidence[i]) = key
                         /\ evidence[i].status = "ACTIVE"
                         /\ researchClock - evidence[i].freshnessAt.at <= resolveTtl(evidence[i])
                         /\ ~Invalidated(evidence[i])
  BY Zenon, <1>2 DEF Reusable
<1>6. ASSUME NEW i \in S
      PROVE  /\ i \in DOMAIN evidence
             /\ evidence[i].status = "ACTIVE" /\ groupKey(evidence[i]) = key
             /\ Young(i, LimitsOf(evidence[i])) /\ (OneZone(i) => After(i))
             /\ LimitsOf(evidence[i]) = {} => Young(i, {CachePolicy.default})
  BY Zenon, <1>4, <1>5
<1>7. ASSUME S = {}, NEW i \in DOMAIN evidence,
             evidence[i].status = "ACTIVE", groupKey(evidence[i]) = key, OneZone(i)
      PROVE  ~After(i) \/ ~Young(i, LimitsOf(evidence[i])) \/ Old(i)
  <2>1. i \notin S
    BY <1>7
  <2>. QED  BY Zenon, <1>4, <1>5, <1>7, <2>1
<1>. QED  BY Zenon, <1>3, <1>6, <1>7 DEF FreshAnswer

-----------------------------------------------------------------------------
(* Messages and candidates.                                                 *)

FactsTyped(fs) ==
  \A f \in fs : f.subject \in Subjects /\ f.predicate \in Claims /\ f.confidence \in Shares

LEMMA CollapsedTyped ==
  ASSUME evidence \in Seq(EvidenceType)
  PROVE  FactsTyped(collapseToFacts)
<1> SUFFICES ASSUME NEW f \in collapseToFacts
             PROVE  f.subject \in Subjects /\ f.predicate \in Claims /\ f.confidence \in Shares
  BY DEF FactsTyped
<1>1. PICK k : FirstOf(k) /\ f = FactOf(k)
  BY CollapsedFacts
<1>2. k \in ActiveEvidence
  BY <1>1 DEF FirstOf
<1>3. PICK item \in EvidenceType : item = evidence[k]
  BY <1>2, SubgroupFacts
<1>4. f.subject = item.subject /\ f.predicate = item.claim /\ f.confidence \in Shares
  BY Zenon, <1>1, <1>2, <1>3, FactSays
<1>5. item.subject \in Subjects /\ item.claim \in Claims
  BY DEF EvidenceType
<1>. QED  BY Zenon, <1>4, <1>5

\* The best fact of a predicate is one of them.
LEMMA BestIsOne ==
  ASSUME NEW known, FactsTyped(known), NEW c, \E f \in known : f.predicate = c
  PROVE  pickFact(known, c) \in known /\ pickFact(known, c).predicate = c
<1>1. PICK S : S = {f \in known : f.predicate = c}
  OBVIOUS
<1>2. PICK C : C = {f.confidence : f \in S}
  OBVIOUS
<1>3. \A f \in S : f.confidence \in Shares
  BY Zenon, <1>1 DEF FactsTyped
<1>4. PICK b \in Nat : \A n \in Shares : n \in Nat /\ n <= b
  <2>1. \A n \in Shares : n \in Nat /\ n <= 9900
    BY DEF Shares
  <2>. QED  BY <2>1
<1>5. C \in SUBSET Nat /\ C # {} /\ \A n \in C : n <= b
  <2>1. \A n \in C : n \in Shares
    BY Zenon, <1>2, <1>3
  <2>2. C # {}
    BY Zenon, <1>1, <1>2
  <2>. QED  BY <1>4, <2>1, <2>2
<1>6. Max(C) \in C /\ \A n \in C : n <= Max(C)
  BY <1>5, MaxIsGreatest
<1>7. PICK best \in S : \A n \in C : n <= best.confidence
  BY Zenon, <1>2, <1>6
<1>8. \A g \in known : g.predicate = c => g.confidence <= best.confidence
  BY Zenon, <1>1, <1>2, <1>7
<1>9. best \in known /\ best.predicate = c
  BY <1>1
<1>. QED  BY Zenon, <1>8, <1>9 DEF pickFact

\* A message says what the facts of its subject say.
MessageSupported(fd) ==
  fd.kind = "message" =>
    /\ lintMessage(fd)
    /\ \A m \in fd.says :
         /\ \A n \in fd.says : n.claim = m.claim => n = m
         /\ \E f \in facts : f.subject = fd.subject /\ f.value = m.value /\ f.predicate = m.claim
    /\ \A f \in facts : f.subject = fd.subject => \E m \in fd.says : m.claim = f.predicate

LEMMA MessagesAreSupported ==
  ASSUME FactsTyped(facts), NEW subject, NEW fd,
         fd = generateMessage(subject, {f \in facts : f.subject = subject})
  PROVE  MessageSupported(fd)
<1>1. PICK known : known = {f \in facts : f.subject = subject}
  OBVIOUS
<1>2. FactsTyped(known)
  BY Zenon, <1>1 DEF FactsTyped
<1>3. PICK told : told = {c \in Claims : \E f \in known : f.predicate = c}
  OBVIOUS
<1>4. PICK says : says = {[claim |-> c, value |-> pickFact(known, c).value] : c \in told}
  OBVIOUS
<1>5. fd = [kind |-> "message", subject |-> subject, known |-> known, says |-> says,
            used |-> {pickFact(known, c) : c \in told}]
  BY Zenon, <1>1, <1>3, <1>4 DEF generateMessage
<1>6. fd.subject = subject /\ fd.known = known /\ fd.says = says
  BY <1>5
<1>7. \A c \in told : pickFact(known, c) \in known /\ pickFact(known, c).predicate = c
  BY Zenon, <1>2, <1>3, BestIsOne
<1>8. \A m \in says : \E c \in told : m.claim = c /\ m.value = pickFact(known, c).value
                                     /\ m = [claim |-> c, value |-> pickFact(known, c).value]
  BY <1>4
<1>9. \A c \in told : \E m \in says : m.claim = c
  <2> SUFFICES ASSUME NEW c \in told
               PROVE  \E m \in says : m.claim = c
    OBVIOUS
  <2>1. PICK m : m = [claim |-> c, value |-> pickFact(known, c).value]
    OBVIOUS
  <2>2. m \in says
    BY Zenon, <1>4, <2>1
  <2>3. m.claim = c
    BY <2>1
  <2>. QED  BY <2>2, <2>3
<1>10. lintMessage(fd)
  <2>1. \A m \in says : \E f \in known : f.predicate = m.claim /\ f.value = m.value
    <3> SUFFICES ASSUME NEW m \in says
                 PROVE  \E f \in known : f.predicate = m.claim /\ f.value = m.value
      OBVIOUS
    <3>1. PICK c \in told : m.claim = c /\ m.value = pickFact(known, c).value
      BY Zenon, <1>8
    <3>2. PICK f \in known : f = pickFact(known, c) /\ f.predicate = c
      BY Zenon, <1>7
    <3>. QED  BY Zenon, <3>1, <3>2
  <2>. QED  BY Zenon, <1>6, <2>1 DEF lintMessage
<1>11. ASSUME NEW m \in says
       PROVE  /\ \A n \in says : n.claim = m.claim => n = m
              /\ \E f \in facts : f.subject = subject /\ f.value = m.value /\ f.predicate = m.claim
  <2>1. ASSUME NEW n \in says, n.claim = m.claim PROVE n = m
    <3>1. PICK c \in told : m.claim = c /\ m = [claim |-> c, value |-> pickFact(known, c).value]
      BY Zenon, <1>8
    <3>2. PICK d \in told : n.claim = d /\ n = [claim |-> d, value |-> pickFact(known, d).value]
      BY Zenon, <1>8
    <3>3. c = d
      BY Zenon, <2>1, <3>1, <3>2
    <3>. QED  BY Zenon, <3>1, <3>2, <3>3
  <2>2. \E f \in facts : f.subject = subject /\ f.value = m.value /\ f.predicate = m.claim
    BY Zenon, <1>1, <1>7, <1>8
  <2>. QED  BY <2>1, <2>2
<1>12. ASSUME NEW f \in facts, f.subject = subject
       PROVE  \E m \in says : m.claim = f.predicate
  BY Zenon, <1>1, <1>3, <1>9, <1>12 DEF FactsTyped
<1>13. \A m \in says :
         /\ \A n \in says : n.claim = m.claim => n = m
         /\ \E f \in facts : f.subject = subject /\ f.value = m.value /\ f.predicate = m.claim
  BY Zenon, <1>11
<1>14. \A f \in facts : f.subject = subject => \E m \in says : m.claim = f.predicate
  BY Zenon, <1>12
<1>15. \A m \in fd.says :
         /\ \A n \in fd.says : n.claim = m.claim => n = m
         /\ \E f \in facts : f.subject = fd.subject /\ f.value = m.value /\ f.predicate = m.claim
  <2> SUFFICES ASSUME NEW m \in fd.says
               PROVE  /\ \A n \in fd.says : n.claim = m.claim => n = m
                      /\ \E f \in facts :
                           f.subject = fd.subject /\ f.value = m.value /\ f.predicate = m.claim
    OBVIOUS
  <2>1. m \in says
    BY <1>6
  <2>2. \A n \in fd.says : n.claim = m.claim => n = m
    <3>1. \A n \in says : n.claim = m.claim => n = m
      BY Zenon, <1>13, <2>1
    <3>. QED  BY <1>6, <3>1
  <2>3. PICK f \in facts : f.subject = subject /\ f.value = m.value /\ f.predicate = m.claim
    BY Zenon, <1>13, <2>1
  <2>. QED  BY <1>6, <2>2, <2>3
<1>16. \A f \in facts : f.subject = fd.subject => \E m \in fd.says : m.claim = f.predicate
  BY <1>6, <1>14
<1>. QED  BY <1>10, <1>15, <1>16 DEF MessageSupported

\* A candidate has what its source deserves, and at most half without all of it.
CandidateSupported(fd) ==
  fd.kind = "candidate" =>
    LET whole == 4 * classifySourceReliability(EvidenceSources[fd.hit.source]) IN
    /\ fd.quarters \in {0, whole \div 4, whole \div 2, whole}
    /\ fd.quarters = whole =>
         fd.hit.name /\ fd.hit.title /\ fd.at - fd.hit.fetchedAt <= TitleStaleAfter
    /\ fd.quarters = 0 => ~fd.hit.name /\ ~fd.hit.title

LEMMA SourceDeserves ==
  \A source \in SourceType : classifySourceReliability(source) \in Reliabilities
<1> SUFFICES ASSUME NEW source \in SourceType
             PROVE  classifySourceReliability(source) \in Reliabilities
  OBVIOUS
<1>1. PICK type \in {"GOVERNMENT", "OFFICIAL_WEBSITE", "NEWS", "DIRECTORY", "SOCIAL", "UNKNOWN"} :
        type = source.type
  BY DEF SourceType
<1>2. ReliabilityOf[type] \in Reliabilities
  BY DEF ReliabilityOf, Reliabilities
<1>3. 95 \in Reliabilities /\ 75 \in Reliabilities
  BY DEF Reliabilities
<1>. QED  BY Zenon, <1>1, <1>2, <1>3 DEF classifySourceReliability

LEMMA QuartersOfWhole ==
  \A r \in Reliabilities :
    LET whole == 4 * r IN
    /\ r * 1 * 1 = whole \div 4 /\ r * 1 * 2 = whole \div 2 /\ r * 2 * 1 = whole \div 2
    /\ r * 2 * 2 = whole /\ whole \div 4 # whole /\ whole \div 2 # whole
    /\ whole # 0 /\ whole \div 4 # 0 /\ whole \div 2 # 0
BY DEF Reliabilities

LEMMA CandidatesAreSupported ==
  ASSUME NEW linked \in BOOLEAN, NEW hit, hit.name \in BOOLEAN, hit.title \in BOOLEAN,
         hit.source \in DOMAIN EvidenceSources, NEW role, NEW now \in Nat,
         hit.fetchedAt \in Nat, NEW fd, fd = discoverContacts(linked, hit, role, now)
  PROVE  CandidateSupported(fd) /\ fd.kind \in {"refused", "candidate"}
<1>1. PICK r \in Reliabilities : r = classifySourceReliability(EvidenceSources[hit.source])
  BY ResearchAssumption, SourceDeserves DEF ResearchAssumption
<1>2. PICK old : old = (now - hit.fetchedAt > TitleStaleAfter)
  OBVIOUS
<1>3. PICK identity : identity = resolvePersonIdentity(hit, now)
  OBVIOUS
<1>4. PICK whole : whole = 4 * r
  OBVIOUS
<1>5. /\ identity.quarters \in {0, whole \div 4, whole \div 2, whole}
      /\ identity.quarters = whole => hit.name /\ hit.title /\ now - hit.fetchedAt <= TitleStaleAfter
      /\ identity.quarters = 0 => ~hit.name /\ ~hit.title
  <2> DEFINE status == IF ~hit.title THEN "UNKNOWN"
                       ELSE IF now - hit.fetchedAt > TitleStaleAfter THEN "STALE" ELSE "CURRENT"
  <2>1. identity = [status |-> status,
                    quarters |-> IF ~hit.name /\ ~hit.title THEN 0
                                 ELSE r * (IF hit.name /\ hit.title THEN 2 ELSE 1)
                                        * (IF status = "STALE" THEN 1 ELSE 2)]
    BY Zenon, <1>1, <1>3 DEF resolvePersonIdentity
  <2>2. identity.quarters = IF ~hit.name /\ ~hit.title THEN 0
                            ELSE r * (IF hit.name /\ hit.title THEN 2 ELSE 1)
                                   * (IF status = "STALE" THEN 1 ELSE 2)
    BY Zenon, <2>1
  <2>3. /\ r * 1 * 1 = whole \div 4 /\ r * 1 * 2 = whole \div 2 /\ r * 2 * 1 = whole \div 2
        /\ r * 2 * 2 = whole /\ whole \div 4 # whole /\ whole \div 2 # whole
        /\ whole # 0 /\ whole \div 4 # 0 /\ whole \div 2 # 0
    BY Zenon, <1>4, QuartersOfWhole
  <2>4. TitleStaleAfter \in Nat
    BY ResearchAssumption DEF ResearchAssumption
  <2>5. (now - hit.fetchedAt > TitleStaleAfter) <=> ~(now - hit.fetchedAt <= TitleStaleAfter)
    BY <2>4
  <2>6. (status = "STALE") <=> (hit.title /\ now - hit.fetchedAt > TitleStaleAfter)
    BY Zenon
  <2>. HIDE DEF status
  <2>7. CASE ~hit.name /\ ~hit.title
    BY Zenon, <2>2, <2>3, <2>7
  <2>8. CASE hit.name /\ hit.title /\ status = "STALE"
    BY Zenon, <2>2, <2>3, <2>8
  <2>9. CASE hit.name /\ hit.title /\ status # "STALE"
    BY Zenon, <2>2, <2>3, <2>5, <2>6, <2>9
  <2>10. CASE (hit.name \/ hit.title) /\ ~(hit.name /\ hit.title) /\ status = "STALE"
    BY Zenon, <2>2, <2>3, <2>10
  <2>11. CASE (hit.name \/ hit.title) /\ ~(hit.name /\ hit.title) /\ status # "STALE"
    BY Zenon, <2>2, <2>3, <2>11
  <2>. QED  BY Zenon, <2>7, <2>8, <2>9, <2>10, <2>11
<1>6. CASE linked
  <2>1. fd = [kind |-> "candidate", hit |-> hit, at |-> now, status |-> identity.status,
              quarters |-> identity.quarters, priority |-> 4 * role + identity.quarters]
    BY Zenon, <1>3, <1>6 DEF discoverContacts
  <2>2. fd.kind = "candidate" /\ fd.hit = hit /\ fd.at = now /\ fd.quarters = identity.quarters
    BY <2>1
  <2>. QED  BY Zenon, <1>1, <1>4, <1>5, <2>2 DEF CandidateSupported
<1>7. CASE ~linked
  <2>1. fd.kind = "refused"
    BY Zenon, <1>7 DEF discoverContacts
  <2>. QED  BY <2>1 DEF CandidateSupported
<1>. QED  BY <1>6, <1>7

-----------------------------------------------------------------------------
(* What is known keeps its type.                                            *)

\* What a search brought is finite, and is evidence.
LEMMA FoundIsEvidence ==
  ASSUME NEW subject \in Subjects, NEW source \in DOMAIN EvidenceSources,
         NEW text \in [Claims -> Values], NEW now \in Nat,
         NEW found, found = buildEvidence(subject, source, text, now)
  PROVE  found \in SUBSET EvidenceType /\ IsFiniteSet(found)
<1>1. IsFiniteSet(Claims) /\ EvidenceSources[source] \in SourceType
  BY ResearchAssumption DEF ResearchAssumption
<1>2. PICK zone \in Int : zone = EvidenceSources[source].zone
  BY <1>1 DEF SourceType
<1>3. PICK r \in Reliabilities : r = classifySourceReliability(EvidenceSources[source])
  BY <1>1, SourceDeserves
<1>4. PICK stamp \in [at : Nat, zone : Int] : stamp = Stamp(now, zone)
  BY DEF Stamp
<1>5. PICK item : item = [c \in Claims |->
        [subject |-> subject, claim |-> c, value |-> text[c], source |-> source,
         confidence |-> r, freshnessAt |-> stamp, status |-> "ACTIVE"]]
  OBVIOUS
<1>6. \A c \in Claims : item[c] \in EvidenceType
  BY <1>5 DEF EvidenceType
<1>7. item \in [Claims -> EvidenceType]
  BY <1>5, <1>6
<1>8. PICK R : R = {item[c] : c \in Claims}
  OBVIOUS
<1>9. IsFiniteSet(R)
  <2>1. IsFiniteSet(Claims)
    BY <1>1
  <2>2. item \in Surjection(Claims, R)
    <3>1. item \in [Claims -> R]
      BY <1>5, <1>8
    <3>2. \A r1 \in R : \E c \in Claims : item[c] = r1
      BY <1>8
    <3>. QED  BY <3>1, <3>2 DEF Surjection
  <2>. QED  BY <2>1, <2>2, FS_Surjection
<1>10. found = R
  <2>1. found =
          {[subject |-> subject, claim |-> p[1], value |-> p[2], source |-> source,
            confidence |-> r, freshnessAt |-> stamp, status |-> "ACTIVE"] : p \in extractClaims(text)}
    BY <1>2, <1>3, <1>4 DEF buildEvidence
  <2>2. \A p \in extractClaims(text) : p[1] \in Claims /\ p[2] = text[p[1]]
    BY DEF extractClaims
  <2>3. \A c \in Claims : <<c, text[c]>> \in extractClaims(text)
    BY DEF extractClaims
  <2>4. \A c \in Claims : \E p \in extractClaims(text) : p[1] = c /\ p[2] = text[c]
    BY <2>3
  <2>. QED  BY <1>5, <1>8, <2>1, <2>2, <2>4
<1>. QED  BY <1>6, <1>9, <1>10, <1>8

\* Marking what is too old changes nothing else.
LEMMA MarkedIsEvidence ==
  ASSUME evidence \in Seq(EvidenceType), NEW now, NEW marked, marked = markStaleEvidence(now)
  PROVE  marked \in Seq(EvidenceType) /\ Len(marked) = Len(evidence)
<1>1. DOMAIN evidence = 1..Len(evidence) /\ Len(evidence) \in Nat
  BY LenProperties
<1>2. \A i \in DOMAIN evidence : evidence[i] \in EvidenceType
  BY <1>1, ElementOfSeq
<1>3. \A item \in EvidenceType : [item EXCEPT !.status = "STALE"] \in EvidenceType
  BY DEF EvidenceType
<1>4. marked \in [1..Len(evidence) -> EvidenceType]
  <2>1. marked = [i \in DOMAIN evidence |->
          IF evidence[i].status = "ACTIVE" /\ isStaleEvidence(evidence[i], now, EvidenceStaleAfter)
          THEN [evidence[i] EXCEPT !.status = "STALE"] ELSE evidence[i]]
    BY DEF markStaleEvidence
  <2>2. \A i \in DOMAIN evidence : marked[i] \in EvidenceType
    BY <1>2, <1>3, <2>1
  <2>. QED  BY <1>1, <2>1, <2>2
<1>5. marked \in Seq(EvidenceType)
  BY <1>1, <1>4, SeqDef
<1>6. DOMAIN marked = 1..Len(marked) /\ Len(marked) \in Nat /\ DOMAIN marked = 1..Len(evidence)
  BY <1>4, <1>5, LenProperties
<1>7. Len(marked) = Len(evidence)
  <2>1. PICK m \in Nat, n \in Nat : m = Len(marked) /\ n = Len(evidence) /\ 1..m = 1..n
    BY <1>1, <1>6
  <2>2. m = n
    BY <2>1
  <2>. QED  BY <2>1, <2>2
<1>. QED  BY <1>5, <1>7

-----------------------------------------------------------------------------
(* Facts are backed.                                                        *)

KnownTyped ==
  /\ researchClock \in 0..MaxResearchClock
  /\ evidence \in Seq(EvidenceType) /\ Len(evidence) <= MaxEvidence
  /\ invalidations \in SUBSET InvalidationType /\ IsFiniteSet(invalidations)
  /\ FactsTyped(facts)
Concluded ==
  /\ finding.kind = "facts" => Faithful(facts)
  /\ FreshAnswer(finding) /\ MessageSupported(finding) /\ CandidateSupported(finding)
ResearchInv == KnownTyped /\ Concluded

LEMMA ResearchStart == ResearchInit => ResearchInv
<1> SUFFICES ASSUME ResearchInit PROVE ResearchInv
  OBVIOUS
<1>1. KnownTyped
  <2>1. IsFiniteSet({})
    BY FS_EmptySet
  <2>2. <<>> \in Seq(EvidenceType) /\ Len(<<>>) = 0
    BY EmptySeq
  <2>. QED  BY <2>1, <2>2, ResearchAssumption
       DEF ResearchInit, ResearchAssumption, KnownTyped, FactsTyped
<1>2. finding.kind = "none"
  BY DEF ResearchInit, NoFinding
<1>3. Concluded
  BY <1>2 DEF Concluded, FreshAnswer, MessageSupported, CandidateSupported
<1>. QED  BY <1>1, <1>3 DEF ResearchInv

\* Of a finding of another kind nothing is said.
LEMMA NothingConcluded ==
  finding'.kind \notin {"facts", "cache", "message", "candidate"} => Concluded'
BY DEF Concluded, FreshAnswer, MessageSupported, CandidateSupported

LEMMA ResearchStep == ResearchInv /\ [ResearchNext]_researchVars => ResearchInv'
<1> SUFFICES ASSUME ResearchInv, [ResearchNext]_researchVars
             PROVE  ResearchInv'
  OBVIOUS
<1>1. KnownTyped /\ Concluded
  BY DEF ResearchInv
<1>2. researchClock \in Nat /\ MaxResearchClock \in Nat /\ MaxEvidence \in Nat
  BY <1>1, ResearchAssumption DEF KnownTyped, ResearchAssumption
<1>3. /\ evidence \in Seq(EvidenceType) /\ Len(evidence) <= MaxEvidence
      /\ invalidations \in SUBSET InvalidationType /\ IsFiniteSet(invalidations)
      /\ FactsTyped(facts)
  BY <1>1 DEF KnownTyped
<1>4. CASE ResearchClockTicks
  <2>1. KnownTyped'
    BY <1>4, <1>1, <1>2 DEF ResearchClockTicks, KnownTyped, FactsTyped
  <2>2. Concluded'
    BY <1>4, NothingConcluded DEF ResearchClockTicks, NoFinding
  <2>. QED  BY <2>1, <2>2 DEF ResearchInv
<1>5. CASE StoreResult
  <2>1. PICK subject \in Subjects, source \in DOMAIN EvidenceSources, text \in [Claims -> Values] :
          /\ Len(evidence) + Cardinality(buildEvidence(subject, source, text, researchClock)) <= MaxEvidence
          /\ evidence' = evidence \o SetToSeq(buildEvidence(subject, source, text, researchClock))
    BY <1>5 DEF StoreResult
  <2>2. PICK found : found = buildEvidence(subject, source, text, researchClock)
    OBVIOUS
  <2>3. found \in SUBSET EvidenceType /\ IsFiniteSet(found)
    BY <1>2, <2>2, FoundIsEvidence
  <2>4. PICK s : s = SetToSeq(found)
    OBVIOUS
  <2>5. s \in Seq(found) /\ Len(s) = Cardinality(found)
    BY <2>3, <2>4, SetToSeqLists
  <2>6. s \in Seq(EvidenceType)
    <3>1. s \in [1..Len(s) -> found] /\ Len(s) \in Nat
      BY <2>5, LenProperties
    <3>2. s \in [1..Len(s) -> EvidenceType]
      BY <2>3, <3>1
    <3>. QED  BY <3>1, <3>2, SeqDef
  <2>7. evidence \o s \in Seq(EvidenceType) /\ Len(evidence \o s) = Len(evidence) + Len(s)
    BY <1>3, <2>6, ConcatProperties
  <2>8. evidence' \in Seq(EvidenceType) /\ Len(evidence') <= MaxEvidence
    BY <2>1, <2>2, <2>4, <2>5, <2>7
  <2>9. /\ UNCHANGED <<researchClock, invalidations, facts>>
        /\ finding' = NoFinding
    BY <1>5 DEF StoreResult
  <2>10. KnownTyped'
    BY <1>1, <2>8, <2>9 DEF KnownTyped, FactsTyped
  <2>11. Concluded'
    BY <2>9, NothingConcluded DEF NoFinding
  <2>. QED  BY <2>10, <2>11 DEF ResearchInv
<1>6. CASE Invalidate
  <2>1. PICK key \in Keys :
          invalidations' = invalidations \cup {[key |-> key, at |-> Stamp(researchClock, 0)]}
    BY <1>6 DEF Invalidate
  <2>2. PICK entry : entry = [key |-> key, at |-> Stamp(researchClock, 0)]
    OBVIOUS
  <2>3. entry \in InvalidationType
    BY <1>2, <2>2 DEF InvalidationType, Stamp
  <2>4. IsFiniteSet(invalidations \cup {entry})
    BY <1>3, FS_AddElement
  <2>5. invalidations' \in SUBSET InvalidationType /\ IsFiniteSet(invalidations')
    BY <1>3, <2>1, <2>2, <2>3, <2>4
  <2>6. finding' = NoFinding /\ UNCHANGED <<researchClock, evidence, facts>>
    BY <1>6 DEF Invalidate
  <2>7. KnownTyped'
    BY <1>1, <2>5, <2>6 DEF KnownTyped, FactsTyped
  <2>8. Concluded'
    BY <2>6, NothingConcluded DEF NoFinding
  <2>. QED  BY <2>7, <2>8 DEF ResearchInv
<1>7. CASE AskCache
  <2>1. PICK key \in Keys : finding' = evaluateResearchCache(key, researchClock)
    BY <1>7 DEF AskCache
  <2>2. PICK fd : fd = evaluateResearchCache(key, researchClock)
    OBVIOUS
  <2>3. FreshAnswer(fd)
    BY <1>2, <1>3, <2>2, AnswerIsFresh
  <2>4. fd.kind = "cache"
    BY <2>2 DEF evaluateResearchCache
  <2>5. UNCHANGED <<researchClock, evidence, invalidations, facts>> /\ finding' = fd
    BY <1>7, <2>1, <2>2 DEF AskCache
  <2>6. KnownTyped'
    BY <1>1, <2>5 DEF KnownTyped, FactsTyped
  <2>7. FreshAnswer(finding)'
    BY <2>3, <2>5 DEF FreshAnswer
  <2>8. Concluded'
    BY <2>4, <2>5, <2>7 DEF Concluded, MessageSupported, CandidateSupported
  <2>. QED  BY <2>6, <2>8 DEF ResearchInv
<1>8. CASE MarkStale
  <2>1. /\ evidence' = markStaleEvidence(researchClock) /\ finding' = NoFinding
        /\ UNCHANGED <<researchClock, invalidations, facts>>
    BY <1>8 DEF MarkStale
  <2>2. PICK marked : marked = markStaleEvidence(researchClock)
    OBVIOUS
  <2>3. marked \in Seq(EvidenceType) /\ Len(marked) = Len(evidence)
    BY <1>3, <2>2, MarkedIsEvidence
  <2>4. KnownTyped'
    BY <1>1, <2>1, <2>2, <2>3 DEF KnownTyped, FactsTyped
  <2>5. Concluded'
    BY <2>1, NothingConcluded DEF NoFinding
  <2>. QED  BY <2>4, <2>5 DEF ResearchInv
<1>9. CASE Collapse
  <2>1. /\ evidence = markStaleEvidence(researchClock)
        /\ facts' = collapseToFacts /\ finding' = [kind |-> "facts"]
        /\ UNCHANGED <<researchClock, evidence, invalidations>>
    BY <1>9 DEF Collapse
  <2>2. PICK fs : fs = collapseToFacts
    OBVIOUS
  <2>3. Faithful(fs) /\ FactsTyped(fs)
    BY <1>2, <1>3, <2>1, <2>2, CollapseIsFaithful, CollapsedTyped
  <2>4. facts' = fs
    BY <2>1, <2>2
  <2>5. KnownTyped'
    BY <1>1, <2>1, <2>3, <2>4 DEF KnownTyped, FactsTyped
  <2>6. Faithful(facts)'
    BY <2>1, <2>3, <2>4 DEF Faithful
  <2>7. Concluded'
    BY <2>1, <2>6 DEF Concluded, FreshAnswer, MessageSupported, CandidateSupported
  <2>. QED  BY <2>5, <2>7 DEF ResearchInv
<1>10. CASE Write
  <2>1. PICK subject \in Subjects :
          finding' = generateMessage(subject, {f \in facts : f.subject = subject})
    BY <1>10 DEF Write
  <2>2. PICK fd : fd = generateMessage(subject, {f \in facts : f.subject = subject})
    OBVIOUS
  <2>3. MessageSupported(fd)
    BY <1>3, <2>2, MessagesAreSupported
  <2>4. fd.kind = "message"
    BY <2>2 DEF generateMessage
  <2>5. UNCHANGED <<researchClock, evidence, invalidations, facts>> /\ finding' = fd
    BY <1>10, <2>1, <2>2 DEF Write
  <2>6. KnownTyped'
    BY <1>1, <2>5 DEF KnownTyped, FactsTyped
  <2>7. MessageSupported(finding)'
    BY <2>3, <2>5 DEF MessageSupported, lintMessage
  <2>8. Concluded'
    BY <2>4, <2>5, <2>7 DEF Concluded, FreshAnswer, CandidateSupported
  <2>. QED  BY <2>6, <2>8 DEF ResearchInv
<1>11. CASE Discover
  <2>1. PICK linked \in BOOLEAN, name \in BOOLEAN, title \in BOOLEAN,
             source \in DOMAIN EvidenceSources, fetchedAt \in 0..researchClock, role \in {0, 50, 100} :
          finding' = discoverContacts(linked,
            [name |-> name, title |-> title, source |-> source, fetchedAt |-> fetchedAt],
            role, researchClock)
    BY <1>11 DEF Discover
  <2>2. PICK hit : hit = [name |-> name, title |-> title, source |-> source, fetchedAt |-> fetchedAt]
    OBVIOUS
  <2>3. PICK fd : fd = discoverContacts(linked, hit, role, researchClock)
    OBVIOUS
  <2>4. /\ hit.name \in BOOLEAN /\ hit.title \in BOOLEAN
        /\ hit.source \in DOMAIN EvidenceSources /\ hit.fetchedAt \in Nat
    BY <2>2
  <2>5. CandidateSupported(fd) /\ fd.kind \in {"refused", "candidate"}
    BY <1>2, <2>3, <2>4, CandidatesAreSupported
  <2>6. UNCHANGED <<researchClock, evidence, invalidations, facts>> /\ finding' = fd
    BY <1>11, <2>1, <2>2, <2>3 DEF Discover
  <2>7. KnownTyped'
    BY <1>1, <2>6 DEF KnownTyped, FactsTyped
  <2>8. CandidateSupported(finding)'
    BY <2>5, <2>6 DEF CandidateSupported
  <2>9. Concluded'
    BY <2>5, <2>6, <2>8 DEF Concluded, FreshAnswer, MessageSupported
  <2>. QED  BY <2>7, <2>9 DEF ResearchInv
<1>12. CASE UNCHANGED researchVars
  <2>1. KnownTyped'
    BY <1>1, <1>12 DEF researchVars, KnownTyped, FactsTyped
  <2>2. (finding.kind = "facts" => Faithful(facts))'
    BY <1>1, <1>12 DEF Concluded, researchVars, Faithful
  <2>3. FreshAnswer(finding)'
    BY <1>1, <1>12 DEF Concluded, researchVars, FreshAnswer
  <2>4. MessageSupported(finding)'
    BY <1>1, <1>12 DEF Concluded, researchVars, MessageSupported, lintMessage
  <2>5. CandidateSupported(finding)'
    BY <1>1, <1>12 DEF Concluded, researchVars, CandidateSupported
  <2>. QED  BY <2>1, <2>2, <2>3, <2>4, <2>5 DEF ResearchInv, Concluded
<1>. QED  BY <1>4, <1>5, <1>6, <1>7, <1>8, <1>9, <1>10, <1>11, <1>12 DEF ResearchNext

LEMMA BackedFacts == ResearchInv => FactsAreBacked /\ ResearchTypeOK
<1> SUFFICES ASSUME ResearchInv PROVE FactsAreBacked /\ ResearchTypeOK
  OBVIOUS
<1>1. KnownTyped /\ Concluded
  BY DEF ResearchInv
<1>2. evidence \in Seq(EvidenceType) /\ FactsTyped(facts)
  BY <1>1 DEF KnownTyped
<1>3. CollapsesAreFaithful
  BY <1>1 DEF Concluded, CollapsesAreFaithful, Faithful
<1>4. HitsAreFresh
  <2> SUFFICES ASSUME finding.kind = "cache"
               PROVE  HitsAreFresh
    BY DEF HitsAreFresh
  <2>1. FreshAnswer(finding)
    BY <1>1 DEF Concluded
  <2>2. \A i \in finding.reusable : i \in ActiveEvidence /\ groupKey(evidence[i]) = finding.key
    BY Zenon, <2>1 DEF FreshAnswer, ActiveEvidence
  <2>3. \A i \in finding.reusable :
          \E f \in collapseToFacts : i \in f.support /\ <<f.subject, f.predicate>> = finding.key
    <3> SUFFICES ASSUME NEW i \in finding.reusable
                 PROVE  \E f \in collapseToFacts :
                          i \in f.support /\ <<f.subject, f.predicate>> = finding.key
      OBVIOUS
    <3>1. i \in ActiveEvidence /\ groupKey(evidence[i]) = finding.key
      BY <2>2
    <3>2. PICK f \in collapseToFacts : i \in f.support /\ <<f.subject, f.predicate>> = groupKey(evidence[i])
      BY Zenon, <1>2, <3>1, EvidenceCounts
    <3>. QED  BY Zenon, <3>1, <3>2
  <2>. QED  BY Zenon, <2>1, <2>3 DEF HitsAreFresh, FreshAnswer, LimitsOf
<1>5. ClaimsAreSupported
  BY Zenon, <1>1 DEF Concluded, ClaimsAreSupported, MessageSupported, CandidateSupported
<1>6. ResearchTypeOK
  <2>1. researchClock \in 0..MaxResearchClock /\ Len(evidence) \in 0..MaxEvidence
    <3>1. Len(evidence) \in Nat
      BY <1>2, LenProperties
    <3>. QED  BY <1>1, <3>1, ResearchAssumption DEF KnownTyped, ResearchAssumption
  <2>2. ASSUME NEW i \in DOMAIN evidence
        PROVE  groupKey(evidence[i]) \in Keys /\ evidence[i].status \in {"ACTIVE", "STALE"}
    <3>1. evidence[i] \in EvidenceType
      BY <1>2, LenProperties, ElementOfSeq
    <3>. QED  BY <3>1 DEF EvidenceType, groupKey, Keys
  <2>3. ASSUME NEW f \in facts
        PROVE  <<f.subject, f.predicate>> \in Keys /\ f.confidence \in Shares
    <3>1. f.subject \in Subjects /\ f.predicate \in Claims /\ f.confidence \in Shares
      BY Zenon, <1>2 DEF FactsTyped
    <3>2. <<f.subject, f.predicate>> \in Keys
      BY <3>1 DEF Keys
    <3>. QED  BY Zenon, <3>1, <3>2
  <2>4. \A i \in DOMAIN evidence :
          groupKey(evidence[i]) \in Keys /\ evidence[i].status \in {"ACTIVE", "STALE"}
    BY <2>2
  <2>5. \A f \in facts : <<f.subject, f.predicate>> \in Keys /\ f.confidence \in Shares
    BY Zenon, <2>3
  <2>. QED  BY Zenon, <2>1, <2>4, <2>5 DEF ResearchTypeOK
<1>. QED  BY <1>3, <1>4, <1>5, <1>6 DEF FactsAreBacked

\* What is concluded of a company or a person rests on evidence.
THEOREM FactsHold == ResearchSpec => []FactsAreBacked
BY ResearchStart, ResearchStep, BackedFacts, PTL DEF ResearchSpec
-----------------------------------------------------------------------------
(* The components beside each other.                                        *)

\* Each component of the run behaves as its own specification says: the steps of one
\* leave the state of the others alone.
LEMMA EachOnItsOwn ==
  Spec => /\ MeetingSpec /\ WebhookSpec /\ BreakerSpec /\ RouterSpec /\ BrowserSpec
          /\ NbaSpec /\ TalkSpec /\ ResearchSpec /\ ContractsSpec
<1>1. Init => /\ MeetingInit /\ WebhookInit /\ BreakerInit /\ RouterInit /\ BrowserInit
              /\ NbaInit /\ TalkInit /\ ResearchInit /\ ContractsInit
  BY DEF Init
<1>2. [Next]_vars => /\ [MeetingNext]_meetingVars /\ [WebhookNext]_webhookVars
                     /\ [BreakerNext]_breakerVars /\ [RouterNext]_routerVars
                     /\ [BrowserNext]_browserVars
  <2>. SUFFICES ASSUME [Next]_vars
                PROVE  /\ [MeetingNext]_meetingVars /\ [WebhookNext]_webhookVars
                       /\ [BreakerNext]_breakerVars /\ [RouterNext]_routerVars
                       /\ [BrowserNext]_browserVars
    OBVIOUS
  <2>1. CASE Meetings
    BY <2>1 DEF Meetings
  <2>2. CASE Webhooks
    BY <2>2 DEF Webhooks
  <2>3. CASE Breaker
    BY <2>3 DEF Breaker
  <2>4. CASE Router
    BY <2>4 DEF Router
  <2>5. CASE Browser
    BY <2>5 DEF Browser
  <2>6. CASE Deciding \/ Talking \/ Researching \/ Contracting
    BY <2>6 DEF Deciding, Talking, Researching, Contracting, Others
  <2>7. CASE UNCHANGED vars
    BY <2>7 DEF vars
  <2>. QED  BY <2>1, <2>2, <2>3, <2>4, <2>5, <2>6, <2>7 DEF Next
<1>3. [Next]_vars => /\ [NbaNext]_nbaVars /\ [TalkNext]_talkVars
                     /\ [ResearchNext]_researchVars /\ [ContractsNext]_lastMessage
  <2>. SUFFICES ASSUME [Next]_vars
                PROVE  /\ [NbaNext]_nbaVars /\ [TalkNext]_talkVars
                       /\ [ResearchNext]_researchVars /\ [ContractsNext]_lastMessage
    OBVIOUS
  <2>1. CASE Deciding
    BY <2>1 DEF Deciding
  <2>2. CASE Talking
    BY <2>2 DEF Talking
  <2>3. CASE Researching
    BY <2>3 DEF Researching
  <2>4. CASE Contracting
    BY <2>4 DEF Contracting
  <2>5. CASE Meetings \/ Webhooks \/ Breaker \/ Router \/ Browser
    BY <2>5 DEF Meetings, Webhooks, Breaker, Router, Browser, decidingVars
  <2>6. CASE UNCHANGED vars
    BY <2>6 DEF vars, decidingVars
  <2>. QED  BY <2>1, <2>2, <2>3, <2>4, <2>5, <2>6 DEF Next
<1>. QED
  BY <1>1, <1>2, <1>3, PTL
     DEF Spec, MeetingSpec, WebhookSpec, BreakerSpec, RouterSpec, BrowserSpec, NbaSpec,
         TalkSpec, ResearchSpec, ContractsSpec

\* The run's statement of the channel events and of the messages of Core, n8n and the
\* workers: an event is applied once, a message is about one job.
THEOREM MessagesApplyOnce == Spec => []MessagesAreAppliedOnce
BY EachOnItsOwn, EventsOnce, MessagesCohere, PTL DEF MessagesAreAppliedOnce

\* The run's statement of the three packages that conclude: what is decided, answered
\* and asserted rests on what is known.
THEOREM ConclusionsHold == Spec => []ConclusionsAreBacked
BY EachOnItsOwn, NextActionsHold, RepliesHold, FactsHold, PTL DEF ConclusionsAreBacked

\* The bookings, the events, the circuits, the routings, the runs of the browsers, the
\* decisions, the answers, the facts and the messages have their types, whatever the
\* constants are and however the steps of each interleave.
THEOREM ServicesTypeCorrect == Spec => []TypeOK
<1> DEFINE Parts == {"meetings", "webhooks", "breaker", "router", "browser",
                     "next", "talk", "research", "contracts"}
<1>1. Spec => [](part \in Parts)
  <2>1. Init => part \in Parts
    BY DEF Init
  <2>2. part \in Parts /\ [Next]_vars => (part \in Parts)'
    BY DEF Next, vars, Others, Meetings, Webhooks, Breaker, Router, Browser, Deciding,
           Talking, Researching, Contracting
  <2>. QED  BY <2>1, <2>2, PTL DEF Spec
<1>2. WebhookSpec => []WebhookTypeOK
  <2>1. WebhookInv => WebhookTypeOK
    BY DEF WebhookInv
  <2>. QED  BY <2>1, WebhookInvInit, WebhookInvStep, PTL DEF WebhookSpec
<1>3. NbaSpec => []NbaTypeOK
  <2>1. NbaInv /\ ScoreInv => NbaTypeOK
    BY DEF NbaInv, ScoreInv, NbaTypeOK, Sound
  <2>. QED  BY <2>1, NbaInvariant, PTL
<1>4. TalkSpec => []TalkTypeOK
  <2>1. TalkInv => TalkTypeOK
    BY DEF TalkInv
  <2>. QED  BY <2>1, TalkStart, TalkStep, PTL DEF TalkSpec
<1>5. ResearchSpec => []ResearchTypeOK
  BY ResearchStart, ResearchStep, BackedFacts, PTL DEF ResearchSpec
<1>6. ContractsSpec => []ContractsTypeOK
  <2>1. ContractsInv => ContractsTypeOK
    BY DEF ContractsInv, ContractsTypeOK
  <2>. QED  BY <2>1, ContractsInvariant, PTL
<1>7. /\ part \in Parts /\ MeetingTypeOK /\ WebhookTypeOK /\ BreakerTypeOK /\ RouterTypeOK
      /\ BrowserTypeOK /\ NbaTypeOK /\ TalkTypeOK /\ ResearchTypeOK /\ ContractsTypeOK
      => TypeOK
  BY DEF TypeOK
<1>. QED
  BY <1>1, <1>2, <1>3, <1>4, <1>5, <1>6, <1>7, EachOnItsOwn, MeetingTypeCorrect,
     BreakerTypeCorrect, RouterTypeCorrect, BrowserRunsAreTold, PTL
=============================================================================

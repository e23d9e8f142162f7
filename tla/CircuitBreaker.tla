--------------------------- MODULE CircuitBreaker ---------------------------
(***************************************************************************)
(* orchestrateSearch over InMemorySourceQuotaGuard: searches that overlap  *)
(* in one process ask their sources one after the other and share a        *)
(* circuit breaker per source.  The await of adapter.search is where they  *)
(* interleave; shouldSkip and recordOutcome are synchronous.               *)
(*                                                                         *)
(* Of a source's answer only its status counts: HEALTHY without an issue,  *)
(* DEGRADED with an issue and results, UNAVAILABLE with an issue and none  *)
(* (a throw included).  The time since openedAt is before or past          *)
(* cooldownMs.                                                             *)
(***************************************************************************)
EXTENDS Naturals, Sequences, FiniteSets, SequencesExt

CONSTANTS
  Searches,          \* searches under way at the same time
  RequestedSources,  \* request.sources, in their order
  ConfiguredSources, \* those with an adapter
  FailureThreshold

VARIABLES
  breaker,           \* by source: consecutive failures, opened, probing
  search,            \* by search: the next source, where it is, statuses so far
  admitted           \* history: by source, searches let through since it opened

breakerVars == <<breaker, search, admitted>>

Sources == ToSet(RequestedSources)

\* SearchRequestSchema wants a source; a threshold of 0 would be one of 1.
ASSUME BreakerAssumption ==
  /\ RequestedSources \in Seq(Sources) /\ RequestedSources # << >>
  /\ FailureThreshold \in Nat \ {0}

ProviderStatus == {"HEALTHY", "DEGRADED", "UNAVAILABLE"}

ClosedBreaker == [failures |-> 0, opened |-> "never", probing |-> FALSE]
NoSearch == [at |-> "idle", next |-> 0, probe |-> FALSE, statuses |-> << >>]

BreakerInit ==
  /\ breaker = [s \in Sources |-> ClosedBreaker]
  /\ search = [q \in Searches |-> NoSearch]
  /\ admitted = [s \in Sources |-> {}]

-----------------------------------------------------------------------------

SourceOf(q) == RequestedSources[search[q].next]

\* shouldSkip: closed lets through, cooling skips, and past the cooldown one
\* search is let through as a probe.
ShouldSkip(b) == b.opened = "cooling" \/ (b.opened = "cooled" /\ b.probing)

BeginSearch(q) ==
  /\ search[q].at = "idle"
  /\ search' = [search EXCEPT ![q] = [NoSearch EXCEPT !.at = "choose", !.next = 1]]
  /\ UNCHANGED <<breaker, admitted>>

\* The status joins the answer and the search goes on with the next source.
WithStatus_whenAsked(r, status) ==
  [at |-> IF r.next = Len(RequestedSources) THEN "answered" ELSE "choose",
   next |-> IF r.next = Len(RequestedSources) THEN r.next ELSE r.next + 1,
   probe |-> FALSE,
   statuses |-> IF r.at = "asking" THEN Append(r.statuses, status) ELSE r.statuses]
WithStatus(r, status) ==
  [at |-> IF r.next = Len(RequestedSources) THEN "answered" ELSE "choose",
   next |-> IF r.next = Len(RequestedSources) THEN r.next ELSE r.next + 1,
   probe |-> FALSE, statuses |-> Append(r.statuses, status)]

\* A source without adapter or with an open circuit is UNAVAILABLE unasked, and
\* that is no failure of it.
SkipSource(q) ==
  /\ search[q].at = "choose"
  /\ SourceOf(q) \notin ConfiguredSources \/ ShouldSkip(breaker[SourceOf(q)])
  /\ search' = [search EXCEPT ![q] = WithStatus(@, "UNAVAILABLE")]
  /\ UNCHANGED <<breaker, admitted>>

AskSource(q) ==
  LET s == SourceOf(q)
      probe == breaker[s].opened = "cooled" IN
  /\ search[q].at = "choose"
  /\ s \in ConfiguredSources /\ ~ShouldSkip(breaker[s])
  /\ breaker' = [breaker EXCEPT ![s].probing = @ \/ probe]
  /\ search' = [search EXCEPT ![q].at = "asking", ![q].probe = probe]
  /\ admitted' = [admitted EXCEPT ![s] = IF probe THEN @ \cup {q} ELSE @]

\* recordOutcome: a success closes the circuit, whoever reports it; a failure at
\* the threshold opens it anew from now.
RecordSuccess(s) == [breaker EXCEPT ![s] = ClosedBreaker]
\* consecutiveFailures goes on past the threshold, which nothing tells apart.
RecordFailure_keepsProbing(s) ==
  LET failures == breaker[s].failures + 1 IN
  [breaker EXCEPT ![s].failures = IF failures > FailureThreshold THEN FailureThreshold ELSE failures,
                  ![s].opened = IF failures >= FailureThreshold THEN "cooling" ELSE @]
RecordFailure(s) ==
  LET failures == breaker[s].failures + 1 IN
  [breaker EXCEPT ![s] =
     [failures |-> IF failures > FailureThreshold THEN FailureThreshold ELSE failures,
      opened |-> IF failures >= FailureThreshold THEN "cooling" ELSE @.opened,
      probing |-> FALSE]]

SourceAnswers(q, status) ==
  LET s == SourceOf(q) IN
  /\ search[q].at = "asking"
  /\ breaker' = IF status = "UNAVAILABLE" THEN RecordFailure(s) ELSE RecordSuccess(s)
  /\ admitted' = [admitted EXCEPT ![s] = IF breaker'[s].opened = "cooled" THEN @ ELSE {}]
  /\ search' = [search EXCEPT ![q] = WithStatus(@, status)]

CooldownPasses(s) ==
  /\ breaker[s].opened = "cooling"
  /\ breaker' = [breaker EXCEPT ![s].opened = "cooled"]
  /\ UNCHANGED <<search, admitted>>

ReturnSearch(q) ==
  /\ search[q].at = "answered"
  /\ search' = [search EXCEPT ![q] = NoSearch]
  /\ UNCHANGED <<breaker, admitted>>

BreakerNext ==
  \/ \E q \in Searches :
       \/ BeginSearch(q) \/ SkipSource(q) \/ AskSource(q) \/ ReturnSearch(q)
       \/ \E status \in ProviderStatus : SourceAnswers(q, status)
  \/ \E s \in Sources : CooldownPasses(s)

BreakerSpec == BreakerInit /\ [][BreakerNext]_breakerVars

-----------------------------------------------------------------------------
(* Properties.                                                             *)

BreakerTypeOK ==
  /\ breaker \in [Sources -> [failures : 0..FailureThreshold,
                              opened : {"never", "cooling", "cooled"}, probing : BOOLEAN]]
  /\ search \in [Searches -> [at : {"idle", "choose", "asking", "answered"},
                              next : Nat, probe : BOOLEAN, statuses : Seq(ProviderStatus)]]
  /\ \A q \in Searches :
       /\ search[q].at # "idle" => search[q].next \in DOMAIN RequestedSources
       /\ search[q].at # "idle" =>
            Len(search[q].statuses) = IF search[q].at = "answered" THEN search[q].next
                                      ELSE search[q].next - 1
  /\ admitted \in [Sources -> SUBSET Searches]

\* After each opening of a circuit one search at most probes the source, and a
\* circuit that waits for a probe has a search that is asking: no order of late
\* answers can leave a source skipped for ever.
OneProbePerOpening ==
  \A s \in Sources :
    /\ Cardinality(admitted[s]) <= 1
    /\ breaker[s].opened # "never" <=> breaker[s].failures = FailureThreshold
    /\ breaker[s].probing =>
         \E q \in Searches : search[q].at = "asking" /\ search[q].probe /\ SourceOf(q) = s
=============================================================================

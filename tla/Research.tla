------------------------------- MODULE Research --------------------------------
(***************************************************************************)
(* What is known of companies and people, and how it is kept true:         *)
(* research-cache decides whether known evidence is still good enough,     *)
(* evidence-pipeline turns a search result into evidence and evidence into *)
(* facts, contact-discovery turns a hit into a candidate, and messaging    *)
(* writes what the facts say.  All are pure; who keeps the evidence and    *)
(* calls them, in what order and when, is the environment.                 *)
(*                                                                         *)
(* Time is counted in half days.  A time stamp is an instant and the zone  *)
(* it is written in, and some comparisons are of what is written           *)
(* (TimestampSchema allows offsets).  A text is the claims it contains.    *)
(***************************************************************************)
EXTENDS Integers, FiniteSets, SequencesExt

CONSTANTS
  Subjects, Claims, Values,
  EvidenceSources,        \* id -> [type, trusted, directory, zone]
  CachePolicy,    \* [default, claims, sources]: half days; the last two are partial
  EvidenceStaleAfter,     \* markStaleEvidence, in half days
  TitleStaleAfter,\* of a job title
  MaxEvidence, MaxInvalidations, MaxResearchClock

SourceType == [type : {"GOVERNMENT", "OFFICIAL_WEBSITE", "NEWS", "DIRECTORY", "SOCIAL", "UNKNOWN"},
               trusted : BOOLEAN, directory : BOOLEAN, zone : Int]

ASSUME ResearchAssumption ==
  /\ IsFiniteSet(Claims)
  /\ \A id \in DOMAIN EvidenceSources : EvidenceSources[id] \in SourceType
  /\ CachePolicy.default \in Nat
  /\ \A c \in DOMAIN CachePolicy.claims : CachePolicy.claims[c] \in Nat
  /\ \A t \in DOMAIN CachePolicy.sources : CachePolicy.sources[t] \in Nat
  /\ EvidenceStaleAfter \in Nat /\ TitleStaleAfter \in Nat
  /\ MaxEvidence \in Nat /\ MaxInvalidations \in Nat /\ MaxResearchClock \in Nat

VARIABLES
  researchClock,
  evidence,       \* sequence of all that was ever found
  invalidations,  \* what people declared no longer true, and when
  facts,          \* the facts of the last collapse
  finding         \* what the last call concluded
researchVars == <<researchClock, evidence, invalidations, facts, finding>>

Keys == Subjects \X Claims
Stamp(at, zone) == [at |-> at, zone |-> zone]
Written(stamp) == stamp.at + stamp.zone

-----------------------------------------------------------------------------
(* Evidence.                                                               *)

ReliabilityOf == [GOVERNMENT |-> 95, OFFICIAL_WEBSITE |-> 85, NEWS |-> 65, DIRECTORY |-> 55,
                  SOCIAL |-> 45, UNKNOWN |-> 40]
classifySourceReliability(source) ==
  IF source.trusted THEN 95 ELSE IF source.directory THEN 75 ELSE ReliabilityOf[source.type]

\* One record for each claim of the text, as fresh as the fetch.
extractClaims(text) == {found \in Claims \X Values : text[found[1]] = found[2]}
buildEvidence(subject, source, text, now) ==
  {[subject |-> subject, claim |-> c[1], value |-> c[2], source |-> source,
    confidence |-> classifySourceReliability(EvidenceSources[source]),
    freshnessAt |-> Stamp(now, EvidenceSources[source].zone), status |-> "ACTIVE"] : c \in extractClaims(text)}

isStaleEvidence(item, now, staleAfter) == now - item.freshnessAt.at > staleAfter
markStaleEvidence(now) ==
  [i \in DOMAIN evidence |->
     IF evidence[i].status = "ACTIVE" /\ isStaleEvidence(evidence[i], now, EvidenceStaleAfter)
     THEN [evidence[i] EXCEPT !.status = "STALE"] ELSE evidence[i]]

-----------------------------------------------------------------------------
(* The cache.                                                              *)

groupKey_withoutSubject(item) == <<"any", item.claim>>
groupKey(item) == <<item.subject, item.claim>>

\* The shortest of the overrides; the default only without any.
resolveTtl(item) ==
  LET type == EvidenceSources[item.source].type
      overrides ==
        {CachePolicy.claims[c] : c \in {item.claim} \cap DOMAIN CachePolicy.claims}
        \cup {CachePolicy.sources[t] : t \in {type} \cap DOMAIN CachePolicy.sources} IN
  IF overrides = {} THEN CachePolicy.default
  ELSE CHOOSE ttl \in overrides : \A other \in overrides : ttl <= other

findLatestInvalidation(key) ==
  LET entries == {entry \in invalidations : entry.key = key} IN
  IF entries = {} THEN {}
  ELSE {CHOOSE e \in entries : \A other \in entries : Written(other.at) <= Written(e.at)}

Invalidated_byAnyEntry(item) == \E entry \in invalidations : entry.key = groupKey(item)
Invalidated(item) ==
  \E entry \in findLatestInvalidation(groupKey(item)) : Written(entry.at) > Written(item.freshnessAt)
Reusable(item, now) ==
  item.status = "ACTIVE" /\ now - item.freshnessAt.at <= resolveTtl(item) /\ ~Invalidated(item)

evaluateResearchCache(key, now) ==
  LET relevant == {i \in DOMAIN evidence : groupKey(evidence[i]) = key}
      reusable == {i \in relevant : Reusable(evidence[i], now)}
      active == {i \in relevant : evidence[i].status = "ACTIVE"}
      verdict ==
        CASE relevant = {} -> <<"CACHE_MISS", "NO_EVIDENCE">>
          [] relevant # {} /\ reusable # {} -> <<"CACHE_HIT", "FRESH_EVIDENCE_FOUND">>
          [] OTHER -> <<"STALE_REVALIDATE", IF \E i \in active : Invalidated(evidence[i])
                                            THEN "MANUALLY_INVALIDATED" ELSE "TTL_EXPIRED">>
  IN [kind |-> "cache", key |-> key, at |-> now, decision |-> verdict[1], reason |-> verdict[2],
      reusable |-> reusable, stale |-> relevant \ reusable]

-----------------------------------------------------------------------------
(* Facts.                                                                  *)

\* What a fact may deserve, in 1/10000.
Shares == 0..9900

\* Each piece leaves its share of what the ones before left in doubt, in 1/10000;
\* never certain.
Doubt(items) ==
  LET left[i \in 0..Len(evidence)] ==
        IF i = 0 THEN 10000
        ELSE IF i \in items THEN (left[i - 1] * (100 - evidence[i].confidence)) \div 100
        ELSE left[i - 1]
  IN left[Len(evidence)]
combineConfidence(items) ==
  LET combined == 10000 - Doubt(items) IN IF combined > 9900 THEN 9900 ELSE combined

earliestFreshness(items) ==
  evidence[CHOOSE i \in items :
    \A j \in items : Written(evidence[i].freshnessAt) <= Written(evidence[j].freshnessAt)].freshnessAt

\* The active evidence of a key, and of it what observed the same value.
ActiveEvidence == {i \in DOMAIN evidence : evidence[i].status = "ACTIVE"}
GroupOf(i) == {j \in ActiveEvidence : groupKey(evidence[j]) = groupKey(evidence[i])}
SubgroupOf(i) == {j \in GroupOf(i) : evidence[j].value = evidence[i].value}

\* One fact for every value of a key that active evidence observed: values that
\* contradict each other are kept apart, each with less confidence.
FactOf(i) ==
  LET raw == combineConfidence(SubgroupOf(i)) IN
  [subject |-> evidence[i].subject, predicate |-> evidence[i].claim, value |-> evidence[i].value,
   confidence |-> IF SubgroupOf(i) = GroupOf(i) THEN raw ELSE (raw * 60) \div 100,
   validFrom |-> earliestFreshness(SubgroupOf(i)), support |-> SubgroupOf(i)]
collapseToFacts == {FactOf(i) : i \in {k \in ActiveEvidence : \A j \in SubgroupOf(k) : k <= j}}

-----------------------------------------------------------------------------
(* Candidates and messages.                                                *)

\* Half the confidence for a name without a title or the reverse, and half for an old
\* title; nothing without either.
resolvePersonIdentity(hit, now) ==
  LET age == now - hit.fetchedAt
      status == IF ~hit.title THEN "UNKNOWN"
                ELSE IF age > TitleStaleAfter THEN "STALE" ELSE "CURRENT"
      reliability == classifySourceReliability(EvidenceSources[hit.source]) IN
  [status |-> status,
   quarters |-> IF ~hit.name /\ ~hit.title THEN 0
                ELSE reliability * (IF hit.name /\ hit.title THEN 2 ELSE 1)
                                 * (IF status = "STALE" THEN 1 ELSE 2)]

\* No candidate without the company it belongs to.
discoverContacts(linked, hit, rolePriority, now) ==
  LET identity == resolvePersonIdentity(hit, now) IN
  IF ~linked THEN [kind |-> "refused"]
  ELSE [kind |-> "candidate", hit |-> hit, at |-> now, status |-> identity.status,
        quarters |-> identity.quarters, priority |-> 4 * rolePriority + identity.quarters]

\* The best fact of each predicate, if there is one, is what the text says.
pickFact(known, predicate) ==
  CHOOSE f \in known : f.predicate = predicate
    /\ \A g \in known : g.predicate = predicate => g.confidence <= f.confidence
generateMessage(subject, known) ==
  LET told == {c \in Claims : \E f \in known : f.predicate = c} IN
  [kind |-> "message", subject |-> subject, known |-> known,
   says |-> {[claim |-> c, value |-> pickFact(known, c).value] : c \in told},
   used |-> {pickFact(known, c) : c \in told}]
lintMessage(message) ==
  \A m \in message.says : \E f \in message.known : f.predicate = m.claim /\ f.value = m.value

-----------------------------------------------------------------------------

NoFinding == [kind |-> "none"]
ResearchInit ==
  /\ researchClock = 0 /\ evidence = <<>> /\ invalidations = {}
  /\ facts = {} /\ finding = NoFinding

ResearchClockTicks ==
  /\ researchClock < MaxResearchClock /\ researchClock' = researchClock + 1
  /\ finding' = NoFinding
  /\ UNCHANGED <<evidence, invalidations, facts>>

\* Whoever was told to search again stores what was found, also if somebody else has
\* stored the same meanwhile.
StoreResult ==
  /\ \E subject \in Subjects, source \in DOMAIN EvidenceSources, text \in [Claims -> Values] :
       LET found == buildEvidence(subject, source, text, researchClock) IN
       /\ Len(evidence) + Cardinality(found) <= MaxEvidence
       /\ evidence' = evidence \o SetToSeq(found)
  /\ finding' = NoFinding
  /\ UNCHANGED <<researchClock, invalidations, facts>>

Invalidate ==
  /\ Cardinality(invalidations) < MaxInvalidations
  /\ \E key \in Keys : invalidations' = invalidations \cup {[key |-> key, at |-> Stamp(researchClock, 0)]}
  /\ finding' = NoFinding
  /\ UNCHANGED <<researchClock, evidence, facts>>

AskCache ==
  /\ \E key \in Keys : finding' = evaluateResearchCache(key, researchClock)
  /\ UNCHANGED <<researchClock, evidence, invalidations, facts>>

\* "el llamador corre primero markStaleEvidence y recien entonces pasa el resultado".
MarkStale ==
  /\ evidence' = markStaleEvidence(researchClock)
  /\ finding' = NoFinding
  /\ UNCHANGED <<researchClock, invalidations, facts>>
Collapse ==
  /\ evidence = markStaleEvidence(researchClock)
  /\ facts' = collapseToFacts /\ finding' = [kind |-> "facts"]
  /\ UNCHANGED <<researchClock, evidence, invalidations>>

\* Written from the last facts of the subject, which may be old by now.
Write ==
  /\ \E subject \in Subjects :
       finding' = generateMessage(subject, {f \in facts : f.subject = subject})
  /\ UNCHANGED <<researchClock, evidence, invalidations, facts>>

Discover ==
  /\ \E linked, name, title \in BOOLEAN, source \in DOMAIN EvidenceSources,
        fetchedAt \in 0..researchClock, role \in {0, 50, 100} :
       finding' = discoverContacts(linked,
         [name |-> name, title |-> title, source |-> source, fetchedAt |-> fetchedAt], role, researchClock)
  /\ evidence = <<>>
  /\ UNCHANGED <<researchClock, evidence, invalidations, facts>>

ResearchNext ==
  \/ ResearchClockTicks \/ StoreResult \/ Invalidate \/ AskCache
  \/ MarkStale \/ Collapse \/ Write \/ Discover
ResearchSpec == ResearchInit /\ [][ResearchNext]_researchVars

-----------------------------------------------------------------------------

ResearchTypeOK ==
  /\ researchClock \in 0..MaxResearchClock /\ Len(evidence) \in 0..MaxEvidence
  /\ \A i \in DOMAIN evidence :
       groupKey(evidence[i]) \in Keys /\ evidence[i].status \in {"ACTIVE", "STALE"}
  /\ \A f \in facts : <<f.subject, f.predicate>> \in Keys /\ f.confidence \in Shares

\* Every active piece of evidence supports exactly one fact, which says of its subject
\* what it observed, and nothing else does; no fact rests on evidence that is too old;
\* facts that contradict each other are all there, none with more than 60%, and
\* corroboration never lowers confidence.
CollapsesAreFaithful ==
  finding.kind = "facts" =>
    /\ \A i \in DOMAIN evidence :
         Cardinality({f \in facts : i \in f.support}) = IF evidence[i].status = "ACTIVE" THEN 1 ELSE 0
    /\ \A f \in facts :
         /\ f.support # {}
         /\ \A i \in f.support :
              /\ evidence[i].subject = f.subject /\ evidence[i].claim = f.predicate
              /\ evidence[i].value = f.value
              /\ researchClock - evidence[i].freshnessAt.at <= EvidenceStaleAfter
    /\ \A f, g \in facts :
         f # g /\ f.subject = g.subject /\ f.predicate = g.predicate =>
           f.value # g.value /\ f.confidence <= 6000
    /\ \A f \in facts :
         (\A g \in facts : g # f => <<g.subject, g.predicate>> # <<f.subject, f.predicate>>) =>
           \A i \in f.support : f.confidence >= evidence[i].confidence * 100

\* A cache hit names evidence of its own key that none of the ages allowed for its
\* claim and source excludes, that was found after every invalidation of the key, and
\* that supports a fact if facts are collapsed now; evidence found since is used
\* again.  Anything else is searched again.  Of invalidations this holds where both
\* stamps are written in one zone: the code compares what is written.
HitsAreFresh ==
  finding.kind = "cache" =>
    LET Now(i) == evidence[i].status = "ACTIVE" /\ groupKey(evidence[i]) = finding.key
        Young(i, limits) == \A limit \in limits : researchClock - evidence[i].freshnessAt.at <= limit
        After(i) == \A entry \in invalidations :
                      entry.key = finding.key => entry.at.at <= evidence[i].freshnessAt.at
        Limits(i) == {CachePolicy.claims[c] : c \in {evidence[i].claim} \cap DOMAIN CachePolicy.claims}
                     \cup {CachePolicy.sources[t] :
                             t \in {EvidenceSources[evidence[i].source].type} \cap DOMAIN CachePolicy.sources}
        OneZone(i) == evidence[i].freshnessAt.zone = 0 IN
    /\ (finding.decision = "CACHE_HIT") <=> (finding.reusable # {})
    /\ \A i \in finding.reusable :
         /\ Now(i) /\ Young(i, Limits(i)) /\ (OneZone(i) => After(i))
         /\ Limits(i) = {} => Young(i, {CachePolicy.default})
         /\ \E f \in collapseToFacts : i \in f.support /\ <<f.subject, f.predicate>> = finding.key
    /\ finding.decision # "CACHE_HIT" =>
         \A i \in DOMAIN evidence :
           Now(i) /\ OneZone(i) => ~After(i) \/ ~Young(i, Limits(i))
                                   \/ (Limits(i) = {} /\ ~Young(i, {CachePolicy.default}))

\* A message about a subject says one value of a claim, its best supported, and
\* nothing that the facts given to it do not say of that subject; a candidate has a
\* company, and without a name, a title or a title that is current at most half of the
\* confidence that its source deserves.
ClaimsAreSupported ==
  /\ finding.kind = "message" =>
       /\ lintMessage(finding)
       /\ \A m \in finding.says :
            /\ \A n \in finding.says : n.claim = m.claim => n = m
            /\ \E f \in facts : f.subject = finding.subject /\ f.value = m.value /\ f.predicate = m.claim
       /\ \A f \in facts : f.subject = finding.subject => \E m \in finding.says : m.claim = f.predicate
  /\ finding.kind = "candidate" =>
       LET whole == 4 * classifySourceReliability(EvidenceSources[finding.hit.source]) IN
       /\ finding.quarters \in {0, whole \div 4, whole \div 2, whole}
       /\ finding.quarters = whole =>
            finding.hit.name /\ finding.hit.title /\ finding.at - finding.hit.fetchedAt <= TitleStaleAfter
       /\ finding.quarters = 0 => ~finding.hit.name /\ ~finding.hit.title

FactsAreBacked == CollapsesAreFaithful /\ HitsAreFresh /\ ClaimsAreSupported
=============================================================================

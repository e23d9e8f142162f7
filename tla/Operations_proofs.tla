--------------------------- MODULE Operations_proofs ---------------------------
(* What authority, the AI gateway, the alerts, the operations center, the   *)
(* first administrator, the audit of sessions, the seeded rights and the    *)
(* scripts of the machine promise, for every number of actors, candidates,  *)
(* evaluators, people, databases and processes and every bound.             *)
EXTENDS MCOperations, OrderLemmas, SequenceTheorems, FiniteSetTheorems, TLAPS

-----------------------------------------------------------------------------
(* The AI gateway.                                                         *)

\* The attempt of a candidate and who ended it.
TryOk(n) ==
  /\ tries[n].i = n
  /\ tries[n].result = "SUCCEEDED" => n = Len(tries) /\ asked.at = "answered"
  /\ tries[n].sent <=> Refusal(asked.candidates[n]) = "none"
  /\ tries[n].result = "TIMEOUT" => tries[n].why # {}

\* As many candidates were tried as the place in the chain says.
PlaceOk ==
  /\ asked.at = "idle" => Len(tries) = 0
  /\ asked.at # "idle" => asked.i \in 1..Len(asked.candidates)
  /\ asked.at \in {"trying", "in_flight"} => Len(tries) = asked.i - 1
  /\ asked.at = "answered" => Len(tries) = asked.i

\* An abort has a reason, and a request is in flight only if it may be.
FlightOk ==
  /\ asked.at = "in_flight" => Refusal(Candidate) = "none" /\ (aborting <=> reasons # {})
  /\ asked.at # "in_flight" => reasons = {}

\* The caller's signal fires once: in the attempt in flight or in an earlier one.
SignalOk ==
  /\ ~cancelled => "caller" \notin reasons
  /\ \A n \in DOMAIN tries : "caller" \in tries[n].why => cancelled /\ "caller" \notin reasons
  /\ \A m, n \in DOMAIN tries : "caller" \in tries[m].why /\ "caller" \in tries[n].why => m = n

AnswerOk ==
  asked.at = "answered" =>
    LET last == tries[Len(tries)].result
    IN  \/ last = "SUCCEEDED" /\ asked.answer = "SUCCEEDED"
        \/ /\ last # "SUCCEEDED" /\ Len(tries) = Len(asked.candidates)
           /\ asked.answer = "ALL_CANDIDATES_FAILED" /\ asked.cause = last

GatewayInv ==
  /\ GatewayTypeOK
  /\ PlaceOk /\ FlightOk /\ SignalOk /\ AnswerOk
  /\ \A n \in DOMAIN tries : TryOk(n)

Attempt == [i : Nat, result : Errors \cup {"SUCCEEDED"}, sent : BOOLEAN,
            why : SUBSET {"caller", "timer"}]
GatewayCall == [at : {"idle", "trying", "in_flight", "answered"},
         candidates : Seq(GatewayRequests), i : Nat,
         answer : {"none", "SUCCEEDED", "ALL_CANDIDATES_FAILED"}, cause : Errors \cup {"none"}]

LEMMA GatewayFacts ==
  ASSUME GatewayInv
  PROVE  /\ tries \in Seq(Attempt) /\ asked \in GatewayCall
         /\ Len(tries) \in Nat /\ DOMAIN tries = 1..Len(tries)
         /\ Len(asked.candidates) \in Nat
         /\ \A n \in DOMAIN tries : tries[n] \in Attempt
<1>1. tries \in Seq(Attempt) /\ asked \in GatewayCall
  BY DEF GatewayInv, GatewayTypeOK, Attempt, GatewayCall
<1>2. Len(tries) \in Nat /\ DOMAIN tries = 1..Len(tries)
  BY <1>1
<1>3. \A n \in DOMAIN tries : tries[n] \in Attempt
  BY <1>1, <1>2, ElementOfSeq
<1>4. Len(asked.candidates) \in Nat
  <2>1. asked.candidates \in Seq(GatewayRequests)
    BY <1>1 DEF GatewayCall
  <2>. QED  BY <2>1
<1>. QED  BY <1>1, <1>2, <1>3, <1>4

LEMMA AskKeeps ==
  ASSUME GatewayInv, NEW candidates \in CandidateLists, Ask(candidates)
  PROVE  GatewayInv'
<1>1. candidates \in Seq(GatewayRequests) /\ Len(candidates) \in Nat /\ 1 <= Len(candidates)
  <2>1. PICK n \in 1..MaxCandidates : candidates \in [1..n -> GatewayRequests]
    BY DEF CandidateLists
  <2>2. n \in Nat /\ n >= 1
    BY <2>1, GatewayAssumption DEF GatewayAssumption
  <2>3. candidates \in Seq(GatewayRequests)
    BY <2>1, <2>2, SeqDef
  <2>4. Len(candidates) \in Nat /\ 1..n = 1..Len(candidates)
    BY <2>1, <2>3
  <2>. QED  BY <2>2, <2>3, <2>4
<1>2. /\ asked'.at = "trying" /\ asked'.candidates = candidates /\ asked'.i = 1
      /\ asked'.answer = "none" /\ asked'.cause = "none" /\ asked' \in GatewayCall
  BY <1>1 DEF Ask, NotAsked, GatewayCall
<1>3. Len(tries) = 0 /\ asked.at = "idle" /\ DOMAIN tries = {}
  BY GatewayFacts DEF Ask, GatewayInv, PlaceOk
<1>4. UNCHANGED <<cancelled, aborting, tries, reasons>>
  BY DEF Ask
<1>5. GatewayTypeOK'
  BY <1>2, <1>4 DEF GatewayInv, GatewayTypeOK, GatewayCall
<1>6. PlaceOk'
  BY <1>1, <1>2, <1>3, <1>4 DEF PlaceOk
<1>7. FlightOk' /\ SignalOk' /\ AnswerOk'
  BY <1>2, <1>3, <1>4 DEF GatewayInv, FlightOk, SignalOk, AnswerOk
<1>8. DOMAIN tries' = {}
  BY <1>3, <1>4
<1>. QED  BY <1>5, <1>6, <1>7, <1>8 DEF GatewayInv

\* The end of an attempt, whatever ended it.
LEMMA SettleKeeps ==
  ASSUME GatewayInv, asked.at \in {"trying", "in_flight"},
         NEW result \in Errors \cup {"SUCCEEDED"}, NEW sent \in BOOLEAN,
         Settle(result, sent), UNCHANGED <<cancelled, aborting>>,
         sent <=> Refusal(Candidate) = "none",
         result = "TIMEOUT" => reasons # {}
  PROVE  GatewayInv'
<1> DEFINE try == [i |-> asked.i, result |-> result, sent |-> sent, why |-> reasons]
           n == Len(tries) + 1
<1>1. /\ Len(tries) \in Nat /\ n \in Nat /\ asked \in GatewayCall /\ asked.i = n
      /\ asked.i \in 1..Len(asked.candidates) /\ Len(asked.candidates) \in Nat
      /\ DOMAIN tries = 1..Len(tries) /\ tries \in Seq(Attempt)
      /\ reasons \in SUBSET {"caller", "timer"}
  <2>1. /\ Len(tries) \in Nat /\ asked \in GatewayCall /\ Len(asked.candidates) \in Nat
        /\ DOMAIN tries = 1..Len(tries) /\ tries \in Seq(Attempt)
    BY GatewayFacts
  <2>2. /\ asked.i \in 1..Len(asked.candidates) /\ Len(tries) = asked.i - 1
        /\ reasons \in SUBSET {"caller", "timer"}
    BY DEF GatewayInv, PlaceOk, GatewayTypeOK
  <2>3. asked.i \in Nat
    BY <2>1 DEF GatewayCall
  <2>4. asked.i = n /\ n \in Nat
    BY <2>1, <2>2, <2>3
  <2>. QED  BY <2>1, <2>2, <2>4
<1>2. try \in Attempt /\ try.i = n /\ try.result = result /\ try.sent = sent
      /\ try.why = reasons
  BY <1>1 DEF Attempt, GatewayCall
<1>3. tries' = Append(tries, try) /\ reasons' = {}
  BY DEF Settle
<1> HIDE DEF try
<1>4. /\ tries' \in Seq(Attempt) /\ Len(tries') = n /\ tries'[n] = try
      /\ \A m \in 1..Len(tries) : tries'[m] = tries[m]
  <2>1. \A m \in 1..Len(tries) : Append(tries, try)[m] = tries[m]
    BY <1>1, <1>2, AppendProperties
  <2>2. Append(tries, try) \in Seq(Attempt) /\ Len(Append(tries, try)) = n
    BY <1>1, <1>2, AppendProperties
  <2>3. Append(tries, try)[n] = try
    BY <1>1, <1>2, AppendProperties
  <2>. QED  BY <1>3, <2>1, <2>2, <2>3
<1>5. DOMAIN tries' = 1..n /\ \A m \in 1..n : m = n \/ m \in DOMAIN tries
  BY <1>1, <1>4
<1>6. \A m \in DOMAIN tries : tries'[m] = tries[m] /\ TryOk(m) /\ tries[m].result # "SUCCEEDED"
  BY <1>1, <1>4 DEF GatewayInv, TryOk
<1>7. asked' \in GatewayCall /\ asked'.candidates = asked.candidates
      /\ \/ /\ result = "SUCCEEDED" /\ asked'.at = "answered" /\ asked'.i = n
            /\ asked'.answer = "SUCCEEDED"
         \/ /\ result # "SUCCEEDED" /\ n < Len(asked.candidates)
            /\ asked'.at = "trying" /\ asked'.i = n + 1
         \/ /\ result # "SUCCEEDED" /\ n = Len(asked.candidates)
            /\ asked'.at = "answered" /\ asked'.i = n
            /\ asked'.answer = "ALL_CANDIDATES_FAILED" /\ asked'.cause = result
  <2>1. CASE Ends(result)
    BY <1>1, <2>1 DEF Settle, Ends, GatewayCall
  <2>2. CASE ~Ends(result) /\ asked.i < Len(asked.candidates)
    <3>1. asked' = [asked EXCEPT !.at = "trying", !.i = @ + 1]
      BY <2>2 DEF Settle
    <3>2. asked.i + 1 \in Nat
      BY <1>1
    <3>. QED  BY <1>1, <2>2, <3>1, <3>2 DEF Ends, GatewayCall
  <2>3. CASE ~Ends(result) /\ ~(asked.i < Len(asked.candidates))
    <3>1. asked' = [asked EXCEPT !.at = "answered", !.answer = "ALL_CANDIDATES_FAILED",
                                 !.cause = result]
      BY <2>3 DEF Settle
    <3>2. result # "SUCCEEDED" /\ result \in Errors /\ n = Len(asked.candidates)
      BY <1>1, <2>3 DEF Ends
    <3>. QED  BY <1>1, <3>1, <3>2 DEF GatewayCall
  <2>. QED  BY <2>1, <2>2, <2>3
<1>8. GatewayTypeOK'
  BY <1>3, <1>4, <1>7 DEF GatewayInv, GatewayTypeOK, GatewayCall, Attempt
<1>9. PlaceOk'
  BY <1>1, <1>4, <1>7 DEF PlaceOk
<1>10. FlightOk'
  BY <1>3, <1>7 DEF FlightOk
<1>11. SignalOk'
  <2>1. \A m \in DOMAIN tries : "caller" \in tries[m].why => cancelled /\ "caller" \notin reasons
    BY DEF GatewayInv, SignalOk
  <2>2. "caller" \in reasons => cancelled
    BY DEF GatewayInv, SignalOk
  <2>3. \A m \in DOMAIN tries' : "caller" \in tries'[m].why => cancelled
    BY <1>2, <1>4, <1>5, <1>6, <2>1, <2>2
  <2>4. \A m, k \in DOMAIN tries' : "caller" \in tries'[m].why /\ "caller" \in tries'[k].why => m = k
    BY <1>2, <1>4, <1>5, <1>6, <2>1 DEF GatewayInv, SignalOk
  <2>. QED  BY <1>3, <2>3, <2>4 DEF SignalOk
<1>12. AnswerOk'
  BY <1>2, <1>4, <1>7 DEF AnswerOk
<1>13. \A m \in DOMAIN tries' : TryOk(m)'
  <2> SUFFICES ASSUME NEW m \in DOMAIN tries'
               PROVE  TryOk(m)'
    OBVIOUS
  <2>1. CASE m = n
    BY <1>1, <1>2, <1>4, <1>7, <2>1 DEF TryOk, Candidate
  <2>2. CASE m \in DOMAIN tries
    BY <1>6, <1>7, <2>2 DEF TryOk
  <2>. QED  BY <1>5, <2>1, <2>2
<1>. QED  BY <1>8, <1>9, <1>10, <1>11, <1>12, <1>13 DEF GatewayInv

LEMMA ResultIsNoTimeout ==
  ASSUME NEW provider \in Providers, NEW answer \in ProviderAnswers
  PROVE  Result(provider, answer) \in (Errors \cup {"SUCCEEDED"}) \ {"TIMEOUT"}
<1>1. classifyHttpError(answer) \in (Errors \cup {"SUCCEEDED"}) \ {"TIMEOUT"}
  BY DEF classifyHttpError, Errors
<1>2. AnthropicResult(answer) \in (Errors \cup {"SUCCEEDED"}) \ {"TIMEOUT"}
  BY <1>1 DEF AnthropicResult, Errors
<1>3. OllamaResult(answer) \in (Errors \cup {"SUCCEEDED"}) \ {"TIMEOUT"}
  BY <1>1 DEF OllamaResult, Errors
<1>. QED  BY <1>1, <1>2, <1>3 DEF Result, Providers

LEMMA GatewayStep ==
  ASSUME GatewayInv, [GatewayNext]_gatewayVars
  PROVE  GatewayInv'
<1>1. ASSUME NEW candidates \in CandidateLists, Ask(candidates)
      PROVE  GatewayInv'
  BY <1>1, AskKeeps
<1>2. ASSUME Refuse
      PROVE  GatewayInv'
  <2>1. Refusal(Candidate) \in {"PROVIDER_UNAVAILABLE", "UNSUPPORTED_CAPABILITY"}
    BY <1>2 DEF Refuse, Refusal
  <2>2. Refusal(Candidate) \in Errors \cup {"SUCCEEDED"} /\ Refusal(Candidate) # "TIMEOUT"
        /\ Refusal(Candidate) # "none"
    BY <2>1 DEF Errors
  <2>. QED  BY <1>2, <2>2, SettleKeeps DEF Refuse
<1>3. ASSUME SendRequest
      PROVE  GatewayInv'
  <2>1. /\ asked'.at = "in_flight" /\ asked'.candidates = asked.candidates /\ asked'.i = asked.i
        /\ asked' \in GatewayCall
    BY <1>3, GatewayFacts DEF SendRequest, GatewayCall
  <2>2. reasons = {} /\ asked.at = "trying" /\ UNCHANGED <<cancelled, tries, reasons>>
        /\ aborting' = FALSE /\ Refusal(Candidate) = "none"
    BY <1>3 DEF SendRequest, GatewayInv, FlightOk
  <2>3. GatewayTypeOK'
    BY <2>1, <2>2 DEF GatewayInv, GatewayTypeOK, GatewayCall
  <2>4. FlightOk'
    BY <2>1, <2>2 DEF FlightOk, Candidate
  <2>5. \A n \in DOMAIN tries' : TryOk(n)'
    BY <2>1, <2>2 DEF GatewayInv, TryOk
  <2>. QED  BY <2>1, <2>2, <2>3, <2>4, <2>5 DEF GatewayInv, PlaceOk, SignalOk, AnswerOk
<1>4. ASSUME CallerAborts \/ TimerFires
      PROVE  GatewayInv'
  <2>1. UNCHANGED <<asked, tries>> /\ reasons' \in SUBSET {"caller", "timer"}
    BY <1>4 DEF CallerAborts, TimerFires, GatewayInv, GatewayTypeOK
  <2>2. /\ cancelled' \in BOOLEAN /\ aborting' \in BOOLEAN /\ (cancelled => cancelled')
        /\ asked.at # "in_flight" => reasons' = reasons
        /\ asked.at = "in_flight" => aborting' /\ reasons' # {}
        /\ "caller" \in reasons' => cancelled' /\ (cancelled => "caller" \in reasons)
    <3>1. CASE CallerAborts
      BY <3>1 DEF CallerAborts, GatewayInv, GatewayTypeOK, SignalOk
    <3>2. CASE TimerFires
      BY <3>2 DEF TimerFires, GatewayInv, GatewayTypeOK, SignalOk
    <3>. QED  BY <1>4, <3>1, <3>2
  <2>3. GatewayTypeOK'
    BY <2>1, <2>2 DEF GatewayInv, GatewayTypeOK
  <2>4. FlightOk'
    BY <2>1, <2>2 DEF GatewayInv, FlightOk, Candidate
  <2>5. SignalOk'
    BY <2>1, <2>2 DEF GatewayInv, SignalOk
  <2>6. \A n \in DOMAIN tries' : TryOk(n)'
    BY <2>1 DEF GatewayInv, TryOk
  <2>. QED  BY <2>1, <2>3, <2>4, <2>5, <2>6 DEF GatewayInv, PlaceOk, AnswerOk
<1>5. ASSUME AbortIsHeard
      PROVE  GatewayInv'
  <2>1. asked.at = "in_flight" /\ reasons # {} /\ Refusal(Candidate) = "none"
    BY <1>5 DEF AbortIsHeard, GatewayInv, FlightOk
  <2>2. "TIMEOUT" \in Errors \cup {"SUCCEEDED"}
    BY DEF Errors
  <2>. QED  BY <1>5, <2>1, <2>2, SettleKeeps DEF AbortIsHeard
<1>6. ASSUME NEW answer \in ProviderAnswers, ProviderReplies(answer)
      PROVE  GatewayInv'
  <2>1. asked.at = "in_flight" /\ Refusal(Candidate) = "none"
    BY <1>6 DEF ProviderReplies, GatewayInv, FlightOk
  <2>2. Candidate.provider \in Providers
    BY <2>1 DEF Refusal
  <2>3. Result(Candidate.provider, answer) \in (Errors \cup {"SUCCEEDED"}) \ {"TIMEOUT"}
    BY <2>2, ResultIsNoTimeout
  <2>. QED  BY <1>6, <2>1, <2>3, SettleKeeps DEF ProviderReplies
<1>7. CASE UNCHANGED gatewayVars
  BY <1>7 DEF gatewayVars, GatewayInv, GatewayTypeOK, PlaceOk, FlightOk, Candidate, SignalOk,
              AnswerOk, TryOk
<1>. QED  BY <1>1, <1>2, <1>3, <1>4, <1>5, <1>6, <1>7 DEF GatewayNext

LEMMA GatewayStart ==
  ASSUME GatewayInit
  PROVE  GatewayInv
<1>1. tries = << >> /\ Len(tries) = 0 /\ DOMAIN tries = {} /\ tries \in Seq(Attempt)
  BY EmptySeq DEF GatewayInit
<1>2. << >> \in Seq(GatewayRequests)
  BY EmptySeq
<1>3. asked \in GatewayCall /\ asked.at = "idle"
  BY <1>2 DEF GatewayInit, NotAsked, GatewayCall
<1>4. GatewayTypeOK
  BY <1>1, <1>3 DEF GatewayInit, GatewayTypeOK, GatewayCall, Attempt
<1>. QED  BY <1>1, <1>3, <1>4
          DEF GatewayInit, GatewayInv, PlaceOk, FlightOk, SignalOk, AnswerOk

LEMMA GatewayInvariant == GatewaySpec => []GatewayInv
BY GatewayStart, GatewayStep, PTL DEF GatewaySpec

LEMMA FallbackTells ==
  ASSUME GatewayInv
  PROVE  FallbackTellsWhatHappened
<1> DEFINE aborted == {n \in DOMAIN tries : "caller" \in tries[n].why}
<1>1. Cardinality(aborted) <= 1
  <2>1. CASE aborted = {}
    <3>1. Cardinality({}) = 0
      BY FS_EmptySet
    <3>. QED  BY <2>1, <3>1
  <2>2. CASE aborted # {}
    <3>1. PICK n : n \in aborted
      BY <2>2
    <3>2. aborted = {n}
      BY <3>1 DEF GatewayInv, SignalOk
    <3>3. Cardinality({n}) = 1
      BY FS_Singleton
    <3>. QED  BY <3>2, <3>3
  <2>. QED  BY <2>1, <2>2
<1>2. \A n \in DOMAIN tries :
        /\ tries[n].i = n
        /\ tries[n].result = "SUCCEEDED" => n = Len(tries) /\ asked.at = "answered"
        /\ tries[n].sent <=> Refusal(asked.candidates[n]) = "none"
        /\ tries[n].result = "TIMEOUT" => tries[n].why # {}
  BY DEF GatewayInv, TryOk
<1>. QED  BY <1>1, <1>2 DEF FallbackTellsWhatHappened, GatewayInv, FlightOk, AnswerOk

\* A call and its attempts keep their types: every result is one of the gateway's codes.
THEOREM GatewayTypeCorrect == GatewaySpec => []GatewayTypeOK
<1>1. GatewayInv => GatewayTypeOK
  BY DEF GatewayInv
<1>. QED  BY <1>1, GatewayInvariant, PTL

\* However the timer, the caller and the providers race, the chain of candidates is
\* tried in order and its answer tells what happened.
THEOREM FallbackTellsTheTruth == GatewaySpec => []FallbackTellsWhatHappened
BY GatewayInvariant, FallbackTells, PTL

-----------------------------------------------------------------------------
(* The operations center.                                                  *)

Statuses == {"PENDING", "QUEUED", "RUNNING", "RETRY_SCHEDULED", "SUCCEEDED", "PARTIAL",
             "FAILED", "DEAD_LETTER", "CANCELLED"}
Notices == {"none", "operation-complete", "session-required", "not-authorized",
            "state-conflict", "operation-failed"}

\* The command is one that a page of this section offers for what the page showed.
Offered(command, keys, status) ==
  command \in IF section = "jobs" THEN jobControls(keys, status)
              ELSE approvalControls(keys, status)

\* What the shapes of the history and of the page are.
ShapesOk ==
  /\ principal = [a \in Actors |-> principal[a]]
  /\ heard \in [done : BOOLEAN, explained : BOOLEAN, retries : Nat]
  /\ page \in [connected : BOOLEAN, roles : {page.roles}, read : SUBSET {"jobs", "approvals"},
               row : {page.row}]
  /\ page.read # {} => page.roles # {}

\* A command under way has had no answer, and was offered.
UnderWayOk ==
  at \in {"SENT", "KNOWN"} =>
    /\ heard = Unheard /\ notice = "none" /\ page = Disconnected
    /\ Offered(form.command, form.roles, form.seen.status)
KnownOk == at = "KNOWN" => \E keys : principal[person] = Human(person, keys)

\* What was done stands: no later step of anybody undoes it.
DoneOk ==
  heard.done =>
    \/ section = "jobs" /\ form.command = "cancel" /\ job.status = "CANCELLED"
    \/ section = "jobs" /\ form.command = "retry" /\ job.retries > heard.retries
    \/ /\ section = "approvals" /\ form.command \in Verdicts
       /\ approval.status = form.command /\ approval.approver = person

NoticeOk ==
  /\ notice = "operation-complete" => heard.done
  /\ notice \in {"session-required", "not-authorized", "state-conflict"} => ~heard.done
  /\ notice \in {"not-authorized", "state-conflict"} => heard.explained

\* A row read after the command shows it.
PageOk == heard.done /\ section \in page.read => Shows

ConsoleInv ==
  /\ ConsoleTypeOK
  /\ ShapesOk /\ UnderWayOk /\ KnownOk /\ DoneOk /\ NoticeOk /\ PageOk

\* A step of somebody else: the job and the approval move on, and nothing done is undone.
LEMMA OthersMove ==
  ASSUME ConsoleInv, UNCHANGED <<person, section, principal, tabVars>>,
         job' \in [status : Statuses, retries : 0..3],
         approval' \in [status : {"PENDING"} \cup Verdicts, requester : Actors,
                        expiresAt : {NoExpiry, 1}, approver : Humans \cup {"none"}],
         job.status = "CANCELLED" => job'.status = "CANCELLED",
         job'.retries >= job.retries,
         approval.status # "PENDING" =>
           approval'.status = approval.status /\ approval'.approver = approval.approver
  PROVE  ConsoleInv'
<1>1. /\ person' = person /\ section' = section /\ principal' = principal
      /\ at' = at /\ page' = page /\ notice' = notice /\ form' = form /\ heard' = heard
  BY DEF tabVars
<1>2. ConsoleTypeOK'
  BY <1>1 DEF ConsoleInv, ConsoleTypeOK, Statuses
<1>3. ShapesOk' /\ KnownOk' /\ NoticeOk'
  BY <1>1 DEF ConsoleInv, ShapesOk, KnownOk, NoticeOk
<1>4. UnderWayOk'
  BY <1>1 DEF ConsoleInv, UnderWayOk, Offered
<1>5. DoneOk'
  <2>1. job.retries \in 0..3 /\ job'.retries \in 0..3 /\ heard.retries \in Nat
    BY DEF ConsoleInv, ConsoleTypeOK, ShapesOk
  <2>2. \A v \in Verdicts : v # "PENDING"
    BY DEF Verdicts
  <2>. QED  BY <1>1, <2>1, <2>2 DEF ConsoleInv, DoneOk
<1>6. PageOk'
  BY <1>1 DEF ConsoleInv, PageOk, Shows
<1>. QED  BY <1>2, <1>3, <1>4, <1>5, <1>6 DEF ConsoleInv

\* A command that is not refused and was carried out.
LEMMA CarryMoves ==
  ASSUME ConsoleTypeOK, NEW h \in Humans, NEW keys, NEW command \in JobCommands \cup Verdicts,
         StatusOf(Human(h, keys), command) = 200, Carry(Human(h, keys), command)
  PROVE  /\ job' \in [status : Statuses, retries : 0..3]
         /\ approval' \in [status : {"PENDING"} \cup Verdicts, requester : Actors,
                           expiresAt : {NoExpiry, 1}, approver : Humans \cup {"none"}]
         /\ job.status = "CANCELLED" => job'.status = "CANCELLED"
         /\ job'.retries >= job.retries
         /\ approval.status # "PENDING" =>
              approval'.status = approval.status /\ approval'.approver = approval.approver
         /\ command = "cancel" => job'.status = "CANCELLED"
         /\ command = "retry" => job'.retries = job.retries + 1
         /\ command \in Verdicts => approval'.status = command /\ approval'.approver = h
<1>1. /\ job \in [status : Statuses, retries : 0..3]
      /\ approval \in [status : {"PENDING"} \cup Verdicts, requester : Actors,
                       expiresAt : {NoExpiry, 1}, approver : Humans \cup {"none"}]
  BY DEF ConsoleTypeOK, Statuses
<1>2. CASE command = "retry"
  <2>1. job.status \in {"FAILED", "PARTIAL"} /\ ~(job.retries >= 3)
    BY <1>2 DEF StatusOf, JobRefusal, JobCommands
  <2>2. job' = [status |-> "RETRY_SCHEDULED", retries |-> job.retries + 1] /\ approval' = approval
    BY <1>2 DEF Carry, Verdicts
  <2>3. job.retries \in 0..3 /\ job.retries + 1 \in 0..3 /\ job.status # "CANCELLED"
    BY <1>1, <2>1
  <2>4. /\ job' \in [status : Statuses, retries : 0..3] /\ job'.retries = job.retries + 1
        /\ job'.retries >= job.retries
    BY <2>2, <2>3 DEF Statuses
  <2>. QED  BY <1>1, <1>2, <2>2, <2>3, <2>4 DEF Verdicts
<1>3. CASE command = "cancel"
  <2>1. job' = [job EXCEPT !.status = "CANCELLED"] /\ approval' = approval
    BY <1>3 DEF Carry, Verdicts
  <2>. QED  BY <1>1, <1>3, <2>1 DEF Statuses, Verdicts
<1>4. CASE command \in Verdicts
  <2>1. approval.status = "PENDING"
    BY <1>4 DEF StatusOf, DecisionRefusal, JobCommands, Verdicts
  <2>2. approval' = [approval EXCEPT !.status = command, !.approver = h] /\ job' = job
    BY <1>4 DEF Carry, Verdicts, Human
  <2>3. /\ approval' \in [status : {"PENDING"} \cup Verdicts, requester : Actors,
                          expiresAt : {NoExpiry, 1}, approver : Humans \cup {"none"}]
        /\ approval'.status = command /\ approval'.approver = h
    BY <1>1, <1>4, <2>2
  <2>4. command # "cancel" /\ command # "retry" /\ job'.retries >= job.retries
    BY <1>1, <1>4, <2>2 DEF Verdicts
  <2>. QED  BY <1>1, <2>1, <2>2, <2>3, <2>4
<1>. QED  BY <1>2, <1>3, <1>4 DEF JobCommands

LEMMA PolicyKeys ==
  /\ actionPolicies["START_JOB"].humanPermission = "jobs.execute"
  /\ actionPolicies["DECIDE_APPROVAL"].humanPermission = "approvals.decide"
BY DEF actionPolicies, Policy

\* A control that was offered is refused only for what moved or is not shown.
LEMMA RefusalsAreExplained ==
  ASSUME NEW keys, Offered(form.command, form.roles, form.seen.status),
         section \in {"jobs", "approvals"},
         StatusOf(Human(person, keys), form.command) \in {403, 409}
  PROVE  Explained(Human(person, keys))
<1> DEFINE p == Human(person, keys)
<1>1. p.kind = "HUMAN" /\ p.id = person /\ p.roles = keys
  BY DEF Human
<1> HIDE DEF p
<1> SUFFICES ASSUME (IF section = "jobs" THEN job ELSE approval) = form.seen,
                    keys = form.roles,
                    section = "approvals" => approval.requester # person
                                             /\ approval.expiresAt \notin 0..today,
                    ~(form.command = "retry" /\ job.retries >= 3)
             PROVE  FALSE
  BY <1>1 DEF Explained, p
<1>2. CASE section = "jobs"
  <2>1. /\ form.command \in JobCommands /\ May(keys, "jobs.execute")
        /\ form.command = "retry" => job.status \in {"FAILED", "PARTIAL"}
        /\ form.command = "cancel" => job.status \in {"PENDING", "QUEUED", "RETRY_SCHEDULED"}
    BY <1>2 DEF Offered, jobControls
  <2>2. Permitted(p, "START_JOB")
    BY <1>1, <2>1, PolicyKeys DEF Permitted, May
  <2>3. StatusOf(p, form.command) = 200
    BY <2>1, <2>2 DEF StatusOf, JobRefusal
  <2>. QED  BY <2>3 DEF p
<1>3. CASE section = "approvals"
  <2>1. form.command \in Verdicts /\ May(keys, "approvals.decide") /\ approval.status = "PENDING"
    BY <1>3 DEF Offered, approvalControls
  <2>2. Permitted(p, "DECIDE_APPROVAL")
    BY <1>1, <2>1, PolicyKeys DEF Permitted, May
  <2>3. StatusOf(p, form.command) = 200
    BY <1>1, <1>3, <2>1, <2>2 DEF StatusOf, DecisionRefusal, JobCommands, Verdicts
  <2>. QED  BY <2>3 DEF p
<1>. QED  BY <1>2, <1>3

\* A step that takes the command of the tab nowhere: the page is looked at.
LEMMA PageMoves ==
  ASSUME ConsoleInv, at \notin {"SENT", "KNOWN"}, at' \in {"READY", "LOADING"},
         UNCHANGED <<person, section, job, approval, principal>>,
         \/ UNCHANGED <<notice, form, heard>>
         \/ notice' = "none" /\ form' = NoForm /\ heard' = Unheard,
         page' \in [connected : BOOLEAN, roles : {page'.roles},
                    read : SUBSET {"jobs", "approvals"}, row : {page'.row}],
         page'.read # {} => page'.roles # {},
         page'.connected => page'.read = {"jobs", "approvals"},
         section \in page'.read =>
           \/ section \in page.read /\ page'.row = page.row
           \/ page'.row = IF section = "jobs" THEN job ELSE approval
  PROVE  ConsoleInv'
<1>1. ConsoleTypeOK'
  BY DEF ConsoleInv, ConsoleTypeOK
<1>2. ShapesOk' /\ UnderWayOk' /\ KnownOk' /\ DoneOk' /\ NoticeOk'
  <2>1. Unheard \in [done : BOOLEAN, explained : BOOLEAN, retries : Nat] /\ ~Unheard.done
    BY DEF Unheard
  <2>. QED  BY <2>1 DEF ConsoleInv, ShapesOk, UnderWayOk, KnownOk, DoneOk, NoticeOk
<1>3. PageOk'
  <2> SUFFICES ASSUME heard'.done, section \in page'.read
               PROVE  Shows'
    BY DEF PageOk
  <2>1. heard' = heard /\ form' = form /\ heard.done
    BY DEF Unheard
  <2>2. CASE section \in page.read /\ page'.row = page.row
    BY <2>1, <2>2 DEF ConsoleInv, PageOk, Shows
  <2>3. CASE page'.row = IF section = "jobs" THEN job ELSE approval
    BY <2>1, <2>3 DEF ConsoleInv, DoneOk, Shows, Verdicts
  <2>. QED  BY <2>2, <2>3
<1>. QED  BY <1>1, <1>2, <1>3 DEF ConsoleInv

LEMMA CommandKeeps ==
  ASSUME ConsoleInv, Command
  PROVE  ConsoleInv'
<1>1. /\ at = "KNOWN" /\ at' = "LOADING" /\ form' = [command |-> form.command]
      /\ UNCHANGED <<person, section, page>>
  BY DEF Command, Answer
<1>2. PICK keys : principal[person] = Human(person, keys)
  BY <1>1 DEF ConsoleInv, KnownOk
<1> DEFINE p == Human(person, keys)
           status == StatusOf(p, form.command)
<1>3. /\ heard = Unheard /\ page = Disconnected
      /\ Offered(form.command, form.roles, form.seen.status)
      /\ person \in Humans /\ section \in {"jobs", "approvals"}
  BY <1>1 DEF ConsoleInv, UnderWayOk, ConsoleTypeOK
<1>4. /\ section = "jobs" => form.command \in JobCommands
      /\ section = "approvals" => form.command \in Verdicts
  BY <1>3 DEF Offered, jobControls, approvalControls
<1>5. status \in {200, 403, 409}
  BY DEF StatusOf, JobRefusal, DecisionRefusal
<1>6. principal' = [a \in Actors |-> principal'[a]]
  <2>1. principal' = [principal EXCEPT ![person] = NoPrincipal]
    BY DEF Command, Done
  <2>2. DOMAIN principal = Actors
    BY DEF ConsoleInv, ShapesOk
  <2>. QED  BY <2>1, <2>2
<1>7. /\ Disconnected.read = {} /\ ~Disconnected.connected /\ page' = page
  BY <1>1 DEF Disconnected
<1>8. form'.command = form.command
  BY <1>1
<1>9. CASE /\ status = 200 /\ Carry(p, form.command)
           /\ \E told \in {200, 500, 0} : Answer(told)
           /\ heard' = [done |-> TRUE, explained |-> FALSE, retries |-> job.retries]
  <2>1. /\ job' \in [status : Statuses, retries : 0..3]
        /\ approval' \in [status : {"PENDING"} \cup Verdicts, requester : Actors,
                          expiresAt : {NoExpiry, 1}, approver : Humans \cup {"none"}]
        /\ form.command = "cancel" => job'.status = "CANCELLED"
        /\ form.command = "retry" => job'.retries = job.retries + 1
        /\ form.command \in Verdicts =>
             approval'.status = form.command /\ approval'.approver = person
    BY <1>3, <1>4, <1>9, CarryMoves DEF ConsoleInv
  <2>2. notice' \in {"operation-complete", "operation-failed"}
    BY <1>9 DEF Answer, resultFor
  <2>3. job.retries \in 0..3 /\ heard'.done /\ heard'.retries = job.retries
        /\ heard' \in [done : BOOLEAN, explained : BOOLEAN, retries : Nat]
    BY <1>9 DEF ConsoleInv, ConsoleTypeOK
  <2>4. ConsoleTypeOK'
    BY <1>1, <1>7, <2>1, <2>2 DEF ConsoleInv, ConsoleTypeOK, Statuses
  <2>5. ShapesOk'
    BY <1>6, <1>7, <2>3 DEF ConsoleInv, ShapesOk
  <2>6. UnderWayOk' /\ KnownOk' /\ NoticeOk'
    BY <1>1, <2>2, <2>3 DEF UnderWayOk, KnownOk, NoticeOk
  <2>7. DoneOk'
    <3>1. job'.retries > heard'.retries \/ form.command # "retry"
      BY <2>1, <2>3
    <3>. QED  BY <1>1, <1>3, <1>4, <1>8, <2>1, <3>1 DEF DoneOk, JobCommands
  <2>8. PageOk'
    BY <1>3, <1>7 DEF PageOk
  <2>. QED  BY <2>4, <2>5, <2>6, <2>7, <2>8 DEF ConsoleInv
<1>10. CASE /\ \E told \in {500, 0} \cup ({status} \ {200}) : Answer(told)
            /\ heard' = [Unheard EXCEPT !.explained = Explained(p)]
            /\ UNCHANGED <<job, approval>>
  <2>1. /\ heard' \in [done : BOOLEAN, explained : BOOLEAN, retries : Nat]
        /\ ~heard'.done /\ heard'.explained = Explained(p)
    BY <1>10 DEF Unheard, Explained
  <2>2. \/ notice' = "operation-failed"
        \/ status \in {403, 409} /\ notice' \in {"not-authorized", "state-conflict"}
    BY <1>5, <1>10 DEF Answer, resultFor
  <2>3. status \in {403, 409} => heard'.explained
    BY <1>3, <2>1, RefusalsAreExplained
  <2>4. ConsoleTypeOK'
    BY <1>1, <1>7, <1>10, <2>2 DEF ConsoleInv, ConsoleTypeOK
  <2>5. ShapesOk'
    BY <1>6, <1>7, <2>1 DEF ConsoleInv, ShapesOk
  <2>6. UnderWayOk' /\ KnownOk' /\ DoneOk' /\ PageOk'
    BY <1>1, <2>1 DEF UnderWayOk, KnownOk, DoneOk, PageOk
  <2>7. NoticeOk'
    BY <2>1, <2>2, <2>3 DEF NoticeOk
  <2>. QED  BY <2>4, <2>5, <2>6, <2>7 DEF ConsoleInv
<1>. QED  BY <1>2, <1>9, <1>10 DEF Command

LEMMA SubmitKeeps ==
  ASSUME ConsoleInv, NEW command \in JobCommands \cup Verdicts, Submit(command)
  PROVE  ConsoleInv'
<1>1. /\ at' = "SENT" /\ page' = Disconnected /\ notice' = "none" /\ heard' = Unheard
      /\ UNCHANGED <<person, section, job, approval, principal>>
  BY DEF Submit, accessVars
<1>2. form' = [command |-> command, roles |-> page.roles, seen |-> page.row]
      /\ Offered(command, page.roles, page.row.status)
  BY DEF Submit, Offered
<1>3. form'.command = command /\ form'.roles = page.roles /\ form'.seen = page.row
  BY <1>2
<1>4. /\ Disconnected.read = {} /\ ~Disconnected.connected
      /\ Disconnected \in [connected : BOOLEAN, roles : {Disconnected.roles},
                           read : SUBSET {"jobs", "approvals"}, row : {Disconnected.row}]
      /\ Unheard \in [done : BOOLEAN, explained : BOOLEAN, retries : Nat] /\ ~Unheard.done
  BY DEF Disconnected, Unheard
<1>5. ConsoleTypeOK'
  BY <1>1, <1>4 DEF ConsoleInv, ConsoleTypeOK
<1>6. ShapesOk' /\ KnownOk' /\ DoneOk' /\ NoticeOk' /\ PageOk'
  BY <1>1, <1>4 DEF ConsoleInv, ShapesOk, KnownOk, DoneOk, NoticeOk, PageOk
<1>7. UnderWayOk'
  BY <1>1, <1>2, <1>3 DEF UnderWayOk, Offered
<1>. QED  BY <1>5, <1>6, <1>7 DEF ConsoleInv

LEMMA AuthenticateKeeps ==
  ASSUME ConsoleInv, Authenticate \/ RefuseAuthentication
  PROVE  ConsoleInv'
<1>1. /\ at = "SENT" /\ heard = Unheard /\ ~heard.done /\ notice = "none" /\ page = Disconnected
      /\ UNCHANGED <<person, section, job, approval, page, heard>> /\ person \in Humans
  BY DEF Authenticate, RefuseAuthentication, ConsoleInv, UnderWayOk, Unheard, ConsoleTypeOK
<1>2. CASE Authenticate
  <2>1. /\ at' = "KNOWN" /\ UNCHANGED <<notice, form>>
        /\ principal' = [principal EXCEPT ![person] = Human(person, roles[person])]
    BY <1>1, <1>2 DEF Authenticate, Begin
  <2>2. person \in Actors /\ DOMAIN principal = Actors
    BY <1>1 DEF Actors, ConsoleInv, ShapesOk
  <2>3. principal'[person] = Human(person, roles[person])
        /\ principal' = [a \in Actors |-> principal'[a]]
    BY <2>1, <2>2
  <2>4. ConsoleTypeOK' /\ ShapesOk' /\ KnownOk'
    BY <1>1, <2>1, <2>3 DEF ConsoleInv, ConsoleTypeOK, ShapesOk, KnownOk
  <2>5. UnderWayOk' /\ DoneOk' /\ NoticeOk' /\ PageOk'
    BY <1>1, <2>1 DEF ConsoleInv, UnderWayOk, Offered, DoneOk, NoticeOk, PageOk
  <2>. QED  BY <2>4, <2>5 DEF ConsoleInv
<1>3. CASE RefuseAuthentication
  <2>1. at' = "LOADING" /\ notice' = "session-required" /\ principal' = principal
    BY <1>3 DEF RefuseAuthentication, Answer, resultFor, accessVars
  <2>2. ConsoleTypeOK' /\ ShapesOk' /\ KnownOk'
    BY <1>1, <2>1 DEF ConsoleInv, ConsoleTypeOK, ShapesOk, KnownOk
  <2>3. UnderWayOk' /\ DoneOk' /\ NoticeOk' /\ PageOk'
    BY <1>1, <2>1 DEF UnderWayOk, DoneOk, NoticeOk, PageOk
  <2>. QED  BY <2>2, <2>3 DEF ConsoleInv
<1>. QED  BY <1>2, <1>3

LEMMA LoadKeeps ==
  ASSUME ConsoleInv, LoadSession \/ LoadJobs \/ LoadApprovals \/ Render \/ FailToLoad
  PROVE  ConsoleInv'
<1>1. /\ at = "LOADING" /\ at' \in {"READY", "LOADING"}
      /\ UNCHANGED <<person, section, job, approval, principal>>
      /\ UNCHANGED <<notice, form, heard>>
  BY DEF LoadSession, LoadJobs, LoadApprovals, LoadList, Render, FailToLoad, Loads, accessVars
<1>2. page \in [connected : BOOLEAN, roles : {page.roles}, read : SUBSET {"jobs", "approvals"},
                row : {page.row}]
      /\ (page.read # {} => page.roles # {})
      /\ (page.connected => page.read = {"jobs", "approvals"})
  BY DEF ConsoleInv, ShapesOk, ConsoleTypeOK
<1> DEFINE Whole(p) == /\ p \in [connected : BOOLEAN, roles : {p.roles},
                                 read : SUBSET {"jobs", "approvals"}, row : {p.row}]
                       /\ p.read # {} => p.roles # {}
                       /\ p.connected => p.read = {"jobs", "approvals"}
                       /\ section \in p.read =>
                            \/ section \in page.read /\ p.row = page.row
                            \/ p.row = IF section = "jobs" THEN job ELSE approval
<1>3. Whole(page')
  <2>1. CASE LoadSession
    <3>1. page' = [page EXCEPT !.roles = roles[person]] /\ page.roles = {} /\ page.read = {}
          /\ ~page.connected
      BY <1>2, <2>1 DEF LoadSession
    <3>. QED  BY <1>2, <3>1
  <2>2. ASSUME NEW list \in {"jobs", "approvals"}, NEW row,
               page' = [page EXCEPT !.read = @ \cup {list},
                                    !.row = IF section = list THEN row ELSE @],
               page.roles # {}, list \notin page.read,
               list = "jobs" => row = job, list = "approvals" => row = approval
        PROVE  Whole(page')
    <3>1. ~page.connected
      BY <1>2, <2>2
    <3>2. /\ page'.connected = page.connected /\ page'.roles = page.roles
          /\ page'.read = page.read \cup {list}
          /\ page'.row = IF section = list THEN row ELSE page.row
          /\ page' \in [connected : BOOLEAN, roles : {page'.roles},
                        read : SUBSET {"jobs", "approvals"}, row : {page'.row}]
      BY <1>2, <2>2
    <3>. QED  BY <2>2, <3>1, <3>2
  <2>3. CASE LoadJobs
    BY <2>2, <2>3 DEF LoadJobs, LoadList
  <2>4. CASE LoadApprovals
    BY <2>2, <2>4 DEF LoadApprovals, LoadList
  <2>5. CASE Render
    <3>1. page' = [page EXCEPT !.connected = TRUE] /\ page.read = {"jobs", "approvals"}
      BY <2>5 DEF Render
    <3>. QED  BY <1>2, <3>1
  <2>6. CASE FailToLoad
    <3>1. page' = Disconnected
      BY <2>6 DEF FailToLoad
    <3>. QED  BY <3>1 DEF Disconnected
  <2>. QED  BY <2>1, <2>3, <2>4, <2>5, <2>6
<1>. QED  BY <1>1, <1>3, PageMoves

LEMMA VisitKeeps ==
  ASSUME ConsoleInv, NEW result \in {"none", notice}, Visit(result)
  PROVE  ConsoleInv'
<1>1. /\ at = "READY" /\ at' = "LOADING" /\ page' = Disconnected
      /\ UNCHANGED <<person, section, job, approval, principal>>
      /\ notice' = result
  BY DEF Visit, accessVars
<1>2. /\ Disconnected.read = {} /\ ~Disconnected.connected
      /\ Disconnected \in [connected : BOOLEAN, roles : {Disconnected.roles},
                           read : SUBSET {"jobs", "approvals"}, row : {Disconnected.row}]
  BY DEF Disconnected
<1>3. \/ UNCHANGED <<notice, form, heard>>
      \/ notice' = "none" /\ form' = NoForm /\ heard' = Unheard
  BY DEF Visit
<1>. QED  BY <1>1, <1>2, <1>3, PageMoves

LEMMA WorldKeeps ==
  ASSUME ConsoleInv,
         \/ ExecutorMoves \/ AccountMoves
         \/ \E h \in Humans, command \in JobCommands \cup Verdicts : OthersCommand(h, command)
  PROVE  ConsoleInv'
<1>1. /\ job \in [status : Statuses, retries : 0..3]
      /\ approval \in [status : {"PENDING"} \cup Verdicts, requester : Actors,
                       expiresAt : {NoExpiry, 1}, approver : Humans \cup {"none"}]
  BY DEF ConsoleInv, ConsoleTypeOK, Statuses
<1>2. CASE ExecutorMoves
  <2>1. UNCHANGED <<person, section, principal, tabVars>> /\ approval' = approval
    BY <1>2 DEF ExecutorMoves, accessVars
  <2>2. /\ job' \in [status : Statuses, retries : 0..3] /\ job.status # "CANCELLED"
        /\ job'.retries >= job.retries
    <3>1. CASE /\ job.status \in {"PENDING", "QUEUED", "RETRY_SCHEDULED"}
               /\ job' = [job EXCEPT !.status = "RUNNING"]
      BY <1>1, <3>1 DEF Statuses
    <3>2. CASE /\ job.status = "RUNNING"
               /\ \E ending \in {"SUCCEEDED", "PARTIAL", "FAILED", "DEAD_LETTER"} :
                    job' = [job EXCEPT !.status = ending]
      BY <1>1, <3>2 DEF Statuses
    <3>3. CASE /\ job.status = "RUNNING" /\ job.retries < 3
               /\ \E next \in {"RUNNING", "RETRY_SCHEDULED"} :
                    job' = [status |-> next, retries |-> job.retries + 1]
      BY <1>1, <3>3 DEF Statuses
    <3>. QED  BY <1>2, <3>1, <3>2, <3>3 DEF ExecutorMoves
  <2>. QED  BY <1>1, <2>1, <2>2, OthersMove
<1>3. CASE AccountMoves
  <2>1. UNCHANGED <<person, section, principal, tabVars>> /\ job' = job /\ approval' = approval
    BY <1>3 DEF AccountMoves, AccessClockTicks, AssignRoles, consoleVars
  <2>2. job'.retries >= job.retries
    BY <1>1, <2>1
  <2>. QED  BY <1>1, <2>1, <2>2, OthersMove
<1>4. ASSUME NEW h \in Humans, NEW command \in JobCommands \cup Verdicts, OthersCommand(h, command)
      PROVE  ConsoleInv'
  <2>1. UNCHANGED <<person, section, principal, tabVars>> /\ ConsoleTypeOK
    BY <1>4 DEF OthersCommand, accessVars, ConsoleInv
  <2>2. StatusOf(Human(h, roles[h]), command) = 200 /\ Carry(Human(h, roles[h]), command)
    BY <1>4 DEF OthersCommand
  <2>. QED  BY <2>1, <2>2, CarryMoves, OthersMove
<1>. QED  BY <1>2, <1>3, <1>4

LEMMA ConsoleStep ==
  ASSUME ConsoleInv, [ConsoleNext]_<<accessVars, consoleVars>>
  PROVE  ConsoleInv'
<1>1. ASSUME NEW command \in JobCommands \cup Verdicts, Submit(command)
      PROVE  ConsoleInv'
  BY <1>1, SubmitKeeps
<1>2. ASSUME NEW command \in JobCommands \cup Verdicts, NEW h \in Humans, OthersCommand(h, command)
      PROVE  ConsoleInv'
  BY <1>2, WorldKeeps
<1>3. ASSUME Authenticate \/ RefuseAuthentication
      PROVE  ConsoleInv'
  BY <1>3, AuthenticateKeeps
<1>4. ASSUME Command
      PROVE  ConsoleInv'
  BY <1>4, CommandKeeps
<1>5. ASSUME NEW result \in {"none", notice}, Visit(result)
      PROVE  ConsoleInv'
  BY <1>5, VisitKeeps
<1>6. ASSUME LoadSession \/ LoadJobs \/ LoadApprovals \/ Render \/ FailToLoad
      PROVE  ConsoleInv'
  BY <1>6, LoadKeeps
<1>7. ASSUME ExecutorMoves \/ AccountMoves
      PROVE  ConsoleInv'
  BY <1>7, WorldKeeps
<1>8. CASE UNCHANGED <<accessVars, consoleVars>>
  <2>1. UNCHANGED <<person, section, principal, tabVars>> /\ job' = job /\ approval' = approval
    BY <1>8 DEF accessVars, consoleVars
  <2>2. /\ job \in [status : Statuses, retries : 0..3]
        /\ approval \in [status : {"PENDING"} \cup Verdicts, requester : Actors,
                         expiresAt : {NoExpiry, 1}, approver : Humans \cup {"none"}]
    BY DEF ConsoleInv, ConsoleTypeOK, Statuses
  <2>3. job'.retries >= job.retries
    BY <2>1, <2>2
  <2>. QED  BY <2>1, <2>2, <2>3, OthersMove
<1>. QED  BY <1>1, <1>2, <1>3, <1>4, <1>5, <1>6, <1>7, <1>8 DEF ConsoleNext

LEMMA ConsoleStarts ==
  ASSUME PeopleInit, ConsoleInit
  PROVE  ConsoleInv
<1>1. /\ at = "READY" /\ page = Disconnected /\ notice = "none" /\ heard = Unheard
      /\ principal = [a \in Actors |-> NoPrincipal]
  BY DEF PeopleInit, ConsoleInit
<1>2. /\ Disconnected.read = {} /\ ~Disconnected.connected
      /\ Disconnected \in [connected : BOOLEAN, roles : {Disconnected.roles},
                           read : SUBSET {"jobs", "approvals"}, row : {Disconnected.row}]
      /\ Unheard \in [done : BOOLEAN, explained : BOOLEAN, retries : Nat] /\ ~Unheard.done
  BY DEF Disconnected, Unheard
<1>3. ConsoleTypeOK
  <2>1. job \in [status : Statuses, retries : 0..3]
    BY ConsoleAssumption DEF ConsoleAssumption, ConsoleInit, Statuses
  <2>2. approval \in [status : {"PENDING"} \cup Verdicts, requester : Actors,
                      expiresAt : {NoExpiry, 1}, approver : Humans \cup {"none"}]
    BY DEF ConsoleInit
  <2>. QED  BY <1>1, <1>2, <2>1, <2>2 DEF ConsoleInit, ConsoleTypeOK, Statuses
<1>4. ShapesOk
  BY <1>1, <1>2 DEF ShapesOk
<1>. QED  BY <1>1, <1>2, <1>3, <1>4
          DEF ConsoleInv, UnderWayOk, KnownOk, DoneOk, NoticeOk, PageOk

LEMMA ConsoleInvariant == ConsoleSpec => []ConsoleInv
BY ConsoleStarts, ConsoleStep, PTL DEF ConsoleSpec

LEMMA NoticesTell ==
  ASSUME ConsoleInv
  PROVE  NoticesTellTheTruth
<1>1. ASSUME notice = "operation-complete", form.command \in Verdicts
      PROVE  approval.status = form.command /\ approval.approver = person
  BY <1>1 DEF ConsoleInv, NoticeOk, DoneOk, Verdicts
<1>2. ASSUME notice = "operation-complete", page.connected
      PROVE  Shows
  BY <1>2 DEF ConsoleInv, NoticeOk, PageOk, ConsoleTypeOK
<1>. QED  BY <1>1, <1>2 DEF NoticesTellTheTruth, ConsoleInv, NoticeOk

\* The tab, its page, the job and the approval keep their types.
THEOREM ConsoleTypeCorrect == ConsoleSpec => []ConsoleTypeOK
<1>1. ConsoleInv => ConsoleTypeOK
  BY DEF ConsoleInv
<1>. QED  BY <1>1, ConsoleInvariant, PTL

\* Whoever else commands the job or decides the approval, whatever answer is lost and
\* however the page is loaded, its notice says what happened.
THEOREM NoticesCanBeTrusted == ConsoleSpec => []NoticesTellTheTruth
BY ConsoleInvariant, NoticesTell, PTL

-----------------------------------------------------------------------------
(* The alerts.                                                             *)

\* What an evaluation is about to notify and to hold back.
BatchOk(e) ==
  LET batch == evaluation[e] IN
  /\ batch.notified => Evaluating(e)
  /\ IsFiniteSet(batch.toFire)
  /\ \A a, b \in batch.toFire : a.id = b.id => a = b
  /\ batch.notified =>
       \A a \in batch.toFire : \E n \in DOMAIN notices :
         notices[n].alert = a /\ notices[n].at = batch.at
  /\ \A a \in batch.suppressed : \E n \in DOMAIN notices :
       /\ notices[n].alert.id = a.id /\ batch.at - notices[n].at < Cooldown
       /\ watch = "budget" => notices[n].alert = a

\* What was saved as fired was notified then.
SavedFiringsOk ==
  \A id \in AlertIds : active[id] # Never =>
    \E n \in DOMAIN notices : notices[n].alert.id = id /\ notices[n].at = active[id]

\* The severity of a budget's alert is in its id.
OfBudget(a) ==
  \E p \in Periods : \/ a = Alert(<<"COST_BUDGET", p, "HARD">>, TRUE)
                     \/ a = Alert(<<"COST_BUDGET", p, "SOFT">>, FALSE)
BudgetOk ==
  watch = "budget" =>
    /\ \A e \in Evaluators : \A a \in evaluation[e].toFire : OfBudget(a)
    /\ \A n \in DOMAIN notices : OfBudget(notices[n].alert)

\* With one evaluation at a time, each notice is on record or of the evaluation under
\* way, and what is to be notified is not of late.
Heard(n) ==
  \/ notices[n].at <= active[notices[n].alert.id]
  \/ \E e \in Evaluators : /\ evaluation[e].notified /\ notices[n].alert \in evaluation[e].toFire
                           /\ notices[n].at = evaluation[e].at
CalmOk ==
  ~disturbed =>
    /\ \A e, f \in Evaluators : Evaluating(e) /\ Evaluating(f) => e = f
    /\ \A n \in DOMAIN notices : Heard(n)
    /\ \A e \in Evaluators : Evaluating(e) =>
         \A n \in DOMAIN notices :
           /\ notices[n].at <= evaluation[e].at
           /\ ~evaluation[e].notified =>
                \A a \in evaluation[e].toFire : notices[n].alert.id = a.id =>
                  evaluation[e].at - notices[n].at >= Cooldown
    /\ \A m, n \in DOMAIN notices :
         m < n /\ notices[m].alert.id = notices[n].alert.id =>
           notices[n].at - notices[m].at >= Cooldown

MonitoringInv ==
  /\ MonitoringTypeOK
  /\ \A e \in Evaluators : BatchOk(e)
  /\ SavedFiringsOk /\ BudgetOk /\ CalmOk

-----------------------------------------------------------------------------
\* The rules raise alerts of their own ids, finitely many, one of each id.

RuleCodes ==
  {"SEARCH_DEGRADED", "COMPONENT_DEGRADED", "QUEUE_STALLED", "BACKUP_STALE",
   "BOUNCE_SPIKE", "POLICY_VIOLATION"}
Lone(S) ==
  S = {} \/ \E c \in RuleCodes : S = {Alert(<<c>>, TRUE)} \/ S = {Alert(<<c>>, FALSE)}

\* A rule that raises at most one alert.
LEMMA LoneFacts ==
  ASSUME NEW S, Lone(S)
  PROVE  /\ S \in SUBSET Alerts /\ IsFiniteSet(S)
         /\ \A a, b \in S : a.id = b.id => a = b
<1>1. CASE S = {}
  BY <1>1, FS_EmptySet
<1>2. CASE \E c \in RuleCodes : S = {Alert(<<c>>, TRUE)} \/ S = {Alert(<<c>>, FALSE)}
  <2>1. PICK c \in RuleCodes : S = {Alert(<<c>>, TRUE)} \/ S = {Alert(<<c>>, FALSE)}
    BY <1>2
  <2>2. PICK a : S = {a} /\ a \in {Alert(<<c>>, TRUE), Alert(<<c>>, FALSE)}
    BY <2>1
  <2>3. <<c>> \in AlertIds
    BY DEF AlertIds, RuleCodes
  <2>4. a \in Alerts
    BY <2>2, <2>3 DEF Alerts, Alert
  <2>5. IsFiniteSet({a})
    BY FS_Singleton
  <2>. QED  BY <2>2, <2>4, <2>5
<1>. QED  BY <1>1, <1>2 DEF Lone

\* Two alerts of one budget limit are the same.
LEMMA BudgetIds ==
  ASSUME NEW a, OfBudget(a), NEW b, OfBudget(b), a.id = b.id
  PROVE  a = b
<1>1. PICK p \in Periods : \/ a = Alert(<<"COST_BUDGET", p, "HARD">>, TRUE)
                           \/ a = Alert(<<"COST_BUDGET", p, "SOFT">>, FALSE)
  BY DEF OfBudget
<1>2. PICK q \in Periods : \/ b = Alert(<<"COST_BUDGET", q, "HARD">>, TRUE)
                           \/ b = Alert(<<"COST_BUDGET", q, "SOFT">>, FALSE)
  BY DEF OfBudget
<1>. QED  BY <1>1, <1>2 DEF Alert

\* The alerts of the budgets: at most two for each period.
LEMMA BudgetFacts ==
  /\ BudgetAlerts \in SUBSET Alerts /\ IsFiniteSet(BudgetAlerts)
  /\ \A a \in BudgetAlerts : OfBudget(a)
<1> DEFINE Hard == [p \in Periods |-> Alert(<<"COST_BUDGET", p, "HARD">>, TRUE)]
           Soft == [p \in Periods |-> Alert(<<"COST_BUDGET", p, "SOFT">>, FALSE)]
           All == {Hard[p] : p \in Periods} \cup {Soft[p] : p \in Periods}
<1>1. ASSUME NEW a \in BudgetAlerts
      PROVE  \E p \in Periods : \/ a = Alert(<<"COST_BUDGET", p, "HARD">>, TRUE)
                                \/ a = Alert(<<"COST_BUDGET", p, "SOFT">>, FALSE)
  BY DEF BudgetAlerts
<1>2. IsFiniteSet(All)
  <2>1. IsFiniteSet(Periods)
    BY MonitoringAssumption DEF MonitoringAssumption, Periods
  <2>2. Hard \in [Periods -> {Hard[p] : p \in Periods}]
    OBVIOUS
  <2>3. Soft \in [Periods -> {Soft[p] : p \in Periods}]
    OBVIOUS
  <2> HIDE DEF Hard, Soft
  <2>4. IsFiniteSet({Hard[p] : p \in Periods})
    BY <2>1, <2>2, ImageIsFinite
  <2>5. IsFiniteSet({Soft[p] : p \in Periods})
    BY <2>1, <2>3, ImageIsFinite
  <2>. QED  BY <2>4, <2>5, FS_Union
<1>3. BudgetAlerts \in SUBSET All
  BY <1>1
<1>4. IsFiniteSet(BudgetAlerts)
  BY <1>2, <1>3, FS_Subset
<1>5. ASSUME NEW a \in BudgetAlerts
      PROVE  a \in Alerts
  <2>1. PICK p \in Periods : \/ a = Alert(<<"COST_BUDGET", p, "HARD">>, TRUE)
                             \/ a = Alert(<<"COST_BUDGET", p, "SOFT">>, FALSE)
    BY <1>1
  <2>2. <<"COST_BUDGET", p, "HARD">> \in AlertIds /\ <<"COST_BUDGET", p, "SOFT">> \in AlertIds
    BY DEF AlertIds
  <2>. QED  BY <2>1, <2>2 DEF Alerts, Alert
<1>. QED  BY <1>1, <1>4, <1>5 DEF OfBudget

\* Whatever is watched, the rules raise finitely many alerts, one of each id.
LEMMA CandidateFacts ==
  ASSUME watch \in Watches
  PROVE  /\ CandidateAlerts \in SUBSET Alerts /\ IsFiniteSet(CandidateAlerts)
         /\ \A a, b \in CandidateAlerts : a.id = b.id => a = b
         /\ watch = "budget" => \A a \in CandidateAlerts : OfBudget(a)
<1>1. Lone(ComponentHealthAlerts)
  <2> DEFINE class == ComponentClass(signals.events)
             code == IF watch = "search_engine" THEN "SEARCH_DEGRADED" ELSE "COMPONENT_DEGRADED"
             a == Alert(<<code>>, class = "DOWN")
  <2>1. code \in RuleCodes
    BY DEF RuleCodes
  <2>2. ComponentHealthAlerts = {a : c \in {class} \cap {"DEGRADED", "DOWN"}}
    BY DEF ComponentHealthAlerts
  <2>3. a = Alert(<<code>>, TRUE) \/ a = Alert(<<code>>, FALSE)
    BY DEF Alert
  <2> HIDE DEF class, code
  <2>4. ComponentHealthAlerts = {} \/ ComponentHealthAlerts = {a}
    <3> HIDE DEF a
    <3>. QED  BY <2>2
  <2>. QED  BY <2>1, <2>3, <2>4 DEF Lone
<1>2. Lone(QueueStalledAlerts)
  <2>1. "QUEUE_STALLED" \in RuleCodes
    BY DEF RuleCodes
  <2>. QED  BY <2>1 DEF QueueStalledAlerts, Lone, Alert
<1>3. Lone(BackupStaleAlerts)
  <2>1. "BACKUP_STALE" \in RuleCodes
    BY DEF RuleCodes
  <2>. QED  BY <2>1 DEF BackupStaleAlerts, Lone, Alert
<1>4. Lone(BounceSpikeAlerts)
  <2>1. "BOUNCE_SPIKE" \in RuleCodes
    BY DEF RuleCodes
  <2>. QED  BY <2>1 DEF BounceSpikeAlerts, Lone, Alert
<1>5. Lone(PolicyViolationAlerts)
  <2>1. "POLICY_VIOLATION" \in RuleCodes
    BY DEF RuleCodes
  <2>. QED  BY <2>1 DEF PolicyViolationAlerts, Lone, Alert
<1>6. CASE watch = "budget"
  <2>1. CandidateAlerts = BudgetAlerts
    BY <1>6 DEF CandidateAlerts, HealthKinds
  <2>. QED  BY <2>1, BudgetFacts, BudgetIds
<1>7. CASE watch # "budget"
  <2>1. Lone(CandidateAlerts)
    BY <1>1, <1>2, <1>3, <1>4, <1>5, <1>7 DEF CandidateAlerts, Watches, HealthKinds
  <2>. QED  BY <1>7, <2>1, LoneFacts
<1>. QED  BY <1>6, <1>7

-----------------------------------------------------------------------------
\* What concatenating the notices of a batch does.
NoticeRecords == [alert : Alerts, at : Nat]

\* A batch of notices is finite.
LEMMA BatchIsFinite ==
  ASSUME NEW t \in Nat, NEW A \in SUBSET Alerts, IsFiniteSet(A)
  PROVE  IsFiniteSet({[alert |-> a, at |-> t] : a \in A})
<1> DEFINE f == [a \in A |-> [alert |-> a, at |-> t]]
<1>1. f \in [A -> NoticeRecords]
  BY DEF NoticeRecords
<1>2. {f[a] : a \in A} = {[alert |-> a, at |-> t] : a \in A}
  OBVIOUS
<1> HIDE DEF f
<1>3. IsFiniteSet({f[a] : a \in A})
  BY <1>1, ImageIsFinite
<1>. QED  BY <1>2, <1>3

\* The notices so far stay; each new one comes after them, is of the batch and is new once.
LEMMA NoticesGrow ==
  ASSUME notices \in Seq(NoticeRecords), NEW t \in Nat, NEW A \in SUBSET Alerts, IsFiniteSet(A),
         notices' = notices \o SetToSeq({[alert |-> a, at |-> t] : a \in A})
  PROVE  /\ notices' \in Seq(NoticeRecords)
         /\ \A n \in DOMAIN notices : n \in DOMAIN notices' /\ notices'[n] = notices[n]
         /\ \A n \in DOMAIN notices' \ DOMAIN notices :
              /\ notices'[n].alert \in A /\ notices'[n].at = t
              /\ \A m \in DOMAIN notices : m < n
         /\ \A m, n \in DOMAIN notices' \ DOMAIN notices :
              notices'[m].alert = notices'[n].alert => m = n
         /\ \A a \in A : \E n \in DOMAIN notices' :
              notices'[n].alert = a /\ notices'[n].at = t
         /\ DOMAIN notices \in SUBSET Int /\ DOMAIN notices' \in SUBSET Int
<1> DEFINE f == [a \in A |-> [alert |-> a, at |-> t]]
           S == {f[a] : a \in A}
           k == Cardinality(S)
           s == SetToSeq(S)
           len == Len(notices)
<1>1. f \in [A -> NoticeRecords] /\ \A a \in A : f[a].alert = a /\ f[a].at = t
  BY DEF NoticeRecords
<1>2. notices' = notices \o s
  <2>1. S = {[alert |-> a, at |-> t] : a \in A}
    OBVIOUS
  <2>. QED  BY <2>1
<1>3. IsFiniteSet(S)
  <2>1. S = {[alert |-> a, at |-> t] : a \in A}
    OBVIOUS
  <2> HIDE DEF S
  <2>. QED  BY <2>1, BatchIsFinite
<1> HIDE DEF f
<1>4. S \in SUBSET NoticeRecords /\ \A x \in S : x.alert \in A /\ x.at = t /\ x = f[x.alert]
  BY <1>1
<1> HIDE DEF S
<1>5. /\ s \in Seq(S) /\ Len(s) = k
      /\ \A m, n \in 1..k : s[m] = s[n] => m = n
      /\ \A x \in S : \E n \in 1..k : s[n] = x
  BY <1>3, SetToSeqLists
<1>6. k \in Nat /\ len \in Nat /\ DOMAIN notices = 1..len
  BY <1>3, FS_CardinalityType, LenProperties
<1>7. \A n \in 1..k : s[n] \in S
  BY <1>5, <1>6, ElementOfSeq
<1>8. s \in Seq(NoticeRecords)
  BY <1>4, <1>5, SeqMonotonic
<1> HIDE DEF s, k
<1>9. /\ notices' \in Seq(NoticeRecords) /\ Len(notices') = len + k
      /\ \A n \in 1..(len + k) : notices'[n] = IF n <= len THEN notices[n] ELSE s[n - len]
  <2>1. /\ notices \o s \in Seq(NoticeRecords) /\ Len(notices \o s) = Len(notices) + Len(s)
        /\ \A n \in 1..(Len(notices) + Len(s)) :
             (notices \o s)[n] = IF n <= Len(notices) THEN notices[n] ELSE s[n - Len(notices)]
    BY <1>8, ConcatProperties
  <2>. QED  BY <1>2, <1>5, <2>1
<1>10. DOMAIN notices' = 1..(len + k)
  BY <1>9, LenProperties
<1> HIDE DEF len
<1>11. \A n \in 1..len : n \in 1..(len + k) /\ notices'[n] = notices[n]
  BY <1>6, <1>9
<1>12. \A n \in (1..(len + k)) \ (1..len) : n - len \in 1..k /\ notices'[n] = s[n - len] /\ \A m \in 1..len : m < n
  BY <1>6, <1>9
<1>13. \A n \in DOMAIN notices : n \in DOMAIN notices' /\ notices'[n] = notices[n]
  BY <1>6, <1>10, <1>11
<1>14. ASSUME NEW n \in DOMAIN notices' \ DOMAIN notices
       PROVE  /\ notices'[n].alert \in A /\ notices'[n].at = t
              /\ \A m \in DOMAIN notices : m < n
  BY <1>4, <1>6, <1>7, <1>10, <1>12
<1>15. ASSUME NEW m \in DOMAIN notices' \ DOMAIN notices, NEW n \in DOMAIN notices' \ DOMAIN notices,
              notices'[m].alert = notices'[n].alert
       PROVE  m = n
  <2>1. /\ m \in (1..(len + k)) \ (1..len) /\ n \in (1..(len + k)) \ (1..len)
        /\ m - len \in 1..k /\ n - len \in 1..k
        /\ notices'[m] = s[m - len] /\ notices'[n] = s[n - len]
    BY <1>6, <1>10, <1>12
  <2>2. s[m - len] = s[n - len]
    BY <1>4, <1>7, <1>15, <2>1
  <2>3. m - len = n - len
    BY <1>5, <2>1, <2>2
  <2>4. m \in Int /\ n \in Int /\ len \in Int
    BY <1>6, <2>1
  <2>. QED  BY <2>3, <2>4
<1>16. ASSUME NEW a \in A
       PROVE  \E n \in DOMAIN notices' : notices'[n].alert = a /\ notices'[n].at = t
  <2>1. f[a] \in S
    BY DEF S
  <2>2. PICK n \in 1..k : s[n] = f[a]
    BY <1>5, <2>1
  <2>3. n + len \in 1..(len + k) /\ ~(n + len <= len) /\ (n + len) - len = n
    BY <1>6, <2>2
  <2>4. notices'[n + len] = f[a]
    BY <1>9, <2>2, <2>3
  <2>5. n + len \in DOMAIN notices'
    BY <1>10, <2>3
  <2>6. notices'[n + len].alert = a /\ notices'[n + len].at = t
    BY <1>1, <2>4
  <2>. QED  BY <2>5, <2>6
<1>17. DOMAIN notices \in SUBSET Int /\ DOMAIN notices' \in SUBSET Int
  BY <1>6, <1>10
<1>. QED  BY <1>9, <1>13, <1>14, <1>15, <1>16, <1>17

-----------------------------------------------------------------------------
\* The types, taken apart.
SignalTypes ==
  [events : Seq([status : ComponentStatuses \cup EngineStatuses, at : Nat]),
   pendingSince : {Never} \cup Nat, lastBackup : {Never} \cup Nat,
   spent : [Periods -> 0..MaxSpent], relevant : 0..MaxSignals, bounced : Nat,
   denials : Seq(Nat)]
SignalsOk ==
  /\ signals \in SignalTypes /\ signals.bounced <= signals.relevant
  /\ \A i \in DOMAIN signals.events : signals.events[i].at <= clock
Batches(t) ==
  [at : {Never} \cup 0..t, toFire : SUBSET Alerts, suppressed : SUBSET Alerts,
   notified : BOOLEAN]

LEMMA TypeParts ==
  MonitoringTypeOK <=>
    /\ clock \in 0..MaxClock /\ watch \in Watches /\ SignalsOk
    /\ active \in [AlertIds -> {Never} \cup 0..clock]
    /\ evaluation \in [Evaluators -> Batches(clock)]
    /\ notices \in Seq(NoticeRecords)
    /\ \A n \in DOMAIN notices : notices[n].at <= clock
BY DEF MonitoringTypeOK, SignalsOk, SignalTypes, Batches, NoticeRecords

LEMMA TypePartsNext ==
  MonitoringTypeOK' <=>
    /\ clock' \in 0..MaxClock /\ watch' \in Watches /\ SignalsOk'
    /\ active' \in [AlertIds -> {Never} \cup 0..clock']
    /\ evaluation' \in [Evaluators -> Batches(clock')]
    /\ notices' \in Seq(NoticeRecords)
    /\ \A n \in DOMAIN notices' : notices'[n].at <= clock'
BY DEF MonitoringTypeOK, SignalsOk, SignalTypes, Batches, NoticeRecords

LEMMA NoticeTypes ==
  ASSUME MonitoringTypeOK, NEW n \in DOMAIN notices
  PROVE  notices[n] \in NoticeRecords /\ n \in Int
<1>1. notices \in Seq(NoticeRecords)
  BY TypeParts
<1>2. n \in 1..Len(notices) /\ Len(notices) \in Nat
  BY <1>1, LenProperties
<1>. QED  BY <1>1, <1>2, ElementOfSeq

\* Signals and the clock: what is notified does not depend on them.
LEMMA QuietStep ==
  ASSUME MonitoringInv, clock' \in 0..MaxClock, clock <= clock', SignalsOk',
         UNCHANGED <<watch, active, evaluation, notices, disturbed>>
  PROVE  MonitoringInv'
<1>1. MonitoringTypeOK'
  <2>1. clock \in Nat /\ clock' \in Nat
    BY TypeParts, MonitoringAssumption DEF MonitoringInv, MonitoringAssumption
  <2>2. 0..clock \in SUBSET (0..clock')
    BY <2>1
  <2>3. active' \in [AlertIds -> {Never} \cup 0..clock']
    BY <2>2, TypeParts DEF MonitoringInv
  <2>4. evaluation' \in [Evaluators -> Batches(clock')]
    <3>1. Batches(clock) \in SUBSET Batches(clock')
      BY <2>2 DEF Batches
    <3>. QED  BY <3>1, TypeParts DEF MonitoringInv
  <2>5. ASSUME NEW n \in DOMAIN notices'
        PROVE  notices'[n].at <= clock'
    <3>1. notices[n].at \in Nat /\ notices[n].at <= clock
      BY <2>5, NoticeTypes, TypeParts DEF MonitoringInv, NoticeRecords
    <3>. QED  BY <2>1, <3>1
  <2>6. watch' \in Watches /\ notices' \in Seq(NoticeRecords)
    BY TypeParts DEF MonitoringInv
  <2>. QED  BY <2>3, <2>4, <2>5, <2>6, TypePartsNext
<1>2. \A e \in Evaluators : BatchOk(e)'
  BY DEF MonitoringInv, BatchOk, Evaluating
<1>3. SavedFiringsOk' /\ BudgetOk'
  BY DEF MonitoringInv, SavedFiringsOk, BudgetOk
<1>4. CalmOk'
  BY DEF MonitoringInv, CalmOk, Heard, Evaluating
<1>. QED  BY <1>1, <1>2, <1>3, <1>4 DEF MonitoringInv

LEMMA SignalStep ==
  ASSUME MonitoringInv, SignalsOk', OnlySignals
  PROVE  MonitoringInv'
<1>1. clock \in 0..MaxClock /\ clock' = clock /\ clock <= clock'
  <2>1. clock \in 0..MaxClock /\ MaxClock \in Nat
    BY TypeParts, MonitoringAssumption DEF MonitoringInv, MonitoringAssumption
  <2>. QED  BY <2>1 DEF OnlySignals
<1>2. UNCHANGED <<watch, active, evaluation, notices, disturbed>>
  BY DEF OnlySignals
<1>. QED  BY <1>1, <1>2, QuietStep

LEMMA SignalFields ==
  ASSUME SignalsOk
  PROVE  /\ signals.events \in Seq([status : ComponentStatuses \cup EngineStatuses, at : Nat])
         /\ signals.denials \in Seq(Nat) /\ signals.spent \in [Periods -> 0..MaxSpent]
         /\ signals.relevant \in 0..MaxSignals /\ signals.bounced \in Nat
         /\ DOMAIN signals.events = 1..Len(signals.events) /\ Len(signals.events) \in Nat
<1>1. signals.events \in Seq([status : ComponentStatuses \cup EngineStatuses, at : Nat])
  BY DEF SignalsOk, SignalTypes
<1>. QED  BY <1>1, LenProperties DEF SignalsOk, SignalTypes

\* A health event is of now.
LEMMA HealthEventStep ==
  ASSUME MonitoringInv, NEW status \in ComponentStatuses \cup EngineStatuses, HealthEvent(status)
  PROVE  MonitoringInv'
<1> DEFINE E == [status : ComponentStatuses \cup EngineStatuses, at : Nat]
           ev == [status |-> status, at |-> clock]
           new == Append(signals.events, ev)
<1>1. SignalsOk /\ clock \in Nat /\ OnlySignals /\ clock' = clock
  <2>1. clock \in 0..MaxClock /\ MaxClock \in Nat /\ SignalsOk
    BY TypeParts, MonitoringAssumption DEF MonitoringInv, MonitoringAssumption
  <2>. QED  BY <2>1 DEF HealthEvent, OnlySignals
<1>2. ev \in E /\ ev.at = clock
  BY <1>1
<1>3. signals.events \in Seq(E) /\ Len(signals.events) \in Nat
      /\ DOMAIN signals.events = 1..Len(signals.events)
  BY <1>1, SignalFields
<1>4. signals' = [signals EXCEPT !.events = new]
  BY DEF HealthEvent
<1> HIDE DEF E, ev
<1>5. /\ new \in Seq(E) /\ Len(new) = Len(signals.events) + 1
      /\ \A i \in 1..Len(signals.events) : new[i] = signals.events[i]
      /\ new[Len(signals.events) + 1] = ev
  BY <1>2, <1>3, AppendProperties
<1>6. DOMAIN new = 1..(Len(signals.events) + 1)
  BY <1>5, LenProperties
<1> HIDE DEF new
<1>7. \A i \in DOMAIN new : new[i].at <= clock
  <2> SUFFICES ASSUME NEW i \in DOMAIN new
               PROVE  new[i].at <= clock
    OBVIOUS
  <2>1. CASE i \in 1..Len(signals.events)
    BY <1>1, <1>3, <1>5, <2>1 DEF SignalsOk
  <2>2. CASE i = Len(signals.events) + 1
    BY <1>1, <1>2, <1>5, <2>2
  <2>. QED  BY <1>3, <1>6, <2>1, <2>2
<1>8. signals' \in SignalTypes
  BY <1>1, <1>4, <1>5 DEF SignalsOk, SignalTypes, E
<1>9. signals'.bounced = signals.bounced /\ signals'.relevant = signals.relevant
      /\ signals'.events = new
  BY <1>1, <1>4 DEF SignalsOk, SignalTypes
<1>10. SignalsOk'
  BY <1>1, <1>7, <1>8, <1>9 DEF SignalsOk, SignalTypes
<1>. QED  BY <1>1, <1>10, SignalStep

\* The other signals are values or times.
LEMMA OtherSignalSteps ==
  ASSUME MonitoringInv,
         \/ QueueMoves \/ BackupSucceeds \/ Spend \/ TouchReported \/ Denied
         \/ \E p \in Periods : NextPeriod(p)
  PROVE  MonitoringInv'
<1>1. SignalsOk /\ clock \in Nat /\ OnlySignals /\ clock' = clock /\ MaxSpent \in Nat
      /\ MaxSignals \in Nat
  <2>1. clock \in 0..MaxClock /\ MaxClock \in Nat /\ SignalsOk /\ MaxSpent \in Nat
        /\ MaxSignals \in Nat
    BY TypeParts, MonitoringAssumption DEF MonitoringInv, MonitoringAssumption
  <2>. QED  BY <2>1 DEF QueueMoves, BackupSucceeds, Spend, TouchReported, Denied, NextPeriod, OnlySignals
<1>2. /\ signals.denials \in Seq(Nat) /\ signals.spent \in [Periods -> 0..MaxSpent]
      /\ signals.relevant \in 0..MaxSignals /\ signals.bounced \in Nat
      /\ signals.bounced <= signals.relevant
  BY <1>1, SignalFields DEF SignalsOk
<1>3. ASSUME signals'.events = signals.events, signals' \in SignalTypes,
             signals'.bounced <= signals'.relevant
      PROVE  MonitoringInv'
  <2>1. SignalsOk'
    BY <1>1, <1>3 DEF SignalsOk
  <2>. QED  BY <1>1, <2>1, SignalStep
<1>4. CASE QueueMoves
  <2>1. \/ signals' = [signals EXCEPT !.pendingSince = clock]
        \/ signals' = [signals EXCEPT !.pendingSince = Never]
    BY <1>4 DEF QueueMoves
  <2>2. signals' \in SignalTypes /\ signals'.events = signals.events
        /\ signals'.bounced = signals.bounced /\ signals'.relevant = signals.relevant
    BY <1>1, <2>1 DEF SignalsOk, SignalTypes
  <2>. QED  BY <1>2, <1>3, <2>2
<1>5. CASE BackupSucceeds
  <2>1. signals' = [signals EXCEPT !.lastBackup = clock]
    BY <1>5 DEF BackupSucceeds
  <2>2. signals' \in SignalTypes /\ signals'.events = signals.events
        /\ signals'.bounced = signals.bounced /\ signals'.relevant = signals.relevant
    BY <1>1, <2>1 DEF SignalsOk, SignalTypes
  <2>. QED  BY <1>2, <1>3, <2>2
<1>6. CASE Spend
  <2>1. PICK amount \in {1, 4} :
          /\ \A p \in Periods : signals.spent[p] + amount <= MaxSpent
          /\ signals' = [signals EXCEPT !.spent = [p \in Periods |-> signals.spent[p] + amount]]
    BY <1>6 DEF Spend
  <2> DEFINE new == [p \in Periods |-> signals.spent[p] + amount]
  <2>2. new \in [Periods -> 0..MaxSpent]
    BY <1>1, <1>2, <2>1
  <2>3. signals' = [signals EXCEPT !.spent = new]
    BY <2>1
  <2> HIDE DEF new
  <2>4. signals' \in SignalTypes /\ signals'.events = signals.events
        /\ signals'.bounced = signals.bounced /\ signals'.relevant = signals.relevant
    BY <1>1, <2>2, <2>3 DEF SignalsOk, SignalTypes
  <2>. QED  BY <1>2, <1>3, <2>4
<1>7. CASE TouchReported
  <2>1. PICK more \in {0, 1} :
          signals' = [signals EXCEPT !.relevant = signals.relevant + 1,
                                     !.bounced = signals.bounced + more]
    BY <1>7 DEF TouchReported
  <2> DEFINE r == signals.relevant + 1
             b == signals.bounced + more
  <2>2. r \in 0..MaxSignals /\ b \in Nat /\ b <= r
    BY <1>1, <1>2, <1>7 DEF TouchReported
  <2>3. signals' = [signals EXCEPT !.relevant = r, !.bounced = b]
    BY <2>1
  <2> HIDE DEF r, b
  <2>4. signals' \in SignalTypes /\ signals'.events = signals.events
        /\ signals'.bounced = b /\ signals'.relevant = r
    BY <1>1, <2>2, <2>3 DEF SignalsOk, SignalTypes
  <2>. QED  BY <1>3, <2>2, <2>4
<1>8. CASE Denied
  <2> DEFINE new == Append(signals.denials, clock)
  <2>1. signals' = [signals EXCEPT !.denials = new]
    BY <1>8 DEF Denied
  <2>2. new \in Seq(Nat)
    BY <1>1, <1>2, AppendProperties
  <2> HIDE DEF new
  <2>3. signals' \in SignalTypes /\ signals'.events = signals.events
        /\ signals'.bounced = signals.bounced /\ signals'.relevant = signals.relevant
    BY <1>1, <2>1, <2>2 DEF SignalsOk, SignalTypes
  <2>. QED  BY <1>2, <1>3, <2>3
<1>9. ASSUME NEW p \in Periods, NextPeriod(p)
      PROVE  MonitoringInv'
  <2> DEFINE new == [signals.spent EXCEPT ![p] = 0]
  <2>1. signals' = [signals EXCEPT !.spent = new]
    BY <1>1, <1>9 DEF NextPeriod, SignalsOk, SignalTypes
  <2>2. new \in [Periods -> 0..MaxSpent]
    BY <1>1, <1>2
  <2> HIDE DEF new
  <2>3. signals' \in SignalTypes /\ signals'.events = signals.events
        /\ signals'.bounced = signals.bounced /\ signals'.relevant = signals.relevant
    BY <1>1, <2>1, <2>2 DEF SignalsOk, SignalTypes
  <2>. QED  BY <1>2, <1>3, <2>3
<1>. QED  BY <1>4, <1>5, <1>6, <1>7, <1>8, <1>9

\* Time passes.
LEMMA ClockStep ==
  ASSUME MonitoringInv, ClockTicks
  PROVE  MonitoringInv'
<1>1. clock \in 0..MaxClock /\ MaxClock \in Nat /\ SignalsOk
  BY TypeParts, MonitoringAssumption DEF MonitoringInv, MonitoringAssumption
<1>2. clock' \in 0..MaxClock /\ clock <= clock' /\ clock' = clock + 1
  BY <1>1 DEF ClockTicks
<1>3. SignalsOk'
  <2>1. \A i \in DOMAIN signals.events : signals.events[i].at <= clock + 1
    <3> SUFFICES ASSUME NEW i \in DOMAIN signals.events
                 PROVE  signals.events[i].at <= clock + 1
      OBVIOUS
    <3>1. i \in 1..Len(signals.events)
      BY <1>1, SignalFields
    <3> DEFINE E == [status : ComponentStatuses \cup EngineStatuses, at : Nat]
    <3>2. signals.events \in Seq(E)
      BY <1>1, SignalFields
    <3> HIDE DEF E
    <3>3. signals.events[i] \in E
      BY <3>1, <3>2, ElementOfSeq
    <3>4. signals.events[i].at \in Nat /\ signals.events[i].at <= clock
      BY <1>1, <3>3 DEF E, SignalsOk
    <3>. QED  BY <1>1, <3>4
  <2>. QED  BY <1>1, <1>2, <2>1 DEF SignalsOk, ClockTicks
<1>. QED  BY <1>2, <1>3, QuietStep DEF ClockTicks

-----------------------------------------------------------------------------
\* The evaluators.

LEMMA EvaluationTypes ==
  ASSUME MonitoringTypeOK, NEW e \in Evaluators
  PROVE  /\ evaluation[e] \in Batches(clock) /\ evaluation[e].at \in {Never} \cup Nat
         /\ evaluation[e].toFire \in SUBSET Alerts /\ evaluation[e].suppressed \in SUBSET Alerts
         /\ Evaluating(e) => evaluation[e].at \in Nat /\ evaluation[e].at <= clock
         /\ clock \in Nat
<1>1. clock \in 0..MaxClock /\ MaxClock \in Nat
  BY TypeParts, MonitoringAssumption DEF MonitoringAssumption
<1>2. evaluation[e] \in Batches(clock)
  BY TypeParts
<1>. QED  BY <1>1, <1>2 DEF Batches, Evaluating

LEMMA NoBatch ==
  ASSUME NEW t \in Nat
  PROVE  NoEvaluation \in Batches(t)
BY DEF NoEvaluation, Batches

\* What is to be fired has not been notified of late, if no evaluation is under way.
LEMMA NotOfLate ==
  ASSUME MonitoringInv, ~disturbed, ~\E f \in Evaluators : Evaluating(f),
         NEW a \in Alerts, ~WithinCooldown(a), NEW n \in DOMAIN notices,
         notices[n].alert.id = a.id
  PROVE  clock - notices[n].at >= Cooldown
<1>1. clock \in Nat /\ active \in [AlertIds -> {Never} \cup 0..clock] /\ Cooldown \in Nat
  <2>1. clock \in 0..MaxClock /\ MaxClock \in Nat /\ Cooldown \in Nat
    BY TypeParts, MonitoringAssumption DEF MonitoringInv, MonitoringAssumption
  <2>. QED  BY <2>1, TypeParts DEF MonitoringInv
<1>2. notices[n].at \in Nat
  BY NoticeTypes DEF MonitoringInv, NoticeRecords
<1>3. Heard(n)
  BY DEF MonitoringInv, CalmOk
<1>4. notices[n].at <= active[a.id]
  BY <1>3 DEF Heard, MonitoringInv, BatchOk
<1>5. a.id \in AlertIds
  BY DEF Alerts
<1>6. active[a.id] \in {Never} \cup 0..clock
  BY <1>1, <1>5
<1>7. active[a.id] # Never
  BY <1>2, <1>4, <1>6 DEF Never
<1>8. ~(clock - active[a.id] < Cooldown)
  BY <1>7 DEF WithinCooldown
<1> DEFINE x == active[a.id]
           y == notices[n].at
<1>9. x \in Nat /\ y \in Nat /\ y <= x /\ ~(clock - x < Cooldown)
  BY <1>1, <1>2, <1>4, <1>6, <1>7, <1>8
<1> HIDE DEF x, y
<1>10. clock - y >= Cooldown
  BY <1>1, <1>9
<1>. QED  BY <1>10 DEF y

\* What is held back was notified within the cooldown.
LEMMA HeldBackWasHeard ==
  ASSUME MonitoringInv, NEW a \in Alerts, WithinCooldown(a), watch = "budget" => OfBudget(a)
  PROVE  \E n \in DOMAIN notices :
           /\ notices[n].alert.id = a.id /\ clock - notices[n].at < Cooldown
           /\ watch = "budget" => notices[n].alert = a
<1>1. a.id \in AlertIds
  BY DEF Alerts
<1>2. PICK n \in DOMAIN notices : notices[n].alert.id = a.id /\ notices[n].at = active[a.id]
  BY <1>1 DEF WithinCooldown, MonitoringInv, SavedFiringsOk
<1>3. clock - notices[n].at < Cooldown
  BY <1>2 DEF WithinCooldown
<1>4. watch = "budget" => notices[n].alert = a
  BY <1>2, BudgetIds DEF MonitoringInv, BudgetOk
<1>. QED  BY <1>2, <1>3, <1>4

\* What was heard within the cooldown is held back, the rest is to be fired.
LEMMA EvaluateStep ==
  ASSUME MonitoringInv, NEW e \in Evaluators, Evaluate(e)
  PROVE  MonitoringInv'
<1> DEFINE fire == {a \in CandidateAlerts : ~WithinCooldown(a)}
           held == {a \in CandidateAlerts : WithinCooldown(a)}
           batch == [at |-> clock, toFire |-> fire, suppressed |-> held, notified |-> FALSE]
<1>1. /\ ~Evaluating(e) /\ evaluation' = [evaluation EXCEPT ![e] = batch]
      /\ disturbed' = (disturbed \/ \E f \in Evaluators : Evaluating(f))
      /\ UNCHANGED <<clock, watch, signals, active, notices>>
  BY DEF Evaluate
<1>2. /\ watch \in Watches /\ clock \in Nat /\ clock <= clock
      /\ evaluation \in [Evaluators -> Batches(clock)]
  BY EvaluationTypes, TypeParts DEF MonitoringInv
<1>3. /\ fire \in SUBSET Alerts /\ held \in SUBSET Alerts /\ IsFiniteSet(fire)
      /\ \A a, b \in fire : a.id = b.id => a = b
      /\ watch = "budget" => (\A a \in fire : OfBudget(a)) /\ (\A a \in held : OfBudget(a))
  <2>1. fire \in SUBSET CandidateAlerts /\ held \in SUBSET CandidateAlerts
    OBVIOUS
  <2>. QED  BY <1>2, <2>1, CandidateFacts, FS_Subset
<1>4. /\ batch \in Batches(clock) /\ batch.at = clock /\ batch.toFire = fire
      /\ batch.suppressed = held /\ batch.notified = FALSE
  BY <1>2, <1>3 DEF Batches
<1>5. \A a \in fire : ~WithinCooldown(a)
  OBVIOUS
<1>6. \A a \in held : WithinCooldown(a)
  OBVIOUS
<1> HIDE DEF fire, held, batch
<1>7. /\ evaluation'[e] = batch
      /\ \A f \in Evaluators : f # e => evaluation'[f] = evaluation[f]
  BY <1>1, <1>2
<1>8. MonitoringTypeOK'
  <2>1. evaluation' \in [Evaluators -> Batches(clock')]
    BY <1>1, <1>2, <1>4
  <2>2. SignalsOk' /\ clock' \in 0..MaxClock /\ watch' \in Watches
        /\ active' \in [AlertIds -> {Never} \cup 0..clock']
        /\ notices' \in Seq(NoticeRecords) /\ \A n \in DOMAIN notices' : notices'[n].at <= clock'
    BY <1>1, TypeParts DEF MonitoringInv, SignalsOk
  <2>. QED  BY <2>1, <2>2, TypePartsNext
<1>9. ASSUME NEW f \in Evaluators
      PROVE  BatchOk(f)'
  <2>1. CASE f = e
    <3>1. \A a \in held : \E n \in DOMAIN notices :
            /\ notices[n].alert.id = a.id /\ clock - notices[n].at < Cooldown
            /\ watch = "budget" => notices[n].alert = a
      BY <1>3, <1>6, HeldBackWasHeard
    <3>. QED  BY <1>1, <1>3, <1>4, <1>7, <2>1, <3>1 DEF BatchOk, Evaluating
  <2>2. CASE f # e
    BY <1>1, <1>7, <2>2 DEF MonitoringInv, BatchOk, Evaluating
  <2>. QED  BY <2>1, <2>2
<1>10. SavedFiringsOk'
  BY <1>1 DEF MonitoringInv, SavedFiringsOk
<1>11. BudgetOk'
  <2> SUFFICES ASSUME watch = "budget"
               PROVE  /\ \A f \in Evaluators : \A a \in evaluation'[f].toFire : OfBudget(a)
                      /\ \A n \in DOMAIN notices : OfBudget(notices[n].alert)
    BY <1>1 DEF BudgetOk
  <2>. QED  BY <1>3, <1>4, <1>7 DEF MonitoringInv, BudgetOk
<1>12. CalmOk'
  <2> SUFFICES ASSUME ~disturbed'
               PROVE  CalmOk'
    BY DEF CalmOk
  <2>1. ~disturbed /\ ~\E f \in Evaluators : Evaluating(f)
    BY <1>1
  <2>2. \A f \in Evaluators : Evaluating(f)' => f = e
    BY <1>7, <2>1 DEF Evaluating
  <2>3. ASSUME NEW n \in DOMAIN notices
        PROVE  Heard(n)'
    <3>1. Heard(n)
      BY <2>1 DEF MonitoringInv, CalmOk
    <3>2. notices[n].at <= active[notices[n].alert.id]
      BY <2>1, <3>1 DEF Heard, MonitoringInv, BatchOk
    <3>. QED  BY <1>1, <3>2 DEF Heard
  <2>4. ASSUME NEW n \in DOMAIN notices
        PROVE  /\ notices[n].at <= batch.at
               /\ \A a \in batch.toFire : notices[n].alert.id = a.id =>
                    batch.at - notices[n].at >= Cooldown
    BY <1>3, <1>4, <1>5, <2>1, NotOfLate, TypeParts DEF MonitoringInv
  <2>5. \A m, n \in DOMAIN notices' :
         m < n /\ notices'[m].alert.id = notices'[n].alert.id =>
           notices'[n].at - notices'[m].at >= Cooldown
    BY <1>1, <2>1 DEF MonitoringInv, CalmOk
  <2>6. \A f \in Evaluators : Evaluating(f)' =>
         \A n \in DOMAIN notices' :
           /\ notices'[n].at <= evaluation'[f].at
           /\ ~evaluation'[f].notified =>
                \A a \in evaluation'[f].toFire : notices'[n].alert.id = a.id =>
                  evaluation'[f].at - notices'[n].at >= Cooldown
    BY <1>1, <1>7, <2>2, <2>4
  <2>. QED  BY <1>1, <2>2, <2>3, <2>5, <2>6 DEF CalmOk
<1>. QED  BY <1>8, <1>9, <1>10, <1>11, <1>12 DEF MonitoringInv

\* The batch is notified: what was notified before is long enough ago.
LEMMA NotifyStep ==
  ASSUME MonitoringInv, NEW e \in Evaluators, Notify(e)
  PROVE  MonitoringInv'
<1> DEFINE t == evaluation[e].at
           A == evaluation[e].toFire
<1>1. /\ Evaluating(e) /\ ~evaluation[e].notified
      /\ notices' = notices \o SetToSeq({[alert |-> a, at |-> t] : a \in A})
      /\ evaluation' = [evaluation EXCEPT ![e].notified = TRUE]
      /\ UNCHANGED <<clock, watch, signals, active, disturbed>>
  BY DEF Notify
<1>2. /\ t \in Nat /\ t <= clock /\ A \in SUBSET Alerts /\ IsFiniteSet(A) /\ clock \in Nat
      /\ evaluation \in [Evaluators -> Batches(clock)] /\ notices \in Seq(NoticeRecords)
      /\ \A a, b \in A : a.id = b.id => a = b
  BY <1>1, EvaluationTypes, TypeParts DEF MonitoringInv, BatchOk
<1>3. /\ notices' \in Seq(NoticeRecords)
      /\ \A n \in DOMAIN notices : n \in DOMAIN notices' /\ notices'[n] = notices[n]
      /\ \A n \in DOMAIN notices' \ DOMAIN notices :
           /\ notices'[n].alert \in A /\ notices'[n].at = t
           /\ \A m \in DOMAIN notices : m < n
      /\ \A m, n \in DOMAIN notices' \ DOMAIN notices :
           notices'[m].alert = notices'[n].alert => m = n
      /\ \A a \in A : \E n \in DOMAIN notices' : notices'[n].alert = a /\ notices'[n].at = t
      /\ DOMAIN notices \in SUBSET Int /\ DOMAIN notices' \in SUBSET Int
  BY <1>1, <1>2, NoticesGrow
<1>4. /\ evaluation'[e].at = t /\ evaluation'[e].toFire = A
      /\ evaluation'[e].suppressed = evaluation[e].suppressed /\ evaluation'[e].notified = TRUE
      /\ \A f \in Evaluators : f # e => evaluation'[f] = evaluation[f]
      /\ evaluation' \in [Evaluators -> Batches(clock)]
  BY <1>1, <1>2 DEF Batches
<1>5. \A f \in Evaluators : /\ evaluation'[f].at = evaluation[f].at
                            /\ evaluation'[f].toFire = evaluation[f].toFire
                            /\ evaluation'[f].suppressed = evaluation[f].suppressed
                            /\ evaluation[f].notified => evaluation'[f].notified
  BY <1>1, <1>4
<1> HIDE DEF t, A
<1>6. MonitoringTypeOK'
  <2>1. ASSUME NEW n \in DOMAIN notices'
        PROVE  notices'[n].at <= clock
    <3>1. CASE n \in DOMAIN notices
      BY <1>3, <3>1, TypeParts DEF MonitoringInv
    <3>2. CASE n \notin DOMAIN notices
      BY <1>2, <1>3, <3>2
    <3>. QED  BY <3>1, <3>2
  <2>2. SignalsOk' /\ clock' \in 0..MaxClock /\ watch' \in Watches
        /\ active' \in [AlertIds -> {Never} \cup 0..clock']
    BY <1>1, TypeParts DEF MonitoringInv, SignalsOk
  <2>3. clock' = clock /\ evaluation' \in [Evaluators -> Batches(clock')]
    BY <1>1, <1>4
  <2>4. \A n \in DOMAIN notices' : notices'[n].at <= clock'
    BY <2>1, <2>3
  <2>. QED  BY <1>3, <2>2, <2>3, <2>4, TypePartsNext
<1>7. ASSUME NEW f \in Evaluators
      PROVE  BatchOk(f)'
  <2>1. /\ IsFiniteSet(evaluation[f].toFire)
        /\ \A a, b \in evaluation[f].toFire : a.id = b.id => a = b
    BY DEF MonitoringInv, BatchOk
  <2>2. \A a \in evaluation[f].suppressed : \E n \in DOMAIN notices' :
          /\ notices'[n].alert.id = a.id /\ evaluation[f].at - notices'[n].at < Cooldown
          /\ watch' = "budget" => notices'[n].alert = a
    <3> SUFFICES ASSUME NEW a \in evaluation[f].suppressed
                 PROVE  \E n \in DOMAIN notices' :
                          /\ notices'[n].alert.id = a.id
                          /\ evaluation[f].at - notices'[n].at < Cooldown
                          /\ watch' = "budget" => notices'[n].alert = a
      OBVIOUS
    <3>1. PICK n \in DOMAIN notices :
            /\ notices[n].alert.id = a.id /\ evaluation[f].at - notices[n].at < Cooldown
            /\ watch = "budget" => notices[n].alert = a
      BY DEF MonitoringInv, BatchOk
    <3>2. n \in DOMAIN notices' /\ notices'[n] = notices[n] /\ watch' = watch
      BY <1>1, <1>3
    <3>. QED  BY <3>1, <3>2
  <2>3. evaluation'[f].notified =>
          /\ evaluation[f].at # Never
          /\ \A a \in evaluation[f].toFire : \E n \in DOMAIN notices' :
               notices'[n].alert = a /\ notices'[n].at = evaluation[f].at
    <3>1. CASE f = e
      <4>1. evaluation[f].at # Never
        BY <1>1, <3>1 DEF Evaluating
      <4>2. \A a \in evaluation[f].toFire : \E n \in DOMAIN notices' :
               notices'[n].alert = a /\ notices'[n].at = evaluation[f].at
        BY <1>3, <3>1 DEF t, A
      <4>. QED  BY <4>1, <4>2
    <3>2. CASE f # e
      <4> SUFFICES ASSUME evaluation[f].notified
                   PROVE  /\ evaluation[f].at # Never
                          /\ \A a \in evaluation[f].toFire : \E n \in DOMAIN notices' :
                               notices'[n].alert = a /\ notices'[n].at = evaluation[f].at
        BY <1>4, <3>2
      <4>1. Evaluating(f) /\ \A a \in evaluation[f].toFire : \E n \in DOMAIN notices :
               notices[n].alert = a /\ notices[n].at = evaluation[f].at
        BY DEF MonitoringInv, BatchOk
      <4>. QED  BY <1>3, <4>1 DEF Evaluating
    <3>. QED  BY <3>1, <3>2
  <2>. QED  BY <1>5, <2>1, <2>2, <2>3 DEF BatchOk, Evaluating
<1>8. SavedFiringsOk'
  <2> SUFFICES ASSUME NEW id \in AlertIds, active[id] # Never
               PROVE  \E n \in DOMAIN notices' : notices'[n].alert.id = id
                                                 /\ notices'[n].at = active[id]
    BY <1>1 DEF SavedFiringsOk
  <2>1. PICK n \in DOMAIN notices : notices[n].alert.id = id /\ notices[n].at = active[id]
    BY DEF MonitoringInv, SavedFiringsOk
  <2>. QED  BY <1>3, <2>1
<1>9. BudgetOk'
  <2> SUFFICES ASSUME watch = "budget"
               PROVE  /\ \A f \in Evaluators : \A a \in evaluation'[f].toFire : OfBudget(a)
                      /\ \A n \in DOMAIN notices' : OfBudget(notices'[n].alert)
    BY <1>1 DEF BudgetOk
  <2>1. \A f \in Evaluators : \A a \in evaluation[f].toFire : OfBudget(a)
    BY DEF MonitoringInv, BudgetOk
  <2>2. ASSUME NEW n \in DOMAIN notices'
        PROVE  OfBudget(notices'[n].alert)
    <3>1. CASE n \in DOMAIN notices
      BY <1>3, <3>1 DEF MonitoringInv, BudgetOk
    <3>2. CASE n \notin DOMAIN notices
      BY <1>3, <2>1, <3>2 DEF A
    <3>. QED  BY <3>1, <3>2
  <2>. QED  BY <1>5, <2>1, <2>2
<1>10. CalmOk'
  <2> SUFFICES ASSUME ~disturbed'
               PROVE  CalmOk'
    BY DEF CalmOk
  <2>1. /\ \A f, g \in Evaluators : Evaluating(f) /\ Evaluating(g) => f = g
        /\ \A n \in DOMAIN notices : Heard(n)
        /\ \A n \in DOMAIN notices :
             /\ notices[n].at <= t
             /\ \A a \in A : notices[n].alert.id = a.id => t - notices[n].at >= Cooldown
        /\ \A m, n \in DOMAIN notices :
             m < n /\ notices[m].alert.id = notices[n].alert.id =>
               notices[n].at - notices[m].at >= Cooldown
    BY <1>1 DEF MonitoringInv, CalmOk, t, A
  <2>2. \A f \in Evaluators : (Evaluating(f)' <=> Evaluating(f)) /\ (Evaluating(f)' => f = e)
    BY <1>1, <1>5, <2>1 DEF Evaluating
  <2>3. ASSUME NEW n \in DOMAIN notices'
        PROVE  Heard(n)' /\ notices'[n].at <= t
    <3>1. CASE n \in DOMAIN notices
      <4>1. Heard(n) /\ notices'[n] = notices[n] /\ active' = active
        BY <1>1, <1>3, <2>1, <3>1
      <4>2. notices'[n].at <= t
        BY <2>1, <3>1, <4>1
      <4>3. CASE notices[n].at <= active[notices[n].alert.id]
        BY <4>1, <4>2, <4>3 DEF Heard
      <4>4. CASE \E f \in Evaluators :
                   /\ evaluation[f].notified /\ notices[n].alert \in evaluation[f].toFire
                   /\ notices[n].at = evaluation[f].at
        BY <1>5, <4>1, <4>2, <4>4 DEF Heard
      <4>. QED  BY <4>1, <4>3, <4>4 DEF Heard
    <3>2. CASE n \notin DOMAIN notices
      <4>1. notices'[n].alert \in A /\ notices'[n].at = t
        BY <1>3, <3>2
      <4>. QED  BY <1>2, <1>4, <4>1 DEF Heard
    <3>. QED  BY <3>1, <3>2
  <2>4. ASSUME NEW m \in DOMAIN notices', NEW n \in DOMAIN notices', m < n,
               notices'[m].alert.id = notices'[n].alert.id
        PROVE  notices'[n].at - notices'[m].at >= Cooldown
    <3>1. CASE m \in DOMAIN notices /\ n \in DOMAIN notices
      BY <1>3, <2>1, <2>4, <3>1
    <3>2. CASE m \in DOMAIN notices /\ n \notin DOMAIN notices
      BY <1>3, <2>1, <2>4, <3>2
    <3>3. CASE m \notin DOMAIN notices /\ n \in DOMAIN notices
      <4>1. n < m /\ n \in Int /\ m \in Int
        BY <1>3, <3>3
      <4>. QED  BY <2>4, <4>1
    <3>4. CASE m \notin DOMAIN notices /\ n \notin DOMAIN notices
      <4>1. notices'[m].alert \in A /\ notices'[n].alert \in A
        BY <1>3, <3>4
      <4>2. m = n
        BY <1>2, <1>3, <2>4, <3>4, <4>1
      <4>3. m \in Int /\ n \in Int
        BY <1>3
      <4>. QED  BY <2>4, <4>2, <4>3
    <3>. QED  BY <3>1, <3>2, <3>3, <3>4
  <2>5. \A f \in Evaluators : Evaluating(f)' =>
         \A n \in DOMAIN notices' :
           /\ notices'[n].at <= evaluation'[f].at
           /\ ~evaluation'[f].notified =>
                \A a \in evaluation'[f].toFire : notices'[n].alert.id = a.id =>
                  evaluation'[f].at - notices'[n].at >= Cooldown
    BY <1>4, <2>2, <2>3
  <2>. QED  BY <2>1, <2>2, <2>3, <2>4, <2>5 DEF CalmOk
<1>. QED  BY <1>6, <1>7, <1>8, <1>9, <1>10 DEF MonitoringInv

\* The end of an evaluation: what it fired is saved, or it dies.
LEMMA EndedTypes ==
  ASSUME MonitoringInv, NEW e \in Evaluators,
         evaluation' = [evaluation EXCEPT ![e] = NoEvaluation],
         UNCHANGED <<clock, watch, signals, notices>>,
         active' \in [AlertIds -> {Never} \cup 0..clock]
  PROVE  /\ MonitoringTypeOK' /\ BudgetOk'
         /\ \A f \in Evaluators : BatchOk(f)'
         /\ evaluation'[e] = NoEvaluation
         /\ \A f \in Evaluators : f # e => evaluation'[f] = evaluation[f]
<1>1. clock \in Nat /\ evaluation \in [Evaluators -> Batches(clock)]
  BY EvaluationTypes, TypeParts DEF MonitoringInv
<1>2. /\ evaluation'[e] = NoEvaluation
      /\ \A f \in Evaluators : f # e => evaluation'[f] = evaluation[f]
      /\ evaluation' \in [Evaluators -> Batches(clock)]
  BY <1>1, NoBatch
<1>3. MonitoringTypeOK'
  <2>1. SignalsOk' /\ clock' \in 0..MaxClock /\ watch' \in Watches
        /\ notices' \in Seq(NoticeRecords)
    BY TypeParts DEF MonitoringInv, SignalsOk
  <2>3. \A n \in DOMAIN notices' : notices'[n].at <= clock'
    BY TypeParts DEF MonitoringInv
  <2>2. /\ active' \in [AlertIds -> {Never} \cup 0..clock']
        /\ evaluation' \in [Evaluators -> Batches(clock')]
    BY <1>2
  <2>. QED  BY <2>1, <2>2, <2>3, TypePartsNext
<1>4. BudgetOk'
  BY <1>2 DEF MonitoringInv, BudgetOk, NoEvaluation
<1>5. ASSUME NEW f \in Evaluators
      PROVE  BatchOk(f)'
  <2>1. CASE f = e
    BY <1>2, <2>1, FS_EmptySet DEF BatchOk, NoEvaluation
  <2>2. CASE f # e
    BY <1>2, <2>2 DEF MonitoringInv, BatchOk, Evaluating
  <2>. QED  BY <2>1, <2>2
<1>. QED  BY <1>2, <1>3, <1>4, <1>5

\* What was notified is saved as fired then.
LEMMA SaveFiredStep ==
  ASSUME MonitoringInv, NEW e \in Evaluators, SaveFired(e)
  PROVE  MonitoringInv'
<1> DEFINE t == evaluation[e].at
           Fired(id) == \E a \in evaluation[e].toFire : a.id = id
<1>1. /\ Evaluating(e) /\ evaluation[e].notified
      /\ active' = [id \in AlertIds |-> IF Fired(id) THEN t ELSE active[id]]
      /\ evaluation' = [evaluation EXCEPT ![e] = NoEvaluation]
      /\ UNCHANGED <<clock, watch, signals, notices, disturbed>>
  BY DEF SaveFired
<1>2. /\ t \in Nat /\ t <= clock /\ clock \in Nat
      /\ active \in [AlertIds -> {Never} \cup 0..clock]
  BY <1>1, EvaluationTypes, TypeParts DEF MonitoringInv
<1>3. \A id \in AlertIds : active'[id] = IF Fired(id) THEN t ELSE active[id]
  BY <1>1
<1>4. active' \in [AlertIds -> {Never} \cup 0..clock]
  <2> HIDE DEF t, Fired
  <2>. QED  BY <1>1, <1>2
<1>5. /\ MonitoringTypeOK' /\ BudgetOk' /\ \A f \in Evaluators : BatchOk(f)'
      /\ evaluation'[e] = NoEvaluation
      /\ \A f \in Evaluators : f # e => evaluation'[f] = evaluation[f]
  BY <1>1, <1>4, EndedTypes
<1>6. SavedFiringsOk'
  <2> SUFFICES ASSUME NEW id \in AlertIds, active'[id] # Never
               PROVE  \E n \in DOMAIN notices : notices[n].alert.id = id
                                                /\ notices[n].at = active'[id]
    BY <1>1 DEF SavedFiringsOk
  <2>1. CASE Fired(id)
    <3>1. PICK a \in evaluation[e].toFire : a.id = id
      BY <2>1
    <3>2. PICK n \in DOMAIN notices : notices[n].alert = a /\ notices[n].at = t
      BY <1>1 DEF MonitoringInv, BatchOk
    <3>. QED  BY <1>3, <2>1, <3>1, <3>2
  <2>2. CASE ~Fired(id)
    BY <1>3, <2>2 DEF MonitoringInv, SavedFiringsOk
  <2>. QED  BY <2>1, <2>2
<1>7. CalmOk'
  <2> SUFFICES ASSUME ~disturbed'
               PROVE  CalmOk'
    BY DEF CalmOk
  <2>1. /\ \A f, g \in Evaluators : Evaluating(f) /\ Evaluating(g) => f = g
        /\ \A n \in DOMAIN notices : Heard(n) /\ notices[n].at <= t
    BY <1>1 DEF MonitoringInv, CalmOk
  <2>2. \A f \in Evaluators : ~Evaluating(f)'
    BY <1>1, <1>5, <2>1 DEF Evaluating, NoEvaluation
  <2>3. ASSUME NEW n \in DOMAIN notices
        PROVE  Heard(n)'
    <3> DEFINE id == notices[n].alert.id
    <3>1. id \in AlertIds /\ notices[n].at \in Nat
      BY NoticeTypes DEF MonitoringInv, NoticeRecords, Alerts
    <3>2. CASE Fired(id)
      BY <1>1, <1>3, <2>1, <3>1, <3>2 DEF Heard
    <3>3. CASE ~Fired(id)
      <4>1. active'[id] = active[id] /\ notices[n].alert \notin evaluation[e].toFire
        BY <1>3, <3>1, <3>3
      <4>2. Heard(n)
        BY <2>1
      <4>3. CASE notices[n].at <= active[id]
        BY <1>1, <4>1, <4>3 DEF Heard
      <4>4. CASE \E f \in Evaluators :
                   /\ evaluation[f].notified /\ notices[n].alert \in evaluation[f].toFire
                   /\ notices[n].at = evaluation[f].at
        BY <1>1, <1>5, <4>1, <4>4 DEF Heard
      <4>. QED  BY <4>2, <4>3, <4>4 DEF Heard
    <3>. QED  BY <3>2, <3>3
  <2>4. \A m, n \in DOMAIN notices' :
          m < n /\ notices'[m].alert.id = notices'[n].alert.id =>
            notices'[n].at - notices'[m].at >= Cooldown
    BY <1>1 DEF MonitoringInv, CalmOk
  <2>. QED  BY <1>1, <2>2, <2>3, <2>4 DEF CalmOk
<1>. QED  BY <1>5, <1>6, <1>7 DEF MonitoringInv

\* An evaluation that dies leaves its notices without a record, and that disturbs.
LEMMA EvaluatorDiesStep ==
  ASSUME MonitoringInv, NEW e \in Evaluators, EvaluatorDies(e)
  PROVE  MonitoringInv'
<1>1. /\ evaluation' = [evaluation EXCEPT ![e] = NoEvaluation]
      /\ disturbed' = (disturbed \/ evaluation[e].notified)
      /\ UNCHANGED <<clock, watch, signals, active, notices>>
  BY DEF EvaluatorDies
<1>2. active' \in [AlertIds -> {Never} \cup 0..clock]
  BY <1>1, TypeParts DEF MonitoringInv
<1>3. /\ MonitoringTypeOK' /\ BudgetOk' /\ \A f \in Evaluators : BatchOk(f)'
      /\ evaluation'[e] = NoEvaluation
      /\ \A f \in Evaluators : f # e => evaluation'[f] = evaluation[f]
  BY <1>1, <1>2, EndedTypes
<1>4. SavedFiringsOk'
  BY <1>1 DEF MonitoringInv, SavedFiringsOk
<1>5. CalmOk'
  <2> SUFFICES ASSUME ~disturbed'
               PROVE  CalmOk'
    BY DEF CalmOk
  <2>1. ~disturbed /\ ~evaluation[e].notified
    BY <1>1
  <2>2. \A f \in Evaluators : Evaluating(f)' => f # e /\ Evaluating(f)
    BY <1>3 DEF Evaluating, NoEvaluation
  <2>3. ASSUME NEW n \in DOMAIN notices
        PROVE  Heard(n)'
    <3>1. Heard(n)
      BY <2>1 DEF MonitoringInv, CalmOk
    <3>2. CASE notices[n].at <= active[notices[n].alert.id]
      BY <1>1, <3>2 DEF Heard
    <3>3. CASE \E f \in Evaluators :
                 /\ evaluation[f].notified /\ notices[n].alert \in evaluation[f].toFire
                 /\ notices[n].at = evaluation[f].at
      <4>1. PICK f \in Evaluators :
                 /\ evaluation[f].notified /\ notices[n].alert \in evaluation[f].toFire
                 /\ notices[n].at = evaluation[f].at
        BY <3>3
      <4>2. evaluation'[f] = evaluation[f]
        BY <1>3, <2>1, <4>1
      <4>. QED  BY <1>1, <4>1, <4>2 DEF Heard
    <3>. QED  BY <3>1, <3>2, <3>3 DEF Heard
  <2>4. \A f, g \in Evaluators : Evaluating(f)' /\ Evaluating(g)' => f = g
    BY <2>1, <2>2 DEF MonitoringInv, CalmOk
  <2>5. \A f \in Evaluators : Evaluating(f)' =>
         \A n \in DOMAIN notices' :
           /\ notices'[n].at <= evaluation'[f].at
           /\ ~evaluation'[f].notified =>
                \A a \in evaluation'[f].toFire : notices'[n].alert.id = a.id =>
                  evaluation'[f].at - notices'[n].at >= Cooldown
    BY <1>1, <1>3, <2>1, <2>2 DEF MonitoringInv, CalmOk
  <2>6. \A m, n \in DOMAIN notices' :
          m < n /\ notices'[m].alert.id = notices'[n].alert.id =>
            notices'[n].at - notices'[m].at >= Cooldown
    BY <1>1, <2>1 DEF MonitoringInv, CalmOk
  <2>. QED  BY <1>1, <2>3, <2>4, <2>5, <2>6 DEF CalmOk
<1>. QED  BY <1>3, <1>4, <1>5 DEF MonitoringInv

-----------------------------------------------------------------------------
\* Nothing was notified at first.
LEMMA MonitoringStart == MonitoringInit => MonitoringInv
<1> SUFFICES ASSUME MonitoringInit
             PROVE  MonitoringInv
  OBVIOUS
<1>1. clock = 0 /\ MaxClock \in Nat /\ MaxSpent \in Nat /\ MaxSignals \in Nat
  BY MonitoringAssumption DEF MonitoringInit, MonitoringAssumption
<1>2. /\ \A S : << >> \in Seq(S)
      /\ DOMAIN notices = {} /\ DOMAIN signals.events = {}
  <2>1. \A S : << >> \in Seq(S) /\ Len(<< >>) = 0
    BY EmptySeq
  <2>2. DOMAIN << >> = 1..0
    BY <2>1, LenProperties
  <2>3. notices = << >> /\ signals.events = << >>
    BY DEF MonitoringInit, NoSignals
  <2>. QED  BY <2>1, <2>2, <2>3
<1>3. SignalsOk
  <2>1. NoSignals \in SignalTypes
    BY <1>1, <1>2 DEF NoSignals, SignalTypes
  <2>2. signals = NoSignals /\ NoSignals.bounced = 0 /\ NoSignals.relevant = 0
    BY DEF MonitoringInit, NoSignals
  <2>. QED  BY <1>2, <2>1, <2>2 DEF SignalsOk
<1>4. MonitoringTypeOK
  <2>1. evaluation \in [Evaluators -> Batches(clock)]
    BY <1>1, NoBatch DEF MonitoringInit
  <2>2. active \in [AlertIds -> {Never} \cup 0..clock]
    BY DEF MonitoringInit
  <2>3. clock \in 0..MaxClock /\ watch \in Watches /\ notices \in Seq(NoticeRecords)
    BY <1>1, <1>2 DEF MonitoringInit
  <2>. QED  BY <1>2, <1>3, <2>1, <2>2, <2>3, TypeParts
<1>5. \A e \in Evaluators : evaluation[e] = NoEvaluation
  BY DEF MonitoringInit
<1>6. \A e \in Evaluators : BatchOk(e)
  BY <1>5, FS_EmptySet DEF BatchOk, NoEvaluation
<1>7. SavedFiringsOk
  BY DEF SavedFiringsOk, MonitoringInit
<1>8. BudgetOk
  BY <1>2, <1>5 DEF BudgetOk, NoEvaluation
<1>9. CalmOk
  BY <1>2, <1>5 DEF CalmOk, Evaluating, NoEvaluation
<1>. QED  BY <1>4, <1>6, <1>7, <1>8, <1>9 DEF MonitoringInv

\* Every step of the monitoring keeps its invariant.
LEMMA MonitoringInductive ==
  ASSUME MonitoringInv, [MonitoringNext]_monitoringVars
  PROVE  MonitoringInv'
<1>1. CASE MonitoringNext
  BY <1>1, HealthEventStep, OtherSignalSteps, ClockStep, EvaluateStep, NotifyStep, SaveFiredStep,
     EvaluatorDiesStep DEF MonitoringNext
<1>2. CASE UNCHANGED monitoringVars
  <2>1. clock \in 0..MaxClock /\ MaxClock \in Nat /\ SignalsOk
    BY TypeParts, MonitoringAssumption DEF MonitoringInv, MonitoringAssumption
  <2>2. /\ clock' \in 0..MaxClock /\ clock <= clock' /\ SignalsOk'
        /\ UNCHANGED <<watch, active, evaluation, notices, disturbed>>
    BY <1>2, <2>1 DEF monitoringVars, SignalsOk
  <2>. QED  BY <2>2, QuietStep
<1>. QED  BY <1>1, <1>2

\* The inductive invariant of the alerts.
THEOREM MonitoringInvariant == MonitoringSpec => []MonitoringInv
<1>1. MonitoringInit => MonitoringInv
  BY MonitoringStart
<1>2. MonitoringInv /\ [MonitoringNext]_monitoringVars => MonitoringInv'
  BY MonitoringInductive
<1>. QED  BY <1>1, <1>2, PTL DEF MonitoringSpec

\* Events, evaluations and notices keep their types, and none is later than the clock.
THEOREM MonitoringTypeCorrect == MonitoringSpec => []MonitoringTypeOK
<1>1. MonitoringInv => MonitoringTypeOK
  BY DEF MonitoringInv
<1>. QED  BY <1>1, MonitoringInvariant, PTL

\* However many evaluators there are, whatever they observe and whenever they die,
\* an alert held back was notified of late, and without overlaps or deaths none is
\* repeated within its cooldown.
THEOREM AlertsAreNotRepeated == MonitoringSpec => []AlertsAreHeardOnce
<1>1. MonitoringInv => AlertsAreHeardOnce
  BY DEF MonitoringInv, AlertsAreHeardOnce, CalmOk, BatchOk
<1>. QED  BY <1>1, MonitoringInvariant, PTL

-----------------------------------------------------------------------------
(* The first administrator.                                                *)

Deciding == {"NO_ADMIN", "USER_FOUND", "LINKED"}

\* The transactions of an organization exclude each other, so nobody who can sign in
\* appears while one decides; a linked identity is its user's or nobody's, and no two
\* transactions have linked one; at most one administrator can sign in.
BootstrapInv ==
  /\ BootstrapTypeOK
  /\ \A b, c \in Bootstraps :
       bootstrap[b].at \in Open /\ bootstrap[c].at \in Open /\ bootstrap[b].org = bootstrap[c].org => b = c
  /\ \A org \in Organizations : \A b \in Bootstraps :
       bootstrap[b].at \in Deciding /\ bootstrap[b].org = org => Authenticatable(org) = {}
  /\ \A b \in Bootstraps : At(b, "LINKED") =>
       /\ identity[bootstrap[b].email] \in {NoOne, Call(b)}
       /\ \A e \in Emails : identity[e] = Call(b) => e = bootstrap[b].email
  /\ \A b, c \in Bootstraps :
       At(b, "LINKED") /\ At(c, "LINKED") /\ bootstrap[b].email = bootstrap[c].email => b = c
  /\ \A org \in Organizations : \A e, f \in Authenticatable(org) : e = f
  /\ \A b \in Bootstraps : bootstrap[b].at \in {"CREATED", "EXISTING"} =>
       /\ identity[bootstrap[b].email] \in {bootstrap[b].org} \X Emails
       /\ credential[bootstrap[b].email] = "SET"
       /\ bootstrap[b].org \notin lapsed => identity[bootstrap[b].email] \in admins
  /\ \A b, c \in Bootstraps :
       At(b, "CREATED") /\ At(c, "CREATED") /\ bootstrap[b].org = bootstrap[c].org
         /\ bootstrap[b].org \notin lapsed => b = c

LEMMA BootstrapFacts ==
  ASSUME BootstrapTypeOK, NEW b \in Bootstraps
  PROVE  /\ bootstrap[b].org \in Organizations /\ bootstrap[b].email \in Emails
         /\ Call(b) \in Users /\ Call(b) # NoOne
         /\ Call(b)[1] = bootstrap[b].org
BY BootstrapAssumption DEF BootstrapTypeOK, Call, Users

\* What a call that has been answered was told of is there to sign in with.
LEMMA ToldCanSignIn ==
  ASSUME BootstrapInv, NEW b \in Bootstraps, bootstrap[b].at \in {"CREATED", "EXISTING"},
         bootstrap[b].org \notin lapsed
  PROVE  bootstrap[b].email \in Authenticatable(bootstrap[b].org)
<1>1. bootstrap[b].email \in Emails
  BY BootstrapFacts DEF BootstrapInv
<1>. QED  BY <1>1 DEF BootstrapInv, Authenticatable

\* A call moves from one place to another and writes nothing.
LEMMA CallMoves ==
  ASSUME BootstrapInv, NEW b \in Bootstraps, NEW location \in {"START"} \cup Open \cup Answered,
         Goes(b, location), UNCHANGED <<userStatus, identity, credential, admins, lapsed>>,
         location \in Open => bootstrap[b].at \in Open \/ LockFree(b),
         location \in Deciding => Authenticatable(bootstrap[b].org) = {},
         location = "LINKED" =>
           /\ identity[bootstrap[b].email] \in {NoOne, Call(b)}
           /\ \A e \in Emails : identity[e] = Call(b) => e = bootstrap[b].email
           /\ \A c \in Bootstraps : At(c, "LINKED") => bootstrap[c].email # bootstrap[b].email,
         location = "EXISTING" => bootstrap[b].email \in Authenticatable(bootstrap[b].org),
         location # "CREATED"
  PROVE  BootstrapInv'
<1>1. /\ bootstrap' \in [Bootstraps -> [at : {"START"} \cup Open \cup Answered,
                                         org : Organizations, email : Emails]]
      /\ bootstrap'[b].at = location
      /\ \A c \in Bootstraps : bootstrap'[c].org = bootstrap[c].org /\ bootstrap'[c].email = bootstrap[c].email
      /\ \A c \in Bootstraps : c # b => bootstrap'[c].at = bootstrap[c].at
  BY DEF BootstrapInv, BootstrapTypeOK, Goes
<1>2. identity' = identity /\ credential' = credential /\ admins' = admins /\ lapsed' = lapsed /\ userStatus' = userStatus
  OBVIOUS
<1>3. BootstrapTypeOK'
  BY <1>1, <1>2 DEF BootstrapInv, BootstrapTypeOK
<1>4. \A org : Authenticatable(org)' = Authenticatable(org)
  BY <1>2 DEF Authenticatable
<1>5. \A c \in Bootstraps : Call(c)' = Call(c)
  BY <1>1 DEF Call
<1>6. \A c, d \in Bootstraps :
        bootstrap'[c].at \in Open /\ bootstrap'[d].at \in Open /\ bootstrap'[c].org = bootstrap'[d].org => c = d
  BY <1>1 DEF BootstrapInv, LockFree
<1>7. \A org \in Organizations : \A c \in Bootstraps :
        bootstrap'[c].at \in Deciding /\ bootstrap'[c].org = org => Authenticatable(org)' = {}
  BY <1>1, <1>4 DEF BootstrapInv
<1>8. \A c \in Bootstraps : bootstrap'[c].at = "LINKED" =>
        /\ identity'[bootstrap'[c].email] \in {NoOne, Call(c)'}
        /\ \A e \in Emails : identity'[e] = Call(c)' => e = bootstrap'[c].email
  BY <1>1, <1>2, <1>5 DEF BootstrapInv, At
<1>9. \A c, d \in Bootstraps :
        bootstrap'[c].at = "LINKED" /\ bootstrap'[d].at = "LINKED" /\ bootstrap'[c].email = bootstrap'[d].email => c = d
  BY <1>1 DEF BootstrapInv, At
<1>10. \A c \in Bootstraps : bootstrap'[c].at \in {"CREATED", "EXISTING"} =>
         /\ identity'[bootstrap'[c].email] \in {bootstrap'[c].org} \X Emails
         /\ credential'[bootstrap'[c].email] = "SET"
         /\ bootstrap'[c].org \notin lapsed' => identity'[bootstrap'[c].email] \in admins'
  BY <1>1, <1>2 DEF BootstrapInv, Authenticatable
<1>11. \A c, d \in Bootstraps :
         bootstrap'[c].at = "CREATED" /\ bootstrap'[d].at = "CREATED" /\ bootstrap'[c].org = bootstrap'[d].org
           /\ bootstrap'[c].org \notin lapsed' => c = d
  BY <1>1, <1>2 DEF BootstrapInv, At
<1>12. \A org \in Organizations : \A e, f \in Authenticatable(org)' : e = f
  BY <1>4 DEF BootstrapInv
<1>. QED
  BY <1>1, <1>2, <1>3, <1>4, <1>6, <1>7, <1>8, <1>9, <1>10, <1>11, <1>12 DEF BootstrapInv, At

\* The commit is the only step that lets somebody sign in, and of its own organization.
LEMMA CommitKeeps ==
  ASSUME BootstrapInv, NEW b \in Bootstraps, Commit(b)
  PROVE  BootstrapInv'
<1>1. /\ At(b, "LINKED") /\ bootstrap[b].at \in Open /\ bootstrap[b].at \in Deciding
      /\ identity' = [identity EXCEPT ![bootstrap[b].email] = Call(b)]
      /\ credential' = [credential EXCEPT ![bootstrap[b].email] = "SET"]
      /\ admins' = admins \cup {Call(b)} /\ lapsed' = lapsed
  BY DEF Commit, At, Open, Deciding
<1>2. /\ bootstrap' \in [Bootstraps -> [at : {"START"} \cup Open \cup Answered,
                                         org : Organizations, email : Emails]]
      /\ bootstrap'[b].at = "CREATED"
      /\ \A c \in Bootstraps : bootstrap'[c].org = bootstrap[c].org /\ bootstrap'[c].email = bootstrap[c].email
      /\ \A c \in Bootstraps : c # b => bootstrap'[c].at = bootstrap[c].at
  BY DEF BootstrapInv, BootstrapTypeOK, Commit, Goes, Answered
<1>3. /\ bootstrap[b].org \in Organizations /\ bootstrap[b].email \in Emails
      /\ Call(b) \in Users /\ Call(b) # NoOne /\ Call(b)[1] = bootstrap[b].org
      /\ Call(b) \in {bootstrap[b].org} \X Emails
  BY BootstrapFacts DEF BootstrapInv, Call
<1>4. /\ identity' \in [Emails -> Users \cup {NoOne}] /\ credential' \in [Emails -> {"NONE", "EMPTY", "SET"}]
      /\ admins' \subseteq Users
      /\ identity'[bootstrap[b].email] = Call(b) /\ credential'[bootstrap[b].email] = "SET"
      /\ \A e \in Emails : e # bootstrap[b].email => identity'[e] = identity[e] /\ credential'[e] = credential[e]
  BY <1>1, <1>3 DEF BootstrapInv, BootstrapTypeOK
<1>5. userStatus' \in [Users -> {"NONE", "ACTIVE", "DISABLED"}]
  BY DEF Commit, BootstrapInv, BootstrapTypeOK
<1>6. BootstrapTypeOK'
  BY <1>2, <1>4, <1>5 DEF BootstrapTypeOK
<1>7. \A e \in Emails : identity[e] # NoOne => identity'[e] = identity[e]
  BY <1>1, <1>4 DEF BootstrapInv
<1>8. \A e \in Emails : credential[e] = "SET" => credential'[e] = "SET"
  BY <1>4
<1>9. \A c \in Bootstraps : Call(c)' = Call(c)
  BY <1>2 DEF Call
<1>10. \A org \in Organizations : org # bootstrap[b].org => Authenticatable(org)' = Authenticatable(org)
  <2>. SUFFICES ASSUME NEW org \in Organizations, org # bootstrap[b].org, NEW e \in Emails
                PROVE  (identity'[e] \in admins' \cap ({org} \X Emails) /\ credential'[e] = "SET")
                         <=> (identity[e] \in admins \cap ({org} \X Emails) /\ credential[e] = "SET")
    BY DEF Authenticatable
  <2>1. Call(b) \notin {org} \X Emails
    BY <1>3
  <2>2. NoOne \notin {org} \X Emails
    BY BootstrapAssumption DEF Users
  <2>3. CASE e = bootstrap[b].email
    <3>1. identity[e] \in {NoOne, Call(b)}
      BY <1>1, <2>3 DEF BootstrapInv
    <3>. QED  BY <2>1, <2>2, <2>3, <3>1, <1>4
  <2>4. CASE e # bootstrap[b].email
    BY <2>1, <2>4, <1>1, <1>4
  <2>. QED  BY <2>3, <2>4
<1>11. \A org \in Organizations : org = bootstrap[b].org => Authenticatable(org)' \subseteq {bootstrap[b].email}
  <2>. SUFFICES ASSUME NEW e \in Emails, e # bootstrap[b].email,
                       identity'[e] \in admins' \cap ({bootstrap[b].org} \X Emails), credential'[e] = "SET"
                PROVE  FALSE
    BY DEF Authenticatable
  <2>1. identity[e] # Call(b)
    BY <1>1 DEF BootstrapInv
  <2>2. e \in Authenticatable(bootstrap[b].org)
    BY <2>1, <1>1, <1>4 DEF Authenticatable
  <2>. QED  BY <2>2, <1>1, <1>3 DEF BootstrapInv
<1>12. \A c, d \in Bootstraps :
        bootstrap'[c].at \in Open /\ bootstrap'[d].at \in Open /\ bootstrap'[c].org = bootstrap'[d].org => c = d
  BY <1>1, <1>2 DEF BootstrapInv
<1>13. \A c \in Bootstraps : c # b /\ bootstrap'[c].at \in Open => bootstrap[c].org # bootstrap[b].org
  BY <1>1, <1>2 DEF BootstrapInv
<1>14. \A org \in Organizations : \A c \in Bootstraps :
        bootstrap'[c].at \in Deciding /\ bootstrap'[c].org = org => Authenticatable(org)' = {}
  <2>. SUFFICES ASSUME NEW org \in Organizations, NEW c \in Bootstraps,
                       bootstrap'[c].at \in Deciding, bootstrap'[c].org = org
                PROVE  Authenticatable(org)' = {}
    OBVIOUS
  <2>1. c # b /\ bootstrap[c].at \in Deciding /\ bootstrap'[c].at \in Open /\ bootstrap[c].org = org
    BY <1>2 DEF Deciding, Open
  <2>2. org # bootstrap[b].org
    BY <2>1, <1>13
  <2>3. Authenticatable(org) = {}
    BY <2>1 DEF BootstrapInv
  <2>. QED  BY <2>2, <2>3, <1>10
<1>15. \A c \in Bootstraps : bootstrap'[c].at = "LINKED" =>
        /\ identity'[bootstrap'[c].email] \in {NoOne, Call(c)'}
        /\ \A e \in Emails : identity'[e] = Call(c)' => e = bootstrap'[c].email
  <2>. SUFFICES ASSUME NEW c \in Bootstraps, bootstrap'[c].at = "LINKED"
                PROVE  /\ identity'[bootstrap[c].email] \in {NoOne, Call(c)}
                       /\ \A e \in Emails : identity'[e] = Call(c) => e = bootstrap[c].email
    BY <1>2, <1>9
  <2>1. c # b /\ At(c, "LINKED") /\ bootstrap'[c].at \in Open
    BY <1>2 DEF At, Open
  <2>2. bootstrap[c].email # bootstrap[b].email /\ bootstrap[c].email \in Emails
    BY <2>1, <1>1, BootstrapFacts DEF BootstrapInv
  <2>3. Call(c) # Call(b)
    BY <2>1, <1>13 DEF Call
  <2>. QED  BY <2>1, <2>2, <2>3, <1>4 DEF BootstrapInv
<1>16. \A c, d \in Bootstraps :
        bootstrap'[c].at = "LINKED" /\ bootstrap'[d].at = "LINKED" /\ bootstrap'[c].email = bootstrap'[d].email => c = d
  BY <1>1, <1>2 DEF BootstrapInv, At
<1>17. \A org \in Organizations : \A e, f \in Authenticatable(org)' : e = f
  BY <1>10, <1>11 DEF BootstrapInv
<1>18. \A c \in Bootstraps : bootstrap'[c].at \in {"CREATED", "EXISTING"} =>
         /\ identity'[bootstrap'[c].email] \in {bootstrap'[c].org} \X Emails
         /\ credential'[bootstrap'[c].email] = "SET"
         /\ bootstrap'[c].org \notin lapsed' => identity'[bootstrap'[c].email] \in admins'
  <2>. SUFFICES ASSUME NEW c \in Bootstraps, bootstrap'[c].at \in {"CREATED", "EXISTING"}
                PROVE  /\ identity'[bootstrap[c].email] \in {bootstrap[c].org} \X Emails
                       /\ credential'[bootstrap[c].email] = "SET"
                       /\ bootstrap[c].org \notin lapsed => identity'[bootstrap[c].email] \in admins'
    BY <1>1, <1>2
  <2>1. CASE c = b
    BY <2>1, <1>1, <1>3, <1>4
  <2>2. CASE c # b
    <3>1. bootstrap[c].at \in {"CREATED", "EXISTING"}
      BY <2>2, <1>2
    <3>2. /\ identity[bootstrap[c].email] \in {bootstrap[c].org} \X Emails
          /\ credential[bootstrap[c].email] = "SET"
          /\ bootstrap[c].org \notin lapsed => identity[bootstrap[c].email] \in admins
      BY <3>1 DEF BootstrapInv
    <3>3. bootstrap[c].email \in Emails /\ identity[bootstrap[c].email] # NoOne
      BY <3>2, BootstrapFacts, BootstrapAssumption DEF BootstrapInv, Users
    <3>. QED  BY <3>2, <3>3, <1>1, <1>7, <1>8
  <2>. QED  BY <2>1, <2>2
<1>19. \A c \in Bootstraps : c # b /\ bootstrap[c].at = "CREATED" /\ bootstrap[c].org = bootstrap[b].org
         => bootstrap[b].org \in lapsed
  <2>1. Authenticatable(bootstrap[b].org) = {}
    BY <1>1, <1>3 DEF BootstrapInv
  <2>. QED  BY <2>1, ToldCanSignIn
<1>20. \A c, d \in Bootstraps :
         bootstrap'[c].at = "CREATED" /\ bootstrap'[d].at = "CREATED" /\ bootstrap'[c].org = bootstrap'[d].org
           /\ bootstrap'[c].org \notin lapsed' => c = d
  BY <1>1, <1>2, <1>19 DEF BootstrapInv, At
<1>. QED
  BY <1>2, <1>6, <1>12, <1>14, <1>15, <1>16, <1>17, <1>18, <1>20 DEF BootstrapInv, At

LEMMA BootstrapInitHolds == BootstrapInit => BootstrapInv
<1>. SUFFICES ASSUME BootstrapInit PROVE BootstrapInv
  OBVIOUS
<1>1. PICK u \in Users, status \in {"NONE", "ACTIVE", "DISABLED"}, e \in Emails \cup {NoOne},
          password \in {"NONE", "EMPTY", "SET"}, isAdmin \in BOOLEAN :
       /\ status = "NONE" => e = NoOne /\ ~isAdmin
       /\ e = NoOne => password = "NONE"
       /\ userStatus = [v \in Users |-> IF v = u THEN status ELSE "NONE"]
       /\ identity = [f \in Emails |-> IF f = e THEN u ELSE NoOne]
       /\ credential = [f \in Emails |-> IF f = e THEN password ELSE "NONE"]
       /\ admins = IF isAdmin THEN {u} ELSE {}
  BY DEF BootstrapInit
<1>2. /\ bootstrap \in [Bootstraps -> [at : {"START"}, org : Organizations, email : Emails]]
      /\ lapsed = {} /\ \A b \in Bootstraps : bootstrap[b].at = "START"
  BY DEF BootstrapInit
<1>3. bootstrap \in [Bootstraps -> [at : {"START"} \cup Open \cup Answered,
                                    org : Organizations, email : Emails]]
  BY <1>2
<1>4. /\ userStatus \in [Users -> {"NONE", "ACTIVE", "DISABLED"}]
      /\ identity \in [Emails -> Users \cup {NoOne}]
      /\ credential \in [Emails -> {"NONE", "EMPTY", "SET"}] /\ admins \subseteq Users
  BY <1>1
<1>5. BootstrapTypeOK
  BY <1>3, <1>4 DEF BootstrapTypeOK
<1>6. \A f \in Emails : identity[f] # NoOne => f = e
  BY <1>1
<1>7. \A org \in Organizations : \A f, g \in Authenticatable(org) : f = g
  BY <1>4, <1>6, BootstrapAssumption DEF Authenticatable
<1>. QED  BY <1>2, <1>5, <1>7 DEF BootstrapInv, At, Open, Deciding

LEMMA BootstrapStep == BootstrapInv /\ [BootstrapNext]_bootstrapVars => BootstrapInv'
<1>. SUFFICES ASSUME BootstrapInv, [BootstrapNext]_bootstrapVars PROVE BootstrapInv'
  OBVIOUS
<1>1. ASSUME NEW b \in Bootstraps, Lock(b) PROVE BootstrapInv'
  BY <1>1, CallMoves DEF Lock, Open, Deciding
<1>2. ASSUME NEW b \in Bootstraps, FindAdmin(b) PROVE BootstrapInv'
  <2>1. /\ bootstrap[b].at = "LOCKED" /\ bootstrap[b].at \in Open
        /\ UNCHANGED <<userStatus, identity, credential, admins, lapsed>>
    BY <1>2 DEF FindAdmin, At, Open
  <2>2. CASE Authenticatable(bootstrap[b].org) = {} /\ Goes(b, "NO_ADMIN")
    BY <2>1, <2>2, CallMoves DEF Open, Deciding
  <2>3. CASE \E e \in Authenticatable(bootstrap[b].org) :
          Goes(b, CASE e # bootstrap[b].email -> "ALREADY_BOOTSTRAPPED"
                    [] e = bootstrap[b].email /\ userStatus[identity[e]] = "ACTIVE" -> "EXISTING"
                    [] OTHER -> "IDENTITY_CONFLICT")
    <3>1. PICK e \in Authenticatable(bootstrap[b].org) :
          Goes(b, CASE e # bootstrap[b].email -> "ALREADY_BOOTSTRAPPED"
                    [] e = bootstrap[b].email /\ userStatus[identity[e]] = "ACTIVE" -> "EXISTING"
                    [] OTHER -> "IDENTITY_CONFLICT")
      BY <2>3
    <3>2. \E location \in {"ALREADY_BOOTSTRAPPED", "EXISTING", "IDENTITY_CONFLICT"} :
            Goes(b, location) /\ (location = "EXISTING" => e = bootstrap[b].email)
      BY <3>1
    <3>. QED  BY <2>1, <3>1, <3>2, CallMoves DEF Open, Deciding, Answered, Refused
  <2>. QED  BY <1>2, <2>2, <2>3 DEF FindAdmin
<1>3. ASSUME NEW b \in Bootstraps, FindUser(b) PROVE BootstrapInv'
  <2>1. /\ bootstrap[b].at = "NO_ADMIN" /\ bootstrap[b].at \in Open /\ bootstrap[b].at \in Deciding
        /\ UNCHANGED <<userStatus, identity, credential, admins, lapsed>>
        /\ \E location \in {"IDENTITY_CONFLICT", "USER_FOUND"} : Goes(b, location)
    BY <1>3 DEF FindUser, At, Open, Deciding
  <2>2. Authenticatable(bootstrap[b].org) = {}
    BY <2>1, BootstrapFacts DEF BootstrapInv
  <2>. QED  BY <2>1, <2>2, CallMoves DEF Open, Deciding, Answered, Refused
<1>4. ASSUME NEW b \in Bootstraps, LinkIdentity(b) PROVE BootstrapInv'
  <2>1. /\ bootstrap[b].at = "USER_FOUND" /\ bootstrap[b].at \in Open /\ bootstrap[b].at \in Deciding
        /\ UNCHANGED <<userStatus, identity, credential, admins, lapsed>>
    BY <1>4 DEF LinkIdentity, At, Open, Deciding
  <2>2. Authenticatable(bootstrap[b].org) = {}
    BY <2>1, BootstrapFacts DEF BootstrapInv
  <2>3. bootstrap[b].email \in Emails /\ Call(b) # NoOne /\ Call(b) \in Users
    BY BootstrapFacts DEF BootstrapInv
  <2>4. CASE Goes(b, "IDENTITY_CONFLICT") \/ Goes(b, "UNIQUE_VIOLATION")
    BY <2>1, <2>4, CallMoves DEF Open, Deciding, Answered, Refused
  <2>5. CASE /\ {e \in Emails : identity[e] = Call(b)} = {bootstrap[b].email}
             /\ Goes(b, "LINKED")
    <3>1. identity[bootstrap[b].email] = Call(b)
      BY <2>5
    <3>2. \A e \in Emails : identity[e] = Call(b) => e = bootstrap[b].email
      BY <2>5
    <3>3. ASSUME NEW c \in Bootstraps, At(c, "LINKED"), bootstrap[c].email = bootstrap[b].email PROVE FALSE
      <4>1. identity[bootstrap[b].email] \in {NoOne, Call(c)}
        BY <3>3 DEF BootstrapInv
      <4>2. bootstrap[c].org = bootstrap[b].org
        BY <4>1, <3>1, <2>3, BootstrapFacts DEF BootstrapInv
      <4>3. bootstrap[c].at \in Open /\ c # b
        BY <3>3, <2>1 DEF At, Open
      <4>. QED  BY <4>2, <4>3, <2>1 DEF BootstrapInv
    <3>. QED  BY <2>1, <2>2, <2>5, <3>1, <3>2, <3>3, CallMoves DEF Open, Deciding
  <2>6. CASE /\ {e \in Emails : identity[e] = Call(b)} = {}
             /\ ~\E c \in Bootstraps : At(c, "LINKED") /\ bootstrap[c].email = bootstrap[b].email
             /\ identity[bootstrap[b].email] = NoOne /\ Goes(b, "LINKED")
    <3>1. \A e \in Emails : identity[e] # Call(b)
      BY <2>6
    <3>. QED  BY <2>1, <2>2, <2>6, <3>1, CallMoves DEF Open, Deciding
  <2>. QED  BY <1>4, <2>4, <2>5, <2>6 DEF LinkIdentity
<1>5. ASSUME NEW b \in Bootstraps, Commit(b) PROVE BootstrapInv'
  BY <1>5, CommitKeeps
<1>6. ASSUME NEW b \in Bootstraps, Rollback(b) PROVE BootstrapInv'
  BY <1>6, CallMoves DEF Rollback, Open, Deciding, Answered, Refused
<1>7. ASSUME NEW u \in Users, Suspend(u) PROVE BootstrapInv'
  <2>1. UNCHANGED <<identity, credential, admins, bootstrap, lapsed>>
    BY <1>7 DEF Suspend
  <2>2. userStatus' \in [Users -> {"NONE", "ACTIVE", "DISABLED"}]
    BY <1>7 DEF Suspend, BootstrapInv, BootstrapTypeOK
  <2>. QED  BY <2>1, <2>2 DEF BootstrapInv, BootstrapTypeOK, Authenticatable, At, Call
<1>8. ASSUME NEW u \in Users, RevokeAdmin(u) PROVE BootstrapInv'
  <2>1. /\ UNCHANGED <<userStatus, identity, credential, bootstrap>>
        /\ admins' = admins \ {u} /\ lapsed' = lapsed \cup {u[1]}
    BY <1>8 DEF RevokeAdmin
  <2>2. \A org : Authenticatable(org)' \subseteq Authenticatable(org)
    BY <2>1 DEF Authenticatable
  <2>3. BootstrapTypeOK'
    BY <2>1 DEF BootstrapInv, BootstrapTypeOK
  <2>4. \A b \in Bootstraps : bootstrap'[b].at \in {"CREATED", "EXISTING"} =>
         /\ identity'[bootstrap'[b].email] \in {bootstrap'[b].org} \X Emails
         /\ credential'[bootstrap'[b].email] = "SET"
         /\ bootstrap'[b].org \notin lapsed' => identity'[bootstrap'[b].email] \in admins'
    BY <2>1 DEF BootstrapInv
  <2>5. /\ \A org \in Organizations : \A b \in Bootstraps :
             bootstrap'[b].at \in Deciding /\ bootstrap'[b].org = org => Authenticatable(org)' = {}
        /\ \A org \in Organizations : \A e, f \in Authenticatable(org)' : e = f
    BY <2>1, <2>2 DEF BootstrapInv
  <2>6. /\ \A b, c \in Bootstraps :
             bootstrap'[b].at \in Open /\ bootstrap'[c].at \in Open /\ bootstrap'[b].org = bootstrap'[c].org => b = c
        /\ \A b \in Bootstraps : At(b, "LINKED")' =>
             /\ identity'[bootstrap'[b].email] \in {NoOne, Call(b)'}
             /\ \A e \in Emails : identity'[e] = Call(b)' => e = bootstrap'[b].email
        /\ \A b, c \in Bootstraps :
             At(b, "LINKED")' /\ At(c, "LINKED")' /\ bootstrap'[b].email = bootstrap'[c].email => b = c
        /\ \A b, c \in Bootstraps :
             At(b, "CREATED")' /\ At(c, "CREATED")' /\ bootstrap'[b].org = bootstrap'[c].org
               /\ bootstrap'[b].org \notin lapsed' => b = c
    BY <2>1 DEF BootstrapInv, At, Call
  <2>. QED  BY <2>3, <2>4, <2>5, <2>6 DEF BootstrapInv
<1>9. CASE UNCHANGED bootstrapVars
  BY <1>9 DEF bootstrapVars, BootstrapInv, BootstrapTypeOK, Authenticatable, At, Call
<1>. QED
  BY <1>1, <1>2, <1>3, <1>4, <1>5, <1>6, <1>7, <1>8, <1>9 DEF BootstrapNext

LEMMA InvMakesOneAdministrator == BootstrapInv => FirstAdministratorIsOne
<1>. SUFFICES ASSUME BootstrapInv, NEW b \in Bootstraps, bootstrap[b].at \in {"CREATED", "EXISTING"}
              PROVE  /\ identity[bootstrap[b].email] \in {bootstrap[b].org} \X Emails
                     /\ credential[bootstrap[b].email] = "SET"
                     /\ bootstrap[b].org \notin lapsed =>
                          /\ identity[bootstrap[b].email] \in admins
                          /\ \A c \in Bootstraps \ {b} :
                               At(b, "CREATED") /\ At(c, "CREATED") => bootstrap[c].org # bootstrap[b].org
                          /\ \A c \in Bootstraps \ {b} :
                               bootstrap[c].at \in {"CREATED", "EXISTING"} /\ bootstrap[c].org = bootstrap[b].org =>
                                 bootstrap[c].email = bootstrap[b].email
  BY DEF FirstAdministratorIsOne
<1>1. /\ identity[bootstrap[b].email] \in {bootstrap[b].org} \X Emails
      /\ credential[bootstrap[b].email] = "SET"
      /\ bootstrap[b].org \notin lapsed => identity[bootstrap[b].email] \in admins
  BY DEF BootstrapInv
<1>2. ASSUME bootstrap[b].org \notin lapsed, NEW c \in Bootstraps,
             bootstrap[c].at \in {"CREATED", "EXISTING"}, bootstrap[c].org = bootstrap[b].org
      PROVE  bootstrap[c].email = bootstrap[b].email
  <2>1. bootstrap[b].org \in Organizations
    BY BootstrapFacts DEF BootstrapInv
  <2>. QED  BY <1>2, <2>1, ToldCanSignIn DEF BootstrapInv
<1>3. ASSUME bootstrap[b].org \notin lapsed, NEW c \in Bootstraps \ {b}, At(b, "CREATED"), At(c, "CREATED")
      PROVE  bootstrap[c].org # bootstrap[b].org
  BY <1>3 DEF BootstrapInv
<1>. QED  BY <1>1, <1>2, <1>3

\* The first administrator: for any organizations, emails and calls, whoever is told
\* that he is the administrator can sign in, and is the only one that was made.
THEOREM FirstAdministrator == BootstrapSpec => []FirstAdministratorIsOne
BY BootstrapInitHolds, BootstrapStep, InvMakesOneAdministrator, PTL DEF BootstrapSpec

-----------------------------------------------------------------------------
(* The audit of sessions.                                                  *)

Actions == Beginnings \cup Endings

\* What the trail says of a session once 0007 is in, by what its row is.
TrailOk(row, story) ==
  /\ \A i \in 1..Len(story) : story[i] \in Beginnings <=> i = 1
  /\ row = "NONE" => Len(story) = 0
  /\ row \in {"INSERTING", "OPEN"} => Len(story) = 1
  /\ row = "DELETING" => Len(story) = 2
  /\ row = "GONE" => Len(story) \in {0, 2}

\* The lock of the migration keeps everybody from writing; before it there is no trail.
SessionsInv ==
  /\ migration \in {"BEFORE", "LOCKED", "BASELINED", "DONE"}
  /\ sessionRow \in [Sessions -> {"NONE", "INSERTING", "OPEN", "DELETING", "GONE"}]
  /\ trail \in [Sessions -> Seq(Actions)]
  /\ migration \in {"LOCKED", "BASELINED"} => Writing = {}
  /\ migration \in {"BEFORE", "LOCKED"} => \A s \in Sessions : trail[s] = <<>>
  /\ migration \in {"BASELINED", "DONE"} => \A s \in Sessions : TrailOk(sessionRow[s], trail[s])

\* A record more, and a record less.
LEMMA Recorded ==
  ASSUME NEW story \in Seq(Actions), NEW action \in Actions,
         \A i \in 1..Len(story) : story[i] \in Beginnings <=> i = 1,
         action \in Beginnings <=> Len(story) = 0
  PROVE  /\ Append(story, action) \in Seq(Actions) /\ Len(Append(story, action)) = Len(story) + 1
         /\ \A i \in 1..Len(Append(story, action)) : Append(story, action)[i] \in Beginnings <=> i = 1
<1>1. Len(story) \in Nat
  BY LenProperties
<1>. QED  BY <1>1, AppendProperties

LEMMA Unrecorded ==
  ASSUME NEW story \in Seq(Actions), Len(story) \in {1, 2},
         \A i \in 1..Len(story) : story[i] \in Beginnings <=> i = 1
  PROVE  /\ SubSeq(story, 1, Len(story) - 1) \in Seq(Actions)
         /\ Len(SubSeq(story, 1, Len(story) - 1)) = Len(story) - 1
         /\ \A i \in 1..Len(SubSeq(story, 1, Len(story) - 1)) :
              SubSeq(story, 1, Len(story) - 1)[i] \in Beginnings <=> i = 1
<1>1. /\ SubSeq(story, 1, Len(story) - 1) \in Seq(Actions)
      /\ Len(SubSeq(story, 1, Len(story) - 1)) = Len(story) - 1
      /\ \A i \in 1..(Len(story) - 1) : SubSeq(story, 1, Len(story) - 1)[i] = story[i]
  <2> DEFINE n == Len(story) - 1
  <2>1. n \in Int /\ n \in {0, 1} /\ n = Len(story) - 1
    OBVIOUS
  <2> HIDE DEF n
  <2>2. \A i \in 1..n : story[i] \in Actions
    BY <2>1, ElementOfSeq
  <2>3. /\ SubSeq(story, 1, n) \in Seq(Actions)
        /\ Len(SubSeq(story, 1, n)) = IF 1 <= n THEN n - 1 + 1 ELSE 0
        /\ \A i \in 1..(n - 1 + 1) : SubSeq(story, 1, n)[i] = story[1 + i - 1]
    BY <2>1, <2>2, SubSeqProperties
  <2>4. /\ Len(SubSeq(story, 1, n)) = n
        /\ \A i \in 1..n : SubSeq(story, 1, n)[i] = story[i]
    BY <2>1, <2>3
  <2>. QED  BY <2>1, <2>3, <2>4
<1>2. \A i \in 1..(Len(story) - 1) : i \in 1..Len(story)
  OBVIOUS
<1>. QED  BY <1>1, <1>2

\* The row of one session moves, with what is recorded of it.
LEMMA SessionKeeps ==
  ASSUME SessionsInv, NEW s \in Sessions, NEW row \in {"NONE", "INSERTING", "OPEN", "DELETING", "GONE"},
         NEW story \in Seq(Actions), SessionMoves(s, row), trail' = [trail EXCEPT ![s] = story], migration' = migration,
         migration \in {"BEFORE", "DONE"},
         migration = "BEFORE" => story = <<>>,
         migration = "DONE" => TrailOk(row, story)
  PROVE  SessionsInv'
<1>1. /\ sessionRow' \in [Sessions -> {"NONE", "INSERTING", "OPEN", "DELETING", "GONE"}]
      /\ trail' \in [Sessions -> Seq(Actions)]
      /\ sessionRow'[s] = row /\ trail'[s] = story
      /\ \A t \in Sessions : t # s => sessionRow'[t] = sessionRow[t] /\ trail'[t] = trail[t]
  BY DEF SessionsInv, SessionMoves
<1>2. migration' = "BEFORE" => \A t \in Sessions : trail'[t] = <<>>
  BY <1>1 DEF SessionsInv
<1>3. migration' = "DONE" => \A t \in Sessions : TrailOk(sessionRow'[t], trail'[t])
  BY <1>1 DEF SessionsInv
<1>. QED  BY <1>1, <1>2, <1>3 DEF SessionsInv

LEMMA SessionsInitHolds == DatabaseInit => SessionsInv
BY DEF DatabaseInit, SessionsInv

LEMMA SessionsStep == SessionsInv /\ [SessionsNext]_sessionVars => SessionsInv'
<1>. SUFFICES ASSUME SessionsInv, [SessionsNext]_sessionVars PROVE SessionsInv'
  OBVIOUS
<1>1. \A s \in Sessions :
        /\ trail[s] \in Seq(Actions) /\ Len(trail[s]) \in Nat
        /\ migration = "DONE" => TrailOk(sessionRow[s], trail[s])
        /\ migration = "DONE" => \A i \in 1..Len(trail[s]) : trail[s][i] \in Beginnings <=> i = 1
  BY LenProperties DEF SessionsInv, TrailOk
<1>2. \A s \in Sessions : [trail EXCEPT ![s] = @] = trail
  BY DEF SessionsInv
<1>3. ASSUME NEW s \in Sessions, Login(s) PROVE SessionsInv'
  <2>1. /\ migration \in {"BEFORE", "DONE"} /\ sessionRow[s] = "NONE" /\ SessionMoves(s, "INSERTING")
        /\ migration' = migration
    BY <1>3 DEF Login, MayWrite
  <2>2. CASE migration = "DONE"
    <3>1. trail' = [trail EXCEPT ![s] = Append(trail[s], "LOGIN_SUCCEEDED")]
      BY <1>3, <2>2 DEF Login, Records, SessionsInv
    <3>2. TrailOk("INSERTING", Append(trail[s], "LOGIN_SUCCEEDED"))
      BY <1>1, <2>1, <2>2, Recorded DEF TrailOk, Actions, Beginnings
    <3>3. Append(trail[s], "LOGIN_SUCCEEDED") \in Seq(Actions)
      BY <1>1, AppendProperties DEF Actions, Beginnings
    <3>. QED  BY <2>1, <2>2, <3>1, <3>2, <3>3, SessionKeeps
  <2>3. CASE migration = "BEFORE"
    <3>1. trail' = trail /\ trail[s] = <<>>
      BY <1>3, <2>3 DEF Login, SessionsInv
    <3>2. trail' = [trail EXCEPT ![s] = trail[s]]
      BY <3>1, <1>2
    <3>. QED  BY <1>1, <2>1, <2>3, <3>1, <3>2, SessionKeeps
  <2>. QED  BY <2>1, <2>2, <2>3
<1>4. ASSUME NEW s \in Sessions, Logout(s) PROVE SessionsInv'
  <2>1. /\ migration \in {"BEFORE", "DONE"} /\ sessionRow[s] = "OPEN" /\ SessionMoves(s, "DELETING")
        /\ migration' = migration
    BY <1>4 DEF Logout, MayWrite
  <2>2. CASE migration = "DONE"
    <3>1. PICK action \in Endings : trail' = [trail EXCEPT ![s] = Append(trail[s], action)]
      BY <1>4, <2>2 DEF Logout, Records, SessionsInv, Endings
    <3>2. TrailOk("DELETING", Append(trail[s], action))
      <4>1. action \in Actions /\ action \notin Beginnings
        BY DEF Actions, Endings, Beginnings
      <4>2. Len(trail[s]) = 1
        BY <1>1, <2>1, <2>2 DEF TrailOk
      <4>3. /\ trail[s] \in Seq(Actions) /\ action \in Actions
            /\ \A i \in 1..Len(trail[s]) : trail[s][i] \in Beginnings <=> i = 1
            /\ action \in Beginnings <=> Len(trail[s]) = 0
        BY <1>1, <4>1, <4>2, <2>2
      <4>4. /\ Len(Append(trail[s], action)) = 2
            /\ \A i \in 1..Len(Append(trail[s], action)) : Append(trail[s], action)[i] \in Beginnings <=> i = 1
        BY <4>2, <4>3, Recorded
      <4>. QED  BY <4>4 DEF TrailOk
    <3>3. Append(trail[s], action) \in Seq(Actions)
      BY <1>1, AppendProperties DEF Actions
    <3>. QED  BY <2>1, <2>2, <3>1, <3>2, <3>3, SessionKeeps
  <2>3. CASE migration = "BEFORE"
    <3>1. trail' = trail /\ trail[s] = <<>>
      BY <1>4, <2>3 DEF Logout, SessionsInv
    <3>2. trail' = [trail EXCEPT ![s] = trail[s]]
      BY <3>1, <1>2
    <3>. QED  BY <1>1, <2>1, <2>3, <3>1, <3>2, SessionKeeps
  <2>. QED  BY <2>1, <2>2, <2>3
<1>5. ASSUME NEW s \in Sessions, CommitSession(s) PROVE SessionsInv'
  <2>1. /\ sessionRow[s] \in {"INSERTING", "DELETING"} /\ migration' = migration /\ trail' = trail
        /\ SessionMoves(s, IF sessionRow[s] = "INSERTING" THEN "OPEN" ELSE "GONE")
        /\ migration \in {"BEFORE", "DONE"}
    BY <1>5 DEF CommitSession, Writing, SessionsInv
  <2>2. trail' = [trail EXCEPT ![s] = trail[s]]
    BY <2>1, <1>2
  <2>3. migration = "DONE" => TrailOk(IF sessionRow[s] = "INSERTING" THEN "OPEN" ELSE "GONE", trail[s])
    BY <1>1, <2>1 DEF TrailOk
  <2>4. migration = "BEFORE" => trail[s] = <<>>
    BY DEF SessionsInv
  <2>. QED  BY <1>1, <2>1, <2>2, <2>3, <2>4, SessionKeeps
<1>6. ASSUME NEW s \in Sessions, RollbackSession(s) PROVE SessionsInv'
  <2>1. /\ sessionRow[s] \in {"INSERTING", "DELETING"} /\ migration' = migration
        /\ SessionMoves(s, IF sessionRow[s] = "INSERTING" THEN "NONE" ELSE "OPEN")
        /\ migration \in {"BEFORE", "DONE"}
    BY <1>6 DEF RollbackSession, Writing, SessionsInv
  <2>2. CASE migration = "DONE"
    <3>1. trail' = [trail EXCEPT ![s] = SubSeq(trail[s], 1, Len(trail[s]) - 1)]
      BY <1>6, <2>2 DEF RollbackSession, SessionsInv
    <3>2. Len(trail[s]) = IF sessionRow[s] = "INSERTING" THEN 1 ELSE 2
      BY <1>1, <2>1, <2>2 DEF TrailOk
    <3>3. TrailOk(IF sessionRow[s] = "INSERTING" THEN "NONE" ELSE "OPEN",
                  SubSeq(trail[s], 1, Len(trail[s]) - 1))
      BY <1>1, <3>2, <2>1, <2>2, Unrecorded DEF TrailOk
    <3>4. SubSeq(trail[s], 1, Len(trail[s]) - 1) \in Seq(Actions)
      BY <1>1, <3>2, <2>2, Unrecorded DEF TrailOk
    <3>. QED  BY <2>1, <2>2, <3>1, <3>3, <3>4, SessionKeeps
  <2>3. CASE migration = "BEFORE"
    <3>1. trail' = [trail EXCEPT ![s] = trail[s]] /\ trail[s] = <<>>
      BY <1>6, <2>3 DEF RollbackSession, SessionsInv
    <3>. QED  BY <1>1, <2>1, <2>3, <3>1, SessionKeeps
  <2>. QED  BY <2>1, <2>2, <2>3
<1>7. ASSUME NEW s \in Sessions, SessionLapses(s) PROVE SessionsInv'
  BY <1>7 DEF SessionLapses, SessionsInv, Writing
<1>8. ASSUME LockSessions PROVE SessionsInv'
  BY <1>8 DEF LockSessions, SessionsInv, Writing
<1>9. ASSUME Baseline PROVE SessionsInv'
  <2>1. /\ migration = "LOCKED" /\ migration' = "BASELINED" /\ sessionRow' = sessionRow /\ Writing = {}
        /\ \A s \in Sessions : trail[s] = <<>>
        /\ trail' = [s \in Sessions |-> IF sessionRow[s] \in Committed
                                        THEN Append(trail[s], "SESSION_BASELINED") ELSE trail[s]]
    BY <1>9 DEF Baseline, SessionsInv
  <2>2. \A s \in Sessions : sessionRow[s] \in {"NONE", "OPEN", "GONE"}
    BY <2>1 DEF Writing, SessionsInv
  <2>3. /\ <<>> \in Seq(Actions) /\ Len(<<>>) = 0 /\ "SESSION_BASELINED" \in Actions
    BY DEF Actions, Beginnings
  <2>4. /\ Append(<<>>, "SESSION_BASELINED") \in Seq(Actions) /\ Len(Append(<<>>, "SESSION_BASELINED")) = 1
        /\ \A i \in 1..Len(Append(<<>>, "SESSION_BASELINED")) :
             Append(<<>>, "SESSION_BASELINED")[i] \in Beginnings <=> i = 1
    BY <2>3, Recorded DEF Beginnings
  <2>5. \A s \in Sessions : trail'[s] \in Seq(Actions) /\ TrailOk(sessionRow[s], trail'[s])
    <3>. SUFFICES ASSUME NEW s \in Sessions PROVE trail'[s] \in Seq(Actions) /\ TrailOk(sessionRow[s], trail'[s])
      OBVIOUS
    <3>1. CASE sessionRow[s] = "OPEN"
      <4>1. trail'[s] = Append(<<>>, "SESSION_BASELINED")
        BY <2>1, <3>1 DEF Committed
      <4>. QED  BY <2>4, <3>1, <4>1 DEF TrailOk
    <3>2. CASE sessionRow[s] # "OPEN"
      <4>1. trail'[s] = <<>> /\ sessionRow[s] \in {"NONE", "GONE"}
        BY <2>1, <2>2, <3>2 DEF Committed
      <4>. QED  BY <2>3, <4>1 DEF TrailOk
    <3>. QED  BY <3>1, <3>2
  <2>6. trail' \in [Sessions -> Seq(Actions)]
    BY <2>1, <2>5
  <2>7. Writing' = {}
    BY <2>1 DEF Writing
  <2>. QED  BY <2>1, <2>5, <2>6, <2>7 DEF SessionsInv
<1>10. ASSUME CommitMigration PROVE SessionsInv'
  BY <1>10 DEF CommitMigration, SessionsInv, Writing
<1>11. ASSUME MigrationFails PROVE SessionsInv'
  BY <1>11 DEF MigrationFails, SessionsInv, Writing
<1>12. CASE UNCHANGED sessionVars
  BY <1>12 DEF sessionVars, SessionsInv, Writing
<1>. QED
  BY <1>3, <1>4, <1>5, <1>6, <1>7, <1>8, <1>9, <1>10, <1>11, <1>12 DEF SessionsNext

LEMMA InvLeavesATrail == SessionsInv => SessionsLeaveATrail
<1>. SUFFICES ASSUME SessionsInv, migration = "DONE", NEW s \in Sessions
              PROVE  /\ sessionRow[s] \in Committed => trail[s] # <<>>
                     /\ \A i \in 1..Len(trail[s]) : (trail[s][i] \in Beginnings) <=> i = 1
                     /\ sessionRow[s] = "GONE" => Len(trail[s]) \in {0, 2}
  BY DEF SessionsLeaveATrail
<1>1. TrailOk(sessionRow[s], trail[s])
  BY DEF SessionsInv
<1>2. Len(<<>>) = 0
  OBVIOUS
<1>. QED  BY <1>1, <1>2 DEF TrailOk, Committed

-----------------------------------------------------------------------------
(* The rights of the database.                                             *)

\* What a set of grants gives to one that is granted something.
LEMMA GrantsOf ==
  ASSUME NEW S, NEW d, NEW keys, \A g \in S : g = <<g[1], g[2]>>,
         \A c : <<d, c>> \in S <=> c \in keys
  PROVE  {grant[2] : grant \in {g \in S : g[1] = d}} = keys
<1>1. ASSUME NEW c \in keys PROVE \E grant \in {g \in S : g[1] = d} : grant[2] = c
  <2>1. <<d, c>> \in {g \in S : g[1] = d}
    OBVIOUS
  <2>2. <<d, c>>[2] = c
    OBVIOUS
  <2>. QED  BY <2>1, <2>2
<1>2. ASSUME NEW grant \in {g \in S : g[1] = d} PROVE grant[2] \in keys
  <2>1. grant = <<grant[1], grant[2]>>
    OBVIOUS
  <2>. QED  BY <2>1
<1>. QED  BY <1>1, <1>2

\* The seed and the package say the same.
LEMMA SeedIsThePolicy ==
  /\ \A d \in Definitions :
       {grant[2] : grant \in {g \in SeededCapabilities : g[1] = d}} = serviceCapabilityCeilings[d]
  /\ \A role \in HumanRoles :
       {grant[2] : grant \in {g \in SeededPermissions : g[1] = role}} = rolePermissions[role]
<1>1. ASSUME NEW d \in Definitions
      PROVE  {grant[2] : grant \in {g \in SeededCapabilities : g[1] = d}} = serviceCapabilityCeilings[d]
  <2>1. d \in {"AGENT_SERVICE", "N8N_SERVICE", "WORKER_SERVICE"}
    BY DEF Definitions, serviceCapabilityCeilings
  <2>2. SeededCapabilities \subseteq {"AGENT_SERVICE", "N8N_SERVICE", "WORKER_SERVICE"} \X
          (CommonCapabilities \cup {"approvals.request", "outreach.draft", "approved-actions.execute"})
    BY DEF SeededCapabilities, CommonCapabilities
  <2>3. /\ \A c : <<"AGENT_SERVICE", c>> \in SeededCapabilities <=> c \in serviceCapabilityCeilings["AGENT_SERVICE"]
        /\ \A c : <<"N8N_SERVICE", c>> \in SeededCapabilities <=> c \in serviceCapabilityCeilings["N8N_SERVICE"]
        /\ \A c : <<"WORKER_SERVICE", c>> \in SeededCapabilities <=> c \in serviceCapabilityCeilings["WORKER_SERVICE"]
    BY DEF SeededCapabilities, serviceCapabilityCeilings, CommonCapabilities
  <2>4. \A c : <<d, c>> \in SeededCapabilities <=> c \in serviceCapabilityCeilings[d]
    BY <2>1, <2>3
  <2>5. \A g \in SeededCapabilities : g = <<g[1], g[2]>>
    BY <2>2
  <2>. QED  BY <2>4, <2>5, GrantsOf
<1>2. ASSUME NEW role \in HumanRoles
      PROVE  {grant[2] : grant \in {g \in SeededPermissions : g[1] = role}} = rolePermissions[role]
  <2>1. role \in {"ADMIN", "MANAGER", "OPERATOR", "VIEWER"}
    BY DEF HumanRoles, rolePermissions
  <2>2. SeededPermissions \subseteq {"ADMIN", "MANAGER", "OPERATOR", "VIEWER"} \X PermissionKeys
    BY DEF SeededPermissions, PermissionKeys
  <2>3. /\ \A c : <<"ADMIN", c>> \in SeededPermissions <=> c \in rolePermissions["ADMIN"]
        /\ \A c : <<"MANAGER", c>> \in SeededPermissions <=> c \in rolePermissions["MANAGER"]
        /\ \A c : <<"OPERATOR", c>> \in SeededPermissions <=> c \in rolePermissions["OPERATOR"]
        /\ \A c : <<"VIEWER", c>> \in SeededPermissions <=> c \in rolePermissions["VIEWER"]
    BY DEF SeededPermissions, rolePermissions, PermissionKeys, ManagerOnly, OperatorPermissions
  <2>4. \A c : <<role, c>> \in SeededPermissions <=> c \in rolePermissions[role]
    BY <2>1, <2>3
  <2>5. \A g \in SeededPermissions : g = <<g[1], g[2]>>
    BY <2>2
  <2>. QED  BY <2>4, <2>5, GrantsOf
<1>. QED  BY <1>1, <1>2

\* What the trigger lets a hand add is within the ceiling of the package.
LEMMA TriggerIsTheCeiling ==
  ASSUME NEW d \in Definitions, NEW c \in SeededKeys, CeilingAllows(d, c)
  PROVE  c \in serviceCapabilityCeilings[d]
<1>1. d \in {"AGENT_SERVICE", "N8N_SERVICE", "WORKER_SERVICE"}
  BY DEF Definitions, serviceCapabilityCeilings
<1>2. c \in CommonCapabilities \cup {"approvals.request", "outreach.draft", "approved-actions.execute"}
  BY DEF SeededKeys, SeededCapabilities, CommonCapabilities
<1>3. CASE d = "AGENT_SERVICE"
  BY <1>2, <1>3 DEF CeilingAllows, serviceCapabilityCeilings
<1>4. CASE d = "N8N_SERVICE"
  BY <1>2, <1>4 DEF CeilingAllows, serviceCapabilityCeilings
<1>5. CASE d = "WORKER_SERVICE"
  BY <1>2, <1>5 DEF CeilingAllows, serviceCapabilityCeilings
<1>. QED  BY <1>1, <1>3, <1>4, <1>5

\* No row is beyond its ceiling; until a hand edits them, the rows are the seed's.
RightsInv ==
  /\ agentCapability \subseteq Definitions \X SeededKeys
  /\ \A grant \in agentCapability : grant[2] \in serviceCapabilityCeilings[grant[1]]
  /\ rolePermission \in {{}, SeededPermissions}
  /\ ~edited /\ agentCapability # {} =>
       agentCapability = SeededCapabilities /\ rolePermission = SeededPermissions

LEMMA RightsInitHolds == DatabaseInit => RightsInv
BY DEF DatabaseInit, RightsInv

\* What a ceiling holds, the seed grants.
LEMMA SeedFillsTheCeilings ==
  /\ SeededCapabilities \subseteq Definitions \X SeededKeys
  /\ \A grant \in SeededCapabilities : grant[2] \in serviceCapabilityCeilings[grant[1]]
  /\ \A grant \in Definitions \X SeededKeys :
       grant[2] \in serviceCapabilityCeilings[grant[1]] => grant \in SeededCapabilities
<1>1. \A grant \in SeededCapabilities : grant[1] \in Definitions /\ grant = <<grant[1], grant[2]>>
  BY DEF SeededCapabilities, Definitions, serviceCapabilityCeilings
<1>2. \A grant \in SeededCapabilities : grant[2] \in SeededKeys
  BY DEF SeededKeys
<1>3. \A grant \in SeededCapabilities : grant[2] \in serviceCapabilityCeilings[grant[1]]
  BY <1>1, SeedIsThePolicy
<1>4. ASSUME NEW d \in Definitions, NEW c \in serviceCapabilityCeilings[d] PROVE <<d, c>> \in SeededCapabilities
  <2>1. PICK grant \in SeededCapabilities : grant[1] = d /\ grant[2] = c
    BY <1>4, SeedIsThePolicy
  <2>. QED  BY <1>1, <2>1
<1>. QED  BY <1>1, <1>2, <1>3, <1>4

LEMMA RightsStep == RightsInv /\ [RightsNext]_rightsVars => RightsInv'
<1>. SUFFICES ASSUME RightsInv, [RightsNext]_rightsVars PROVE RightsInv'
  OBVIOUS
<1>1. ASSUME Seed PROVE RightsInv'
  <2>1. agentCapability \subseteq SeededCapabilities
    BY SeedFillsTheCeilings DEF RightsInv
  <2>2. agentCapability' = SeededCapabilities /\ rolePermission' = SeededPermissions
    BY <1>1, <2>1 DEF Seed, RightsInv
  <2>. QED  BY <2>2, SeedFillsTheCeilings DEF RightsInv
<1>2. ASSUME NEW d \in Definitions, NEW c \in SeededKeys, EditByHand(d, c) PROVE RightsInv'
  <2>1. edited' = TRUE /\ rolePermission' = rolePermission
    BY <1>2 DEF EditByHand
  <2>2. CASE CeilingAllows(d, c) /\ agentCapability' = agentCapability \cup {<<d, c>>}
    BY <2>1, <2>2, TriggerIsTheCeiling DEF RightsInv
  <2>3. CASE agentCapability' = agentCapability \ {<<d, c>>}
    BY <2>1, <2>3 DEF RightsInv
  <2>. QED  BY <1>2, <2>2, <2>3 DEF EditByHand
<1>3. ASSUME NEW d \in {"N8N_SERVICE", "WORKER_SERVICE"}, Activate(d) PROVE RightsInv'
  BY <1>3 DEF Activate, RightsInv
<1>4. CASE UNCHANGED rightsVars
  BY <1>4 DEF rightsVars, RightsInv
<1>. QED  BY <1>1, <1>2, <1>3, <1>4 DEF RightsNext

LEMMA InvMakesRightsThePolicys == RightsInv => RightsAreThePolicys
<1>. SUFFICES ASSUME RightsInv PROVE RightsAreThePolicys
  OBVIOUS
<1>1. ~edited /\ agentCapability # {} =>
        agentCapability = SeededCapabilities /\ rolePermission = SeededPermissions
  BY DEF RightsInv
<1>2. \A grant \in agentCapability : grant[2] \in serviceCapabilityCeilings[grant[1]]
  BY DEF RightsInv
<1>. QED  BY <1>1, <1>2, SeedIsThePolicy DEF RightsAreThePolicys

-----------------------------------------------------------------------------
(* The tools that services see and may invoke.                             *)

\* A tool is in the registry with a valid manifest or not at all.
RegistryInv == registry \in [Tools -> Manifests \cup {NoManifest}]

LEMMA RegistryInvariant == AccessSpec => []RegistryInv
<1>1. AccessInit => RegistryInv
  BY DEF AccessInit, RegistryInv
<1>2. RegistryInv /\ [AccessNext]_accessVars => RegistryInv'
  BY DEF RegistryInv, AccessNext, AuthorizationNext, ToolsNext, AccessClockTicks, SignIn,
         SuspendHuman, AssignRoles, Grant, Begin, Perform, DecideApproval, Register,
         recordHealthCheck, accessVars, accountVars, toolVars
<1> QED BY <1>1, <1>2, PTL DEF AccessSpec

LEMMA ListAndInvocationAgree ==
  ASSUME RegistryInv
  PROVE  ListedToolsAreUsable
<1> SUFFICES ASSUME NEW s \in Services, NEW t \in Tools,
                    NEW p, p = Service(s, capabilities[s])
             PROVE  t \in Listed(p) <=>
                      \E action \in UNION {m.actions : m \in Manifests} : MayInvoke(p, t, action, "")
  BY DEF ListedToolsAreUsable
<1>1. t \in Listed(p) <=> p.kind = "SERVICE" /\ registry[t] # NoManifest
                          /\ WithinCeiling(p, registry[t].capability) /\ Available(t)
  BY DEF Listed
<1>2. ASSUME registry[t] # NoManifest
      PROVE  \E action \in UNION {m.actions : m \in Manifests} : action \in registry[t].actions
  <2>1. registry[t] \in Manifests
    BY <1>2 DEF RegistryInv
  <2>2. PICK action : action \in registry[t].actions
    BY <2>1, AccessAssumption DEF AccessAssumption
  <2> QED BY <2>1, <2>2
<1> QED BY <1>1, <1>2 DEF MayInvoke

\* The registry's list of a service's tools and the check of an invocation agree on
\* every tool, whatever was registered, granted and reported healthy.
THEOREM ListedToolsCanBeInvoked == AccessSpec => []ListedToolsAreUsable
<1>1. RegistryInv => ListedToolsAreUsable
  BY ListAndInvocationAgree
<1> QED BY <1>1, RegistryInvariant, PTL

-----------------------------------------------------------------------------
(* Authority: the proofs there are and the principals of the requests in  *)
(* flight say no more than what the humans behind them once were.          *)

AnyPrincipal ==
  {NoPrincipal} \cup {Human(h, keys) : h \in Humans, keys \in SUBSET HumanRoles}
                \cup {Service(s, keys) : s \in Services, keys \in Granted}

\* The request of a runs under its own name, with no role a human never had.
OwnPrincipal(a) ==
  \/ principal[a] = NoPrincipal
  \/ /\ a \in Humans
     /\ \E keys \in SUBSET HumanRoles :
          principal[a] = Human(a, keys) /\ (CanDecide(keys) => a \in deciders)
  \/ /\ a \in Services
     /\ \E keys \in Granted : principal[a] = Service(a, keys)

RolesInv ==
  /\ roles \in [Humans -> Assigned] /\ capabilities \in [Services -> Granted]
  /\ \A h \in Humans : CanDecide(roles[h]) => h \in deciders
PrincipalsInv == principal \in [Actors -> AnyPrincipal] /\ \A a \in Actors : OwnPrincipal(a)
ProofsInv == \A proof \in proofs : proof.approvedBy \in deciders \cap Humans
AuthorityInv == RolesInv /\ PrincipalsInv /\ ProofsInv /\ AuthorityIsSeparated

LEMMA HumanOnlyPolicies ==
  \A action \in HumanOnly : actionPolicies[action].serviceCapability = ""
<1>1. actionPolicies["READ_APPROVALS"].serviceCapability = "" BY DEF actionPolicies, Policy
<1>2. actionPolicies["DECIDE_APPROVAL"].serviceCapability = "" BY DEF actionPolicies, Policy
<1>3. actionPolicies["MANAGE_PERMISSIONS"].serviceCapability = "" BY DEF actionPolicies, Policy
<1>4. actionPolicies["ROTATE_SECRET"].serviceCapability = "" BY DEF actionPolicies, Policy
<1>5. actionPolicies["DEPLOY_BREAKING"].serviceCapability = "" BY DEF actionPolicies, Policy
<1> QED BY <1>1, <1>2, <1>3, <1>4, <1>5 DEF HumanOnly

LEMMA CommercialPolicies ==
  \A action \in Commercial :
    /\ actionPolicies[action].serviceCapability = "approved-actions.execute"
    /\ actionPolicies[action].approval = TRUE
<1> DEFINE Commits(action) == /\ actionPolicies[action].serviceCapability = "approved-actions.execute"
                             /\ actionPolicies[action].approval = TRUE
<1>1. Commits("CHANGE_PRICE") BY DEF actionPolicies, Policy
<1>2. Commits("OFFER_DISCOUNT") BY DEF actionPolicies, Policy
<1>3. Commits("CHANGE_COMMERCIAL_TERMS") BY DEF actionPolicies, Policy
<1>4. Commits("COMMERCIAL_COMMITMENT") BY DEF actionPolicies, Policy
<1> HIDE DEF Commits
<1>5. \A action \in Commercial : Commits(action)
  BY <1>1, <1>2, <1>3, <1>4 DEF Commercial
<1> QED BY <1>5 DEF Commits

LEMMA ServicesDoNotDecide ==
  ASSUME NEW a \in Services, NEW keys, NEW action \in HumanOnly
  PROVE  ~Permitted(Service(a, keys), action)
BY HumanOnlyPolicies DEF Permitted, Service

LEMMA DecidersMayDecide ==
  ASSUME NEW a \in Humans, NEW keys \in SUBSET HumanRoles,
         Permitted(Human(a, keys), "DECIDE_APPROVAL")
  PROVE  CanDecide(keys)
BY DEF Permitted, Human, actionPolicies, Policy, CanDecide

LEMMA OnlyWorkersExecute ==
  ASSUME NEW a \in Services, NEW keys, NEW action \in Commercial,
         Permitted(Service(a, keys), action)
  PROVE  ServiceOf[a] = "WORKER_SERVICE"
<1>1. actionPolicies[action].serviceCapability = "approved-actions.execute"
  BY CommercialPolicies
<1>2. "approved-actions.execute" \in serviceCapabilityCeilings[ServiceOf[a]]
  BY <1>1 DEF Permitted, Service, WithinCeiling
<1>3. ServiceOf[a] \in {"AGENT_SERVICE", "N8N_SERVICE", "WORKER_SERVICE"}
  BY AccessAssumption DEF AccessAssumption
<1> QED BY <1>2, <1>3 DEF serviceCapabilityCeilings, CommonCapabilities

LEMMA BeginKeepsPrincipals ==
  ASSUME RolesInv, PrincipalsInv, NEW a \in Actors, Begin(a)
  PROVE  PrincipalsInv'
<1>1. deciders' = deciders /\ roles' = roles
  BY DEF Begin, accountVars
<1> DEFINE p == IF a \in Humans THEN Human(a, roles[a]) ELSE Service(a, capabilities[a])
<1>2. principal' = [principal EXCEPT ![a] = p]
  BY DEF Begin
<1>3. p \in AnyPrincipal
  <2>1. CASE a \in Humans
    <3>1. roles[a] \in SUBSET HumanRoles
      BY <2>1 DEF Begin, Resolvable
    <3> QED BY <2>1, <3>1 DEF AnyPrincipal
  <2>2. CASE a \notin Humans
    <3>1. a \in Services /\ capabilities[a] \in Granted
      BY <2>2 DEF RolesInv, Actors
    <3> QED BY <2>2, <3>1 DEF AnyPrincipal
  <2> QED BY <2>1, <2>2
<1>4. principal'[a] = p /\ \A b \in Actors \ {a} : principal'[b] = principal[b]
  BY <1>2 DEF PrincipalsInv
<1>5. principal' \in [Actors -> AnyPrincipal]
  BY <1>2, <1>3 DEF PrincipalsInv
<1>6. OwnPrincipal(a)'
  <2>1. CASE a \in Humans
    <3>1. roles[a] \in SUBSET HumanRoles /\ (CanDecide(roles[a]) => a \in deciders)
      BY <2>1 DEF Begin, Resolvable, RolesInv
    <3> QED BY <2>1, <3>1, <1>1, <1>4 DEF OwnPrincipal
  <2>2. CASE a \notin Humans
    <3>1. a \in Services /\ capabilities[a] \in Granted
      BY <2>2 DEF RolesInv, Actors
    <3> QED BY <2>2, <3>1, <1>4 DEF OwnPrincipal
  <2> QED BY <2>1, <2>2
<1>7. \A b \in Actors \ {a} : OwnPrincipal(b)'
  BY <1>1, <1>4 DEF PrincipalsInv, OwnPrincipal
<1> QED BY <1>5, <1>6, <1>7 DEF PrincipalsInv

LEMMA DoneKeepsPrincipals ==
  ASSUME PrincipalsInv, NEW a \in Actors, Done(a), deciders' = deciders
  PROVE  PrincipalsInv'
<1>1. principal' \in [Actors -> AnyPrincipal]
  BY DEF PrincipalsInv, Done, AnyPrincipal
<1>2. principal'[a] = NoPrincipal /\ \A b \in Actors \ {a} : principal'[b] = principal[b]
  BY DEF PrincipalsInv, Done
<1> QED BY <1>1, <1>2 DEF PrincipalsInv, OwnPrincipal

\* A human's roles may change, or who ever decided may grow, under a request.
LEMMA MoreDecidersKeepPrincipals ==
  ASSUME PrincipalsInv, principal' = principal, deciders \subseteq deciders'
  PROVE  PrincipalsInv'
BY DEF PrincipalsInv, OwnPrincipal

LEMMA QuietStepKeepsAuthority ==
  ASSUME performed' = Nothing
  PROVE  AuthorityIsSeparated'
BY DEF Nothing, AuthorityIsSeparated, Commercial, HumanOnly

LEMMA PerformedWithAuthority ==
  ASSUME PrincipalsInv, ProofsInv, NEW a \in Actors, NEW action \in Requested,
         NEW with \in SUBSET proofs, Perform(a, action, with)
  PROVE  AuthorityIsSeparated'
<1>1. CASE ~Allowed(principal[a], action, with, today)
  BY <1>1, QuietStepKeepsAuthority DEF Perform
<1>2. CASE Allowed(principal[a], action, with, today)
  <2> DEFINE p == principal[a]
  <2>1. performed' = [by |-> p, action |-> action, at |-> today, with |-> with]
        /\ proofs' = proofs /\ deciders' = deciders /\ p # NoPrincipal
    BY <1>2 DEF Perform, accountVars
  <2>2. OwnPrincipal(a)
    BY DEF PrincipalsInv
  <2>3. \/ a \in Humans /\ p.kind = "HUMAN" /\ p.id = a
        \/ a \in Services /\ \E keys \in Granted : p = Service(a, keys) /\ p.kind = "SERVICE" /\ p.id = a
    <3>1. \A keys : Human(a, keys).kind = "HUMAN" /\ Human(a, keys).id = a
      BY DEF Human
    <3>2. \A keys : Service(a, keys).kind = "SERVICE" /\ Service(a, keys).id = a
      BY DEF Service
    <3> QED BY <2>1, <2>2, <3>1, <3>2 DEF OwnPrincipal
  <2>4. ASSUME action \in HumanOnly
        PROVE  a \in Humans
    BY <2>3, <2>4, <1>2, ServicesDoNotDecide DEF Allowed
  <2>5. ASSUME action \in Commercial, a \in Services
        PROVE  ServiceOf[a] = "WORKER_SERVICE"
    <3>1. PICK keys \in Granted : p = Service(a, keys)
      BY <2>3, <2>5, AccessAssumption DEF AccessAssumption
    <3> QED BY <2>5, <3>1, <1>2, OnlyWorkersExecute DEF Allowed
  <2>6. ASSUME action \in Commercial
        PROVE  \E proof \in with \cap proofs :
                 /\ proof.action = action /\ proof.org = p.org
                 /\ proof.approvedBy \in deciders \ {p.id}
                 /\ proof.expiresAt = NoExpiry \/ proof.expiresAt > today
    <3>1. PICK proof \in with : ValidApproval(p, action, proof, today)
      BY <2>6, <1>2, CommercialPolicies DEF Allowed
    <3>2. proof \in proofs /\ proof.approvedBy \in deciders \cap Humans
      BY <3>1 DEF ProofsInv
    <3>3. proof.approvedBy # p.id
      BY <2>3, <3>1, <3>2, AccessAssumption DEF ValidApproval, AccessAssumption
    <3> QED BY <3>1, <3>2, <3>3 DEF ValidApproval
  <2>7. performed'.action = action /\ performed'.by = p /\ performed'.at = today
        /\ performed'.with = with
    BY <2>1
  <2>8. p.id = a
    BY <2>3
  <2> HIDE DEF p
  <2> QED BY <2>1, <2>4, <2>5, <2>6, <2>7, <2>8 DEF AuthorityIsSeparated, NoExpiry
<1> QED BY <1>1, <1>2

LEMMA DecisionsAreHadByDeciders ==
  ASSUME PrincipalsInv, ProofsInv, NEW a \in Actors, NEW action, NEW expiresAt,
         DecideApproval(a, action, expiresAt)
  PROVE  ProofsInv'
<1>1. deciders' = deciders
  BY DEF DecideApproval, accountVars
<1>2. CASE ~Allowed(principal[a], "DECIDE_APPROVAL", {}, today)
  BY <1>1, <1>2 DEF DecideApproval, ProofsInv
<1>3. CASE Allowed(principal[a], "DECIDE_APPROVAL", {}, today)
  <2>1. OwnPrincipal(a) /\ principal[a] # NoPrincipal
    BY DEF PrincipalsInv, DecideApproval
  <2>2. Permitted(principal[a], "DECIDE_APPROVAL")
    BY <1>3 DEF Allowed
  <2>3. a \in deciders \cap Humans
    <3>1. "DECIDE_APPROVAL" \in HumanOnly
      BY DEF HumanOnly
    <3>2. CASE a \in Humans /\ \E keys \in SUBSET HumanRoles :
                 principal[a] = Human(a, keys) /\ (CanDecide(keys) => a \in deciders)
      BY <3>2, <2>2, DecidersMayDecide
    <3>3. CASE a \in Services /\ \E keys \in Granted : principal[a] = Service(a, keys)
      BY <3>1, <3>3, <2>2, ServicesDoNotDecide
    <3> QED BY <2>1, <3>2, <3>3 DEF OwnPrincipal
  <2>4. proofs' = proofs \cup {[action |-> action, org |-> principal[a].org, approvedBy |-> a,
                                expiresAt |-> expiresAt]}
    BY <1>3 DEF DecideApproval
  <2> QED BY <1>1, <2>3, <2>4 DEF ProofsInv
<1> QED BY <1>2, <1>3

LEMMA AuthorityInit == AccessInit => AuthorityInv
<1> SUFFICES ASSUME AccessInit PROVE AuthorityInv
  OBVIOUS
<1>1. RolesInv
  BY DEF AccessInit, RolesInv
<1>2. PrincipalsInv
  BY DEF AccessInit, PrincipalsInv, OwnPrincipal, AnyPrincipal
<1>3. ProofsInv
  BY DEF AccessInit, ProofsInv
<1>4. AuthorityIsSeparated
  BY DEF AccessInit, Nothing, AuthorityIsSeparated, Commercial, HumanOnly
<1> QED BY <1>1, <1>2, <1>3, <1>4 DEF AuthorityInv

LEMMA AuthorityStep == AuthorityInv /\ [AccessNext]_accessVars => AuthorityInv'
<1> SUFFICES ASSUME AuthorityInv, [AccessNext]_accessVars PROVE AuthorityInv'
  OBVIOUS
<1> USE DEF AuthorityInv
\* A step that leaves the accounts, principals and proofs alone.
<1>0. ASSUME UNCHANGED <<accountVars, principal, proofs>>
      PROVE  RolesInv' /\ PrincipalsInv' /\ ProofsInv'
  <2>1. PrincipalsInv'
    BY <1>0, MoreDecidersKeepPrincipals DEF accountVars
  <2> QED BY <1>0, <2>1 DEF accountVars, RolesInv, ProofsInv
<1>1. CASE AccessClockTicks
  BY <1>0, <1>1, QuietStepKeepsAuthority DEF AccessClockTicks
<1>2. ASSUME NEW h \in Humans, SignIn(h) \/ SuspendHuman(h) PROVE AuthorityInv'
  <2>1. RolesInv' /\ ProofsInv'
    BY <1>2 DEF SignIn, SuspendHuman, RolesInv, ProofsInv
  <2>2. PrincipalsInv'
    BY <1>2, MoreDecidersKeepPrincipals DEF SignIn, SuspendHuman
  <2> QED BY <1>2, <2>1, <2>2, QuietStepKeepsAuthority DEF SignIn, SuspendHuman
<1>3. ASSUME NEW h \in Humans, NEW keys \in Assigned, AssignRoles(h, keys) PROVE AuthorityInv'
  <2>1. deciders \subseteq deciders' /\ principal' = principal /\ proofs' = proofs
        /\ capabilities' = capabilities /\ performed' = Nothing
    BY <1>3 DEF AssignRoles
  <2>2. RolesInv'
    BY <1>3, <2>1 DEF AssignRoles, RolesInv
  <2>3. PrincipalsInv' /\ ProofsInv'
    BY <2>1, MoreDecidersKeepPrincipals DEF ProofsInv
  <2> QED BY <2>1, <2>2, <2>3, QuietStepKeepsAuthority
<1>4. ASSUME NEW s \in Services, NEW keys \in Granted, Grant(s, keys) PROVE AuthorityInv'
  <2>1. RolesInv' /\ ProofsInv'
    BY <1>4 DEF Grant, RolesInv, ProofsInv
  <2>2. PrincipalsInv'
    BY <1>4, MoreDecidersKeepPrincipals DEF Grant
  <2> QED BY <1>4, <2>1, <2>2, QuietStepKeepsAuthority DEF Grant
<1>5. ASSUME NEW a \in Actors, Begin(a) PROVE AuthorityInv'
  <2>1. RolesInv' /\ ProofsInv'
    BY <1>5 DEF Begin, accountVars, RolesInv, ProofsInv
  <2> QED BY <1>5, <2>1, BeginKeepsPrincipals, QuietStepKeepsAuthority DEF Begin
<1>6. ASSUME NEW a \in Actors, NEW action \in Requested, NEW with \in SUBSET proofs,
             Perform(a, action, with)
      PROVE  AuthorityInv'
  <2>1. RolesInv' /\ ProofsInv'
    BY <1>6 DEF Perform, accountVars, RolesInv, ProofsInv
  <2>2. PrincipalsInv'
    BY <1>6, DoneKeepsPrincipals DEF Perform, accountVars
  <2> QED BY <1>6, <2>1, <2>2, PerformedWithAuthority
<1>7. ASSUME NEW a \in Actors, NEW action \in Requested, NEW expiresAt \in Expiries,
             DecideApproval(a, action, expiresAt)
      PROVE  AuthorityInv'
  <2>1. RolesInv'
    BY <1>7 DEF DecideApproval, accountVars, RolesInv
  <2>2. PrincipalsInv'
    BY <1>7, DoneKeepsPrincipals DEF DecideApproval, accountVars
  <2>3. ProofsInv'
    BY <1>7, DecisionsAreHadByDeciders
  <2> QED BY <1>7, <2>1, <2>2, <2>3, QuietStepKeepsAuthority DEF DecideApproval
<1>8. CASE ToolsNext
  <2>1. UNCHANGED <<accountVars, principal, proofs>> /\ performed' = Nothing
    BY <1>8 DEF ToolsNext, Register, recordHealthCheck
  <2> QED BY <1>0, <2>1, QuietStepKeepsAuthority
<1>9. CASE UNCHANGED accessVars
  <2>1. AuthorityIsSeparated'
    BY <1>9 DEF accessVars, accountVars, AuthorityIsSeparated
  <2> QED BY <1>0, <1>9, <2>1 DEF accessVars
<1> QED BY <1>1, <1>2, <1>3, <1>4, <1>5, <1>6, <1>7, <1>8, <1>9
        DEF AccessNext, AuthorizationNext

\* Commercial commitments have the approval of another human who could give it, and
\* services never decide or manage, whatever roles and capabilities come and go
\* while requests go on with the principal they began with.
THEOREM AuthorityStaysSeparated == AccessSpec => []AuthorityIsSeparated
<1>1. AuthorityInv => AuthorityIsSeparated
  BY DEF AuthorityInv
<1> QED BY <1>1, AuthorityInit, AuthorityStep, PTL DEF AccessSpec

-----------------------------------------------------------------------------
(* The types of accounts, requests and proofs.                             *)

AccessInv == AccessTypeOK /\ capabilities \in [Services -> Granted]

LEMMA PrincipalTypes ==
  /\ NoPrincipal \in Principals
  /\ \A h \in Humans : \A keys \in Assigned \cap ((SUBSET HumanRoles) \ {{}}) :
       Human(h, keys) \in Principals
  /\ \A s \in Services : \A keys \in Granted : Service(s, keys) \in Principals
BY DEF Principals

\* Whoever asks does it in the name of an organization.
LEMMA PrincipalsHaveTenants ==
  ASSUME NEW p \in Principals, p # NoPrincipal
  PROVE  p.org \in Tenants
<1>1. CASE \E h \in Humans : \E keys : p = Human(h, keys)
  BY <1>1, AccessAssumption DEF AccessAssumption, Human
<1>2. CASE \E s \in Services : \E keys : p = Service(s, keys)
  BY <1>2, AccessAssumption DEF AccessAssumption, Service
<1>. QED  BY <1>1, <1>2 DEF Principals

LEMMA AccessStarts == AccessInit => AccessInv
<1>. SUFFICES ASSUME AccessInit PROVE AccessInv
  OBVIOUS
<1>1. 0 \in 0..MaxAccessClock
  BY AccessAssumption DEF AccessAssumption
<1>2. principal \in [Actors -> Principals]
  BY PrincipalTypes DEF AccessInit
<1>. QED  BY <1>1, <1>2 DEF AccessInit, AccessInv, AccessTypeOK

LEMMA AccessStep == AccessInv /\ [AccessNext]_accessVars => AccessInv'
<1>. SUFFICES ASSUME AccessInv, [AccessNext]_accessVars PROVE AccessInv'
  OBVIOUS
<1>. USE DEF AccessInv, AccessTypeOK
<1>1. CASE AccessClockTicks
  <2>1. today' \in 0..MaxAccessClock
    BY <1>1, AccessAssumption DEF AccessClockTicks, AccessAssumption
  <2>. QED  BY <1>1, <2>1 DEF AccessClockTicks, accountVars, toolVars
<1>2. ASSUME NEW h \in Humans, SignIn(h) \/ SuspendHuman(h) PROVE AccessInv'
  BY <1>2 DEF SignIn, SuspendHuman, toolVars
<1>3. ASSUME NEW h \in Humans, NEW keys \in Assigned, AssignRoles(h, keys) PROVE AccessInv'
  BY <1>3 DEF AssignRoles, toolVars
<1>4. ASSUME NEW s \in Services, NEW keys \in Granted, Grant(s, keys) PROVE AccessInv'
  BY <1>4 DEF Grant, toolVars
<1>5. ASSUME NEW a \in Actors, Begin(a) PROVE AccessInv'
  <2>1. CASE a \in Humans
    <3>1. roles[a] \in Assigned \cap ((SUBSET HumanRoles) \ {{}})
      BY <1>5, <2>1 DEF Begin, Resolvable
    <3>2. Human(a, roles[a]) \in Principals
      BY <2>1, <3>1, PrincipalTypes
    <3>. QED  BY <1>5, <2>1, <3>2 DEF Begin, accountVars, toolVars
  <2>2. CASE a \notin Humans
    <3>1. a \in Services /\ capabilities[a] \in Granted
      BY <2>2 DEF Actors
    <3>2. Service(a, capabilities[a]) \in Principals
      BY <3>1, PrincipalTypes
    <3>. QED  BY <1>5, <2>2, <3>2 DEF Begin, accountVars, toolVars
  <2>. QED  BY <2>1, <2>2
<1>6. ASSUME NEW a \in Actors, NEW action \in Requested, NEW with, Perform(a, action, with)
      PROVE  AccessInv'
  BY <1>6, PrincipalTypes DEF Perform, Done, accountVars, toolVars
<1>7. ASSUME NEW a \in Actors, NEW action \in Requested, NEW expiresAt \in Expiries,
             DecideApproval(a, action, expiresAt)
      PROVE  AccessInv'
  <2>1. principal[a] \in Principals /\ principal[a].org \in Tenants
    BY <1>7, PrincipalsHaveTenants DEF DecideApproval
  <2>2. proofs' \subseteq Proofs
    BY <1>7, <2>1 DEF DecideApproval, Proofs
  <2>3. principal' \in [Actors -> Principals]
    BY <1>7, PrincipalTypes DEF DecideApproval, Done
  <2>. QED  BY <1>7, <2>2, <2>3 DEF DecideApproval, accountVars, toolVars
<1>8. CASE ToolsNext
  <2>1. ASSUME NEW t \in Tools, NEW manifest \in Manifests, Register(t, manifest) PROVE AccessInv'
    BY <2>1 DEF Register, accountVars
  <2>2. ASSUME NEW t \in Tools, NEW status \in {"UP", "DOWN", "DEGRADED", "UNKNOWN"},
               recordHealthCheck(t, status)
        PROVE  AccessInv'
    BY <2>2 DEF recordHealthCheck, accountVars
  <2>. QED  BY <1>8, <2>1, <2>2 DEF ToolsNext
<1>9. CASE UNCHANGED accessVars
  BY <1>9 DEF accessVars, accountVars, toolVars
<1>. QED  BY <1>1, <1>2, <1>3, <1>4, <1>5, <1>6, <1>7, <1>8, <1>9
          DEF AccessNext, AuthorizationNext

-----------------------------------------------------------------------------
(* The accounts of a run.                                                  *)

\* Until the first administrator is at stake, nobody has called for one.
AccountsInv ==
  /\ part = "bootstrap" => BootstrapInv
  /\ part # "bootstrap" => \A b \in Bootstraps : At(b, "START")
  /\ SessionsInv /\ RightsInv

LEMMA AccountsStep == AccountsInv /\ [Next]_vars => AccountsInv'
<1>. SUFFICES ASSUME AccountsInv, [Next]_vars PROVE AccountsInv'
  OBVIOUS
<1>1. ASSUME part' = part, part # "bootstrap", UNCHANGED <<bootstrapVars, databaseVars>> PROVE AccountsInv'
  <2>1. /\ \A b \in Bootstraps : At(b, "START")'
    BY <1>1 DEF AccountsInv, bootstrapVars, At
  <2>2. SessionsInv' /\ RightsInv'
    BY <1>1, SessionsStep, RightsStep DEF AccountsInv, databaseVars, sessionVars, rightsVars
  <2>. QED  BY <1>1, <2>1, <2>2 DEF AccountsInv
<1>2. ASSUME BackupsPart \/ MonitoringPart \/ AccessPart \/ ToolsPart \/ GatewayPart \/ ConsolePart \/ ServerPart
      PROVE  AccountsInv'
  <2>1. part' = part /\ part # "bootstrap" /\ UNCHANGED <<bootstrapVars, databaseVars>>
    BY <1>2 DEF BackupsPart, MonitoringPart, AccessPart, ToolsPart, GatewayPart, ConsolePart, ServerPart,
                Watching, machineVars
  <2>. QED  BY <1>1, <2>1
<1>3. ASSUME BootstrapPart PROVE AccountsInv'
  <2>1. /\ part' = part /\ part = "bootstrap" /\ BootstrapNext /\ UNCHANGED databaseVars
    BY <1>3 DEF BootstrapPart, machineVars
  <2>2. SessionsInv' /\ RightsInv'
    BY <2>1, SessionsStep, RightsStep DEF AccountsInv, databaseVars, sessionVars, rightsVars
  <2>. QED  BY <2>1, <2>2, BootstrapStep DEF AccountsInv
<1>4. ASSUME SessionsPart PROVE AccountsInv'
  <2>1. /\ part' = part /\ part # "bootstrap" /\ SessionsNext /\ UNCHANGED <<bootstrapVars, rightsVars>>
    BY <1>4 DEF SessionsPart, Watching, SessionsNext, Login, Logout, CommitSession, RollbackSession,
                SessionLapses, LockSessions, Baseline, CommitMigration, MigrationFails
  <2>2. SessionsInv' /\ RightsInv'
    BY <2>1, SessionsStep, RightsStep DEF AccountsInv
  <2>. QED  BY <2>1, <2>2 DEF AccountsInv, bootstrapVars, At
<1>5. ASSUME RightsPart PROVE AccountsInv'
  <2>1. /\ part' = part /\ part # "bootstrap" /\ RightsNext /\ UNCHANGED <<bootstrapVars, sessionVars>>
    BY <1>5 DEF RightsPart, Watching, RightsNext, Seed, EditByHand, Activate
  <2>2. SessionsInv' /\ RightsInv'
    BY <2>1, SessionsStep, RightsStep DEF AccountsInv
  <2>. QED  BY <2>1, <2>2 DEF AccountsInv, bootstrapVars, At
<1>6. ASSUME UNCHANGED vars PROVE AccountsInv'
  <2>1. part' = part /\ UNCHANGED <<bootstrapVars, sessionVars, rightsVars>>
    BY <1>6 DEF vars, Watching, machineVars, databaseVars, sessionVars, rightsVars
  <2>2. SessionsInv' /\ RightsInv'
    BY <2>1, SessionsStep, RightsStep DEF AccountsInv
  <2>. QED  BY <2>1, <2>2, BootstrapStep DEF AccountsInv, bootstrapVars, At
<1>. QED  BY <1>2, <1>3, <1>4, <1>5, <1>6 DEF Next

LEMMA AccountsStart == Init => AccountsInv
<1>. SUFFICES ASSUME Init PROVE AccountsInv
  OBVIOUS
<1>1. SessionsInv /\ RightsInv
  BY SessionsInitHolds, RightsInitHolds DEF Init
<1>2. part # "bootstrap" => \A b \in Bootstraps : At(b, "START")
  BY DEF Init, BootstrapIdle, At
<1>. QED  BY <1>1, <1>2, BootstrapInitHolds DEF Init, AccountsInv

\* Accounts are accounted for, for any organizations, humans and sessions: one first
\* administrator, a trail of every session there is, and no right that the policy
\* does not know.
THEOREM AccountsHold == Spec => []AccountsAreAccountedFor
<1>1. AccountsInv => AccountsAreAccountedFor
  <2>. SUFFICES ASSUME AccountsInv PROVE AccountsAreAccountedFor
    OBVIOUS
  <2>1. FirstAdministratorIsOne
    <3>1. CASE part = "bootstrap"
      BY <3>1, InvMakesOneAdministrator DEF AccountsInv
    <3>2. CASE part # "bootstrap"
      BY <3>2 DEF AccountsInv, FirstAdministratorIsOne, At
    <3>. QED  BY <3>1, <3>2
  <2>. QED  BY <2>1, InvLeavesATrail, InvMakesRightsThePolicys DEF AccountsInv, AccountsAreAccountedFor
<1>. QED  BY <1>1, AccountsStart, AccountsStep, PTL DEF Spec

-----------------------------------------------------------------------------
(* Backups.                                                                *)

\* What a bundle named t has to have; what one in the making has so far.
Whole(t, b) ==
  /\ Len(b.dump) = Len(Databases)
  /\ \A i \in 1..Len(b.dump) : t <= b.dump[i] /\ b.dump[i] <= b.counted
SoFar(t, b) ==
  /\ b.bad = {} /\ Len(b.dump) <= Len(Databases)
  /\ \A i \in 1..Len(b.dump) : t <= b.dump[i] /\ b.dump[i] <= now
  /\ "counts.tsv" \in b.have => Whole(t, b)

Disk == [Names -> [bundle : Directory, part : Directory]]
BackupTypes ==
  /\ now \in Names /\ backup \in {0} \cup Names /\ backup <= now
  /\ local \in Disk /\ external \in Disk

\* A local bundle is bad only where the disk rotted.
LocalBad(t, b) == b.bad # {} => <<"local", t>> \in rotten

\* A copy that has a file has been made of a bundle, and what has its name is checked.
BackupInv ==
  /\ BackupTypes
  /\ \A t \in Names : local[t].bundle.exists =>
       Whole(t, local[t].bundle) /\ LocalBad(t, local[t].bundle)
  /\ backup # 0 => SoFar(backup, local[backup].part)
  /\ \A t \in Names : external[t].part.have # {} => Whole(t, external[t].part)
  /\ \A t \in Names : external[t].bundle.exists =>
       /\ external[t].bundle.have = RequiredFiles /\ Whole(t, external[t].bundle)
       /\ external[t].bundle.bad # {} => <<"external", t>> \in rotten

LEMMA TwoInARow ==
  ASSUME NEW S, NEW x \in S, NEW y \in S
  PROVE  <<x, y>> \in Seq(S) /\ Len(<<x, y>>) = 2 /\ <<x, y>>[1] = x
OBVIOUS

LEMMA FilesThereAre ==
  /\ "counts.tsv" \in RequiredFiles
  /\ \A i \in 1..Len(Databases) : Databases[i] \in RequiredFiles /\ Databases[i] # "counts.tsv"
  /\ Len(Databases) \in Nat /\ DOMAIN Databases = 1..Len(Databases)
<1> DEFINE Others == STRING \ {"counts.tsv", "SHA256SUMS"}
           Files == Others \cup {"counts.tsv", "SHA256SUMS"}
           last == <<"counts.tsv", "SHA256SUMS">>
<1>1. Databases \in Seq(Others)
  BY BackupAssumption DEF BackupAssumption
<1>2. "counts.tsv" \in Files /\ "SHA256SUMS" \in Files /\ Others \subseteq Files /\ "counts.tsv" \notin Others
  OBVIOUS
<1>3. last \in Seq(Files) /\ Len(last) = 2 /\ last[1] = "counts.tsv"
  <2> HIDE DEF Files
  <2>. QED  BY <1>2, TwoInARow
<1> HIDE DEF Others, Files, last
<1>4. Len(Databases) \in Nat /\ DOMAIN Databases = 1..Len(Databases)
  BY <1>1, LenProperties
<1>5. \A i \in 1..Len(Databases) : Databases[i] \in Others
  BY <1>1, ElementOfSeq
<1>6. Databases \in Seq(Files)
  BY <1>1, <1>2, <1>4, <1>5
<1>7. FileOrder = Databases \o last
  BY DEF FileOrder, last
<1>8. /\ FileOrder \in Seq(Files) /\ Len(FileOrder) = Len(Databases) + 2
      /\ \A i \in 1..Len(Databases) : FileOrder[i] = Databases[i]
      /\ FileOrder[Len(Databases) + 1] = "counts.tsv"
  <2>1. /\ FileOrder \in Seq(Files) /\ Len(FileOrder) = Len(Databases) + Len(last)
        /\ \A i \in 1..(Len(Databases) + Len(last)) :
             FileOrder[i] = IF i <= Len(Databases) THEN Databases[i] ELSE last[i - Len(Databases)]
    BY <1>3, <1>6, <1>7, ConcatProperties
  <2>2. Len(Databases) + 1 - Len(Databases) = 1 /\ Len(Databases) + 1 \in 1..(Len(Databases) + 2)
        /\ ~(Len(Databases) + 1 <= Len(Databases))
        /\ \A i \in 1..Len(Databases) : i <= Len(Databases) /\ i \in 1..(Len(Databases) + 2)
    BY <1>4
  <2>. QED  BY <1>3, <2>1, <2>2
<1>9. RequiredFiles = {FileOrder[i] : i \in 1..(Len(Databases) + 2)}
  BY <1>8, LenProperties DEF RequiredFiles, ToSet
<1>10. Len(Databases) + 1 \in 1..(Len(Databases) + 2) /\ 1..Len(Databases) \subseteq 1..(Len(Databases) + 2)
  BY <1>4
<1>. QED  BY <1>2, <1>4, <1>5, <1>8, <1>9, <1>10

LEMMA DirectoryFields ==
  ASSUME NEW b \in Directory
  PROVE  /\ b.dump \in Seq(Names) /\ Len(b.dump) \in Nat /\ DOMAIN b.dump = 1..Len(b.dump)
         /\ \A i \in 1..Len(b.dump) : b.dump[i] \in Names /\ b.dump[i] \in Nat
         /\ b.have \subseteq RequiredFiles /\ b.bad \subseteq RequiredFiles
         /\ b.counted \in 0..MaxTime /\ b.counted \in Nat /\ b.exists \in BOOLEAN
<1>1. b.dump \in Seq(Names) /\ b.have \subseteq RequiredFiles /\ b.bad \subseteq RequiredFiles
      /\ b.counted \in 0..MaxTime /\ b.exists \in BOOLEAN
  BY DEF Directory
<1>2. MaxTime \in Nat /\ Names \subseteq Nat
  BY BackupAssumption DEF BackupAssumption, Names
<1>3. Len(b.dump) \in Nat /\ DOMAIN b.dump = 1..Len(b.dump)
  BY <1>1, LenProperties
<1>4. \A i \in 1..Len(b.dump) : b.dump[i] \in Names
  BY <1>1, ElementOfSeq
<1>5. \A i \in 1..Len(b.dump) : b.dump[i] \in Nat
  BY <1>2, <1>4
<1>6. b.counted \in Nat
  BY <1>1, <1>2
<1>. QED  BY <1>1, <1>3, <1>4, <1>5, <1>6

LEMMA NoDirectoryIsOne ==
  /\ NoDirectory \in Directory /\ EmptyDirectory \in Directory
  /\ NoDirectory.exists = FALSE /\ NoDirectory.have = {} /\ EmptyDirectory.have = {}
  /\ Len(EmptyDirectory.dump) = 0 /\ EmptyDirectory.bad = {}
<1>1. NoDirectory \in Directory
  BY BackupAssumption DEF NoDirectory, Directory, BackupAssumption
<1>2. NoDirectory.exists = FALSE /\ NoDirectory.have = {} /\ NoDirectory.dump = << >>
      /\ NoDirectory.bad = {}
  BY DEF NoDirectory
<1>3. EmptyDirectory \in Directory /\ EmptyDirectory.have = {} /\ EmptyDirectory.dump = << >>
      /\ EmptyDirectory.bad = {}
  BY <1>1, <1>2 DEF EmptyDirectory, Directory
<1>. QED  BY <1>1, <1>2, <1>3

LEMMA Times ==
  ASSUME BackupInv
  PROVE  /\ Names \subseteq Nat \ {0} /\ MaxTime \in Nat /\ Names = 1..MaxTime /\ MaxAge \in Nat
         /\ now \in Names /\ now \in Nat /\ backup \in {0} \cup Names /\ backup <= now
         /\ local \in Disk /\ external \in Disk
<1>1. Names \subseteq Nat \ {0} /\ MaxTime \in Nat /\ Names = 1..MaxTime /\ MaxAge \in Nat
  BY BackupAssumption DEF BackupAssumption, Names
<1>2. now \in Names /\ backup \in {0} \cup Names /\ backup <= now /\ local \in Disk /\ external \in Disk
  BY DEF BackupInv, BackupTypes
<1>. QED  BY <1>1, <1>2

LEMMA BackupStart == BackupInit => BackupInv
<1>. SUFFICES ASSUME BackupInit PROVE BackupInv
  OBVIOUS
<1>1. NoDisk \in Disk
  BY NoDirectoryIsOne DEF NoDisk, Disk
<1>2. 1 \in Names
  BY BackupAssumption DEF BackupAssumption, Names
<1>3. \A t \in Names : NoDisk[t].bundle = NoDirectory /\ NoDisk[t].part = NoDirectory
  BY DEF NoDisk
<1>. QED  BY <1>1, <1>2, <1>3, NoDirectoryIsOne DEF BackupInit, BackupInv, BackupTypes

\* A step of the local disk's bundles and of nothing else.
LEMMA BundlesKeep ==
  ASSUME BackupInv, NEW t, NEW b \in Directory, local' = [local EXCEPT ![t].bundle = b],
         t \in Names /\ b.exists => Whole(t, b) /\ (b.bad # {} => <<"local", t>> \in rotten'),
         UNCHANGED <<now, external, backup>>, rotten \subseteq rotten'
  PROVE  BackupInv'
<1>1. /\ local' \in Disk /\ \A u \in Names : local'[u].part = local[u].part
      /\ \A u \in Names : local'[u].bundle = IF u = t THEN b ELSE local[u].bundle
  <2>1. local \in Disk
    BY DEF BackupInv, BackupTypes
  <2>. QED  BY <2>1 DEF Disk
<1>2. \A u, c : Whole(u, c)' = Whole(u, c) /\ SoFar(u, c)' = SoFar(u, c)
  BY DEF Whole, SoFar
<1>3. backup # 0 => backup \in Names
  BY DEF BackupInv, BackupTypes
<1>4. BackupTypes'
  BY <1>1 DEF BackupInv, BackupTypes
<1>5. \A u \in Names : local'[u].bundle.exists =>
        Whole(u, local'[u].bundle) /\ (local'[u].bundle.bad # {} => <<"local", u>> \in rotten')
  BY <1>1 DEF BackupInv, LocalBad
<1>6. backup' # 0 => SoFar(backup', local'[backup'].part)
  BY <1>1, <1>3 DEF BackupInv
<1>. QED  BY <1>2, <1>4, <1>5, <1>6 DEF BackupInv, LocalBad

\* A step of the bundle in the making.
LEMMA PartKeeps ==
  ASSUME BackupInv, NEW t \in Names, NEW b \in Directory,
         local' \in Disk, \A u \in Names : local'[u].bundle = local[u].bundle,
         local'[t].part = b,
         backup' \in {0, t}, t <= now, backup' # 0 => SoFar(t, b),
         UNCHANGED <<now, external, rotten>>
  PROVE  BackupInv'
<1>1. /\ local' \in Disk /\ \A u \in Names : local'[u].bundle = local[u].bundle
      /\ local'[t].part = b
  OBVIOUS
<1>2. \A u, c : Whole(u, c)' = Whole(u, c) /\ SoFar(u, c)' = SoFar(u, c)
  BY DEF Whole, SoFar
<1>3. BackupTypes'
  <2>1. backup' \in {0} \cup Names /\ backup' <= now
    BY Times
  <2>. QED  BY <1>1, <2>1, Times DEF BackupTypes
<1>4. backup' # 0 => SoFar(backup', local'[backup'].part)
  BY <1>1
<1>. QED  BY <1>1, <1>2, <1>3, <1>4 DEF BackupInv, LocalBad

\* A step of the external disk.
LEMMA ExternalKeeps ==
  ASSUME BackupInv, external' \in Disk, UNCHANGED <<now, local, backup>>, rotten \subseteq rotten',
         NEW t,
         \A u \in Names : u # t => external'[u] = external[u],
         t \in Names => (external'[t].part.have # {} => Whole(t, external'[t].part)),
         t \in Names => (external'[t].bundle.exists =>
            /\ external'[t].bundle.have = RequiredFiles /\ Whole(t, external'[t].bundle)
            /\ external'[t].bundle.bad # {} => <<"external", t>> \in rotten')
  PROVE  BackupInv'
<1>1. \A u, c : Whole(u, c)' = Whole(u, c) /\ SoFar(u, c)' = SoFar(u, c)
  BY DEF Whole, SoFar
<1>2. BackupTypes'
  BY DEF BackupInv, BackupTypes
<1>3. \A u \in Names : external'[u].part.have # {} => Whole(u, external'[u].part)
  BY DEF BackupInv
<1>4. \A u \in Names : external'[u].bundle.exists =>
        /\ external'[u].bundle.have = RequiredFiles /\ Whole(u, external'[u].bundle)
        /\ external'[u].bundle.bad # {} => <<"external", u>> \in rotten'
  BY DEF BackupInv
<1>5. \A u \in Names : local'[u].bundle.exists =>
        Whole(u, local'[u].bundle) /\ (local'[u].bundle.bad # {} => <<"local", u>> \in rotten')
  BY DEF BackupInv, LocalBad
<1>6. backup' # 0 => SoFar(backup', local'[backup'].part)
  BY DEF BackupInv
<1>. QED  BY <1>1, <1>2, <1>3, <1>4, <1>5, <1>6 DEF BackupInv, LocalBad

LEMMA BackupStep == BackupInv /\ [BackupNext]_backupVars => BackupInv'
<1>. SUFFICES ASSUME BackupInv, [BackupNext]_backupVars PROVE BackupInv'
  OBVIOUS
<1>1. /\ now \in Names /\ backup \in {0} \cup Names /\ local \in Disk /\ external \in Disk
      /\ Names \subseteq Nat \ {0} /\ MaxTime \in Nat /\ Names = 1..MaxTime
      /\ backup <= now /\ now <= now
  BY Times
<1>2. \A t \in Names : /\ local[t].bundle \in Directory /\ local[t].part \in Directory
                       /\ external[t].bundle \in Directory /\ external[t].part \in Directory
  BY <1>1 DEF Disk
<1>3. ASSUME StartBackup PROVE BackupInv'
  <2>1. /\ backup' = now /\ local' = [local EXCEPT ![now].part = EmptyDirectory]
        /\ UNCHANGED <<now, external, rotten>>
    BY <1>3 DEF StartBackup
  <2>2. SoFar(now, EmptyDirectory)
    BY FilesThereAre, NoDirectoryIsOne DEF SoFar
  <2>3. backup' \in {0, now} /\ now \in Names /\ now <= now /\ EmptyDirectory \in Directory
    BY <1>1, <2>1, NoDirectoryIsOne
  <2>4. /\ local' \in Disk /\ \A u \in Names : local'[u].bundle = local[u].bundle
        /\ local'[now].part = EmptyDirectory
    BY <1>1, <2>1, <2>3 DEF Disk
  <2>. QED  BY <2>1, <2>2, <2>3, <2>4, PartKeeps
<1>4. ASSUME DumpDatabase PROVE BackupInv'
  <2>1. PICK w : w = local[backup].part
    OBVIOUS
  <2>2. /\ backup \in Names /\ w \in Directory /\ Len(w.dump) < Len(Databases)
        /\ SoFar(backup, w) /\ Len(w.dump) \in Nat
    BY <1>1, <1>2, <1>4, <2>1, DirectoryFields DEF DumpDatabase, Work, BackupInv
  <2>3. PICK i : i = Len(w.dump) + 1
    OBVIOUS
  <2>4. PICK dumped : dumped = Append(w.dump, now)
    OBVIOUS
  <2>5. PICK b : b = [w EXCEPT !.dump = dumped, !.have = w.have \cup {Databases[i]}]
    OBVIOUS
  <2>6. i \in 1..Len(Databases)
    BY <2>2, <2>3, FilesThereAre
  <2>7. /\ dumped \in Seq(Names) /\ Len(dumped) = Len(w.dump) + 1
        /\ \A j \in 1..Len(w.dump) : dumped[j] = w.dump[j]
        /\ dumped[Len(w.dump) + 1] = now
    BY <1>1, <2>2, <2>4, DirectoryFields, AppendProperties
  <2>8. b \in Directory /\ b.dump = dumped /\ b.have = w.have \cup {Databases[i]} /\ b.bad = w.bad
    BY <2>2, <2>5, <2>6, <2>7, FilesThereAre DEF Directory
  <2>9. /\ local' \in Disk /\ \A u \in Names : local'[u].bundle = local[u].bundle
        /\ local'[backup].part = b /\ UNCHANGED <<now, external, backup, rotten>>
    <3>1. /\ local' = [local EXCEPT ![backup].part.dump = Append(@, now),
                                    ![backup].part.have = @ \cup {Databases[i]}]
          /\ UNCHANGED <<now, external, backup, rotten>>
      BY <1>4, <2>1, <2>3 DEF DumpDatabase, Work
    <3>2. PICK v : v = [w EXCEPT !.dump = dumped]
      OBVIOUS
    <3>3. PICK m : m = [local EXCEPT ![backup].part = v]
      OBVIOUS
    <3>4. v \in Directory /\ v.have = w.have /\ b = [v EXCEPT !.have = w.have \cup {Databases[i]}]
      BY <2>2, <2>5, <2>7, <3>2 DEF Directory
    <3>5. /\ m \in Disk /\ m[backup].part = v /\ \A u \in Names : m[u].bundle = local[u].bundle
      BY <1>1, <2>2, <3>3, <3>4 DEF Disk
    <3>6. m = [local EXCEPT ![backup].part.dump = Append(@, now)]
      BY <1>1, <2>1, <2>2, <2>4, <3>2, <3>3 DEF Disk
    <3>7. local' = [m EXCEPT ![backup].part.have = @ \cup {Databases[i]}]
      BY <3>1, <3>6
    <3>8. local' = [m EXCEPT ![backup].part = b]
      BY <2>2, <3>4, <3>5, <3>7 DEF Disk
    <3>9. /\ local' \in Disk /\ local'[backup].part = b
          /\ \A u \in Names : local'[u].bundle = m[u].bundle
      BY <2>2, <2>8, <3>5, <3>8 DEF Disk
    <3>. QED  BY <3>1, <3>5, <3>9
  <2>10. "counts.tsv" \notin w.have
    BY <2>2, FilesThereAre DEF SoFar, Whole
  <2>11. SoFar(backup, b)
    <3>1. "counts.tsv" \notin b.have
      BY <2>6, <2>8, <2>10, FilesThereAre
    <3>2. Len(b.dump) <= Len(Databases)
      BY <2>2, <2>7, <2>8, FilesThereAre
    <3>3. \A j \in 1..Len(dumped) : j \in 1..Len(w.dump) \/ j = Len(w.dump) + 1
      BY <2>2, <2>7
    <3>4. \A j \in 1..Len(dumped) : backup <= dumped[j] /\ dumped[j] <= now
      BY <1>1, <2>2, <2>7, <3>3 DEF SoFar
    <3>5. b.bad = {}
      BY <2>2, <2>8 DEF SoFar
    <3>. QED  BY <2>8, <3>1, <3>2, <3>4, <3>5 DEF SoFar
  <2>. QED  BY <1>1, <2>2, <2>8, <2>9, <2>11, PartKeeps
<1>5. ASSUME CountRows PROVE BackupInv'
  <2>1. PICK w : w = local[backup].part
    OBVIOUS
  <2>2. /\ backup \in Names /\ w \in Directory /\ Len(w.dump) = Len(Databases) /\ SoFar(backup, w)
    BY <1>1, <1>2, <1>5, <2>1 DEF CountRows, Work, BackupInv
  <2>3. PICK b : b = [w EXCEPT !.counted = now, !.have = w.have \cup {"counts.tsv"}]
    OBVIOUS
  <2>4. b \in Directory /\ b.dump = w.dump /\ b.counted = now /\ b.bad = w.bad
    <3>1. now \in 0..MaxTime
      BY <1>1
    <3>. QED  BY <2>2, <2>3, <3>1, FilesThereAre DEF Directory
  <2>5. /\ local' \in Disk /\ \A u \in Names : local'[u].bundle = local[u].bundle
        /\ local'[backup].part = b /\ UNCHANGED <<now, external, backup, rotten>>
    <3>1. /\ local' = [local EXCEPT ![backup].part.counted = now,
                                    ![backup].part.have = @ \cup {"counts.tsv"}]
          /\ UNCHANGED <<now, external, backup, rotten>>
      BY <1>5 DEF CountRows
    <3>2. PICK v : v = [w EXCEPT !.counted = now]
      OBVIOUS
    <3>3. PICK m : m = [local EXCEPT ![backup].part = v]
      OBVIOUS
    <3>4. v \in Directory /\ v.have = w.have /\ b = [v EXCEPT !.have = w.have \cup {"counts.tsv"}]
      <4>1. now \in 0..MaxTime
        BY <1>1
      <4>. QED  BY <2>2, <2>3, <3>2, <4>1 DEF Directory
    <3>5. /\ m \in Disk /\ m[backup].part = v /\ \A u \in Names : m[u].bundle = local[u].bundle
      BY <1>1, <2>2, <3>3, <3>4 DEF Disk
    <3>6. m = [local EXCEPT ![backup].part.counted = now]
      BY <1>1, <2>1, <2>2, <3>2, <3>3 DEF Disk
    <3>7. local' = [m EXCEPT ![backup].part.have = @ \cup {"counts.tsv"}]
      BY <3>1, <3>6
    <3>8. local' = [m EXCEPT ![backup].part = b]
      BY <2>2, <3>4, <3>5, <3>7 DEF Disk
    <3>9. /\ local' \in Disk /\ local'[backup].part = b
          /\ \A u \in Names : local'[u].bundle = m[u].bundle
      BY <2>2, <2>4, <3>5, <3>8 DEF Disk
    <3>. QED  BY <3>1, <3>5, <3>9
  <2>6. SoFar(backup, b)
    BY <2>2, <2>4 DEF SoFar, Whole
  <2>. QED  BY <1>1, <2>2, <2>4, <2>5, <2>6, PartKeeps
<1>6. ASSUME PublishBundle PROVE BackupInv'
  <2> DEFINE w == local[backup].part
             b == [w EXCEPT !.have = RequiredFiles]
  <2>1. /\ backup \in Names /\ w \in Directory /\ SoFar(backup, w) /\ "counts.tsv" \in w.have
    BY <1>1, <1>2, <1>6 DEF PublishBundle, Work, BackupInv
  <2>2. /\ local' = [local EXCEPT ![backup].bundle = b, ![backup].part = NoDirectory]
        /\ UNCHANGED <<now, external, rotten>> /\ backup' = 0
    BY <1>6 DEF PublishBundle, Work
  <2>3. b \in Directory /\ Whole(backup, b) /\ b.bad = {}
    BY <2>1 DEF Directory, SoFar, Whole
  <2>4. /\ local' \in Disk
        /\ \A u \in Names : u # backup => local'[u] = local[u]
        /\ local'[backup].bundle = b
    <3> HIDE DEF b
    <3>. QED  BY <1>1, <2>1, <2>2, <2>3, NoDirectoryIsOne DEF Disk
  <2>5. \A u, c : Whole(u, c)' = Whole(u, c)
    BY DEF Whole
  <2>6. \A u \in Names : local'[u].bundle.exists =>
          Whole(u, local'[u].bundle) /\ (local'[u].bundle.bad # {} => <<"local", u>> \in rotten')
    BY <2>2, <2>3, <2>4 DEF BackupInv, LocalBad
  <2>7. BackupTypes'
    BY <1>1, <2>2, <2>4 DEF BackupTypes
  <2>8. \A t \in Names : external[t].part.have # {} => Whole(t, external[t].part)
    BY DEF BackupInv
  <2>9. \A t \in Names : external[t].bundle.exists =>
          /\ external[t].bundle.have = RequiredFiles /\ Whole(t, external[t].bundle)
          /\ external[t].bundle.bad # {} => <<"external", t>> \in rotten
    BY DEF BackupInv
  <2>10. external' = external /\ rotten' = rotten /\ backup' = 0
    BY <2>2
  <2> HIDE DEF b, w
  <2>. QED  BY <2>5, <2>6, <2>7, <2>8, <2>9, <2>10 DEF BackupInv, LocalBad
<1>7. ASSUME FailBackup PROVE BackupInv'
  <2>1. /\ backup \in Names /\ local' = [local EXCEPT ![backup].part = NoDirectory] /\ backup' = 0
        /\ UNCHANGED <<now, external, rotten>>
    BY <1>1, <1>7 DEF FailBackup
  <2>2. /\ local' \in Disk /\ \A u \in Names : local'[u].bundle = local[u].bundle
        /\ local'[backup].part = NoDirectory
    BY <1>1, <2>1, NoDirectoryIsOne DEF Disk
  <2>. QED  BY <1>1, <2>1, <2>2, NoDirectoryIsOne, PartKeeps
<1>8. ASSUME KillBackup \/ StartPrune \/ (\E latestOnly \in BOOLEAN : StartSync(latestOnly)) \/ KillSync
      PROVE  BackupInv'
  <2>1. backup' \in {0, backup} /\ UNCHANGED <<now, local, external, rotten>>
    BY <1>8 DEF KillBackup, StartPrune, StartSync, KillSync
  <2>2. backup' <= now
    BY <1>1, <2>1
  <2>. QED  BY <2>1, <2>2 DEF BackupInv, BackupTypes, Whole, SoFar, LocalBad
<1>9. ASSUME PruneBundle PROVE BackupInv'
  <2>1. UNCHANGED <<now, external, backup, rotten>>
    BY <1>9 DEF PruneBundle
  <2>2. CASE local' = local
    BY <2>1, <2>2 DEF BackupInv, BackupTypes, Whole, SoFar, LocalBad
  <2>3. CASE \E t : local' = [local EXCEPT ![t].bundle = NoDirectory]
    <3>1. PICK t : local' = [local EXCEPT ![t].bundle = NoDirectory]
      BY <2>3
    <3>. QED  BY <2>1, <3>1, NoDirectoryIsOne, BundlesKeep
  <2>. QED  BY <1>9, <2>2, <2>3 DEF PruneBundle
<1>10. ASSUME KillPrune PROVE BackupInv'
  <2>1. UNCHANGED <<now, external, backup, rotten>>
    BY <1>10 DEF KillPrune
  <2>2. CASE local' = local
    BY <2>1, <2>2 DEF BackupInv, BackupTypes, Whole, SoFar, LocalBad
  <2>3. CASE \E t, left : left \subseteq RequiredFiles /\ local' = [local EXCEPT ![t].bundle.have = left]
    <3>1. PICK t, left : left \subseteq RequiredFiles /\ local' = [local EXCEPT ![t].bundle.have = left]
      BY <2>3
    <3>2. CASE t \notin Names
      <4>1. local' = local
        BY <1>1, <3>1, <3>2 DEF Disk
      <4>. QED  BY <4>1, <2>2
    <3>3. CASE t \in Names
      <4>1. PICK b : b = [local[t].bundle EXCEPT !.have = left]
        OBVIOUS
      <4>2. /\ b \in Directory /\ b.dump = local[t].bundle.dump /\ b.counted = local[t].bundle.counted
            /\ b.exists = local[t].bundle.exists /\ b.bad = local[t].bundle.bad
        BY <1>2, <3>1, <3>3, <4>1 DEF Directory
      <4>3. local' = [local EXCEPT ![t].bundle = b]
        BY <1>1, <3>1, <3>3, <4>1 DEF Disk
      <4>4. b.exists => Whole(t, b) /\ (b.bad # {} => <<"local", t>> \in rotten')
        <5>1. local[t].bundle.exists =>
                Whole(t, local[t].bundle) /\ (local[t].bundle.bad # {} => <<"local", t>> \in rotten)
          BY <3>3 DEF BackupInv, LocalBad
        <5>. QED  BY <2>1, <4>2, <5>1 DEF Whole
      <4>. QED  BY <2>1, <4>2, <4>3, <4>4, BundlesKeep
    <3>. QED  BY <3>2, <3>3
  <2>4. local' = local \/ \E t, left : left \subseteq RequiredFiles /\ local' = [local EXCEPT ![t].bundle.have = left]
    BY <1>10 DEF KillPrune
  <2>. QED  BY <2>2, <2>3, <2>4
<1>11. ASSUME ConsiderBundle PROVE BackupInv'
  <2>1. UNCHANGED <<now, local, backup, rotten>>
    BY <1>11 DEF ConsiderBundle
  <2>2. CASE external' = external
    BY <2>1, <2>2 DEF BackupInv, BackupTypes, Whole, SoFar, LocalBad
  <2>3. CASE \E t : external' = [external EXCEPT ![t].part = EmptyDirectory]
    <3>1. PICK t : external' = [external EXCEPT ![t].part = EmptyDirectory]
      BY <2>3
    <3>2. /\ external' \in Disk
          /\ \A u \in Names : external'[u].bundle = external[u].bundle
          /\ \A u \in Names : external'[u].part = IF u = t THEN EmptyDirectory ELSE external[u].part
      BY <1>1, <3>1, NoDirectoryIsOne DEF Disk
    <3>3. \A u \in Names : u # t => external'[u] = external[u]
      BY <1>1, <3>1 DEF Disk
    <3>4. t \in Names => (external'[t].part.have # {} => Whole(t, external'[t].part))
      BY <3>2, NoDirectoryIsOne
    <3>5. t \in Names => (external'[t].bundle.exists =>
            /\ external'[t].bundle.have = RequiredFiles /\ Whole(t, external'[t].bundle)
            /\ external'[t].bundle.bad # {} => <<"external", t>> \in rotten')
      BY <2>1, <3>2 DEF BackupInv
    <3>. QED  BY <2>1, <3>2, <3>3, <3>4, <3>5, ExternalKeeps
  <2>4. external' = external \/ \E t : external' = [external EXCEPT ![t].part = EmptyDirectory]
    BY <1>11 DEF ConsiderBundle
  <2>. QED  BY <2>2, <2>3, <2>4
<1>12. ASSUME CopyFile PROVE BackupInv'
  <2>1. UNCHANGED <<now, local, backup, rotten>>
    BY <1>12 DEF CopyFile
  <2>2. PICK t : t = Head(sync.todo)
    OBVIOUS
  <2>3. PICK f : f = FileOrder[Cardinality(external[t].part.have) + 1]
    OBVIOUS
  <2> DEFINE old == external[t].part
             source == local[t].bundle
             b == [source EXCEPT !.have = old.have \cup {f}, !.bad = old.bad \cup (source.bad \cap {f})]
  <2>4. \/ /\ source.exists /\ f \in source.have
           /\ external' = [external EXCEPT ![t].part = b]
        \/ external' = [external EXCEPT ![t].part = NoDirectory]
    BY <1>12, <2>2, <2>3 DEF CopyFile
  <2>5. CASE t \notin Names
    <3>1. external' = external
      BY <1>1, <2>4, <2>5 DEF Disk
    <3>. QED  BY <2>1, <3>1 DEF BackupInv, BackupTypes, Whole, SoFar, LocalBad
  <2>6. CASE t \in Names
    <3>1. old \in Directory /\ source \in Directory
      BY <1>2, <2>6
    <3>2. CASE source.exists /\ f \in source.have /\ external' = [external EXCEPT ![t].part = b]
      <4>1. b \in Directory /\ b.dump = source.dump /\ b.counted = source.counted
        BY <3>1, <3>2 DEF Directory
      <4>2. Whole(t, b)
        BY <2>6, <3>2, <4>1 DEF BackupInv, Whole
      <4> HIDE DEF b
      <4>3. /\ external' \in Disk
            /\ external'[t].bundle = external[t].bundle /\ external'[t].part = b
        BY <1>1, <2>6, <3>2, <4>1 DEF Disk
      <4>4. \A u \in Names : u # t => external'[u] = external[u]
        BY <1>1, <3>2 DEF Disk
      <4>. QED  BY <2>1, <4>2, <4>3, <4>4, ExternalKeeps DEF BackupInv
    <3>3. CASE external' = [external EXCEPT ![t].part = NoDirectory]
      <4>1. /\ external' \in Disk
            /\ external'[t].bundle = external[t].bundle /\ external'[t].part = NoDirectory
        BY <1>1, <2>6, <3>3, NoDirectoryIsOne DEF Disk
      <4>2. \A u \in Names : u # t => external'[u] = external[u]
        BY <1>1, <3>3 DEF Disk
      <4>. QED  BY <2>1, <4>1, <4>2, NoDirectoryIsOne, ExternalKeeps DEF BackupInv
    <3>. QED  BY <2>4, <3>2, <3>3
  <2>. QED  BY <2>5, <2>6
<1>13. ASSUME FinishCopy PROVE BackupInv'
  <2>1. UNCHANGED <<now, local, backup, rotten>>
    BY <1>13 DEF FinishCopy
  <2>2. PICK t : t = Head(sync.todo)
    OBVIOUS
  <2> DEFINE copy == external[t].part
  <2>3. PICK b : b = IF VerifyBundleChecksums(copy) THEN copy ELSE NoDirectory
    OBVIOUS
  <2>4. external' = [external EXCEPT ![t] = [bundle |-> b, part |-> NoDirectory]]
    BY <1>13, <2>2, <2>3 DEF FinishCopy
  <2>5. CASE t \notin Names
    <3>1. external' = external
      BY <1>1, <2>4, <2>5 DEF Disk
    <3>. QED  BY <2>1, <3>1 DEF BackupInv, BackupTypes, Whole, SoFar, LocalBad
  <2>6. CASE t \in Names
    <3>1. b \in Directory
      BY <1>2, <2>3, <2>6, NoDirectoryIsOne
    <3>2. /\ external' \in Disk /\ external'[t].bundle = b /\ external'[t].part = NoDirectory
          /\ \A u \in Names : u # t => external'[u] = external[u]
      BY <1>1, <2>4, <2>6, <3>1, NoDirectoryIsOne DEF Disk
    <3>3. b.exists => b.have = RequiredFiles /\ b.bad = {} /\ Whole(t, b)
      <4>1. CASE VerifyBundleChecksums(copy)
        <5>1. b = copy /\ copy.have = RequiredFiles /\ copy.bad = {}
          BY <2>3, <4>1 DEF VerifyBundleChecksums, IsCompleteBundle
        <5>. QED  BY <2>6, <5>1, FilesThereAre DEF BackupInv
      <4>2. CASE ~VerifyBundleChecksums(copy)
        BY <2>3, <4>2, NoDirectoryIsOne
      <4>. QED  BY <4>1, <4>2
    <3>. QED  BY <2>1, <3>2, <3>3, NoDirectoryIsOne, ExternalKeeps
  <2>. QED  BY <2>5, <2>6
<1>14. ASSUME Tick PROVE BackupInv'
  <2>1. /\ now < MaxTime /\ now' = now + 1 /\ UNCHANGED <<local, external, backup, rotten>>
    BY <1>14 DEF Tick
  <2>2. now' \in Names
    BY <1>1, <2>1
  <2>3. backup # 0 => SoFar(backup, local[backup].part)'
    <3> SUFFICES ASSUME backup # 0 PROVE SoFar(backup, local[backup].part)'
      OBVIOUS
    <3>1. local[backup].part \in Directory /\ SoFar(backup, local[backup].part)
      BY <1>1, <1>2 DEF BackupInv
    <3>2. \A i \in 1..Len(local[backup].part.dump) : local[backup].part.dump[i] \in Nat
      BY <3>1, DirectoryFields
    <3>. QED  BY <1>1, <2>1, <3>1, <3>2 DEF SoFar, Whole
  <2>4. \A u, c : Whole(u, c)' = Whole(u, c)
    BY DEF Whole
  <2>5. BackupTypes'
    BY <1>1, <2>1, <2>2 DEF BackupTypes
  <2>6. local' = local /\ external' = external /\ backup' = backup /\ rotten' = rotten
    BY <2>1
  <2>. QED  BY <2>3, <2>4, <2>5, <2>6 DEF BackupInv, LocalBad
<1>15. ASSUME NEW t \in Names, NEW f \in RequiredFiles, RotLocal(t, f) PROVE BackupInv'
  <2>1. PICK b : b = [local[t].bundle EXCEPT !.bad = local[t].bundle.bad \cup {f}]
    OBVIOUS
  <2>2. /\ b \in Directory /\ b.dump = local[t].bundle.dump /\ b.counted = local[t].bundle.counted
        /\ b.exists = local[t].bundle.exists
    BY <1>2, <2>1 DEF Directory
  <2>3. /\ local' = [local EXCEPT ![t].bundle = b]
        /\ UNCHANGED <<now, external, backup>>
        /\ rotten \subseteq rotten' /\ <<"local", t>> \in rotten'
    BY <1>1, <1>2, <1>15, <2>1 DEF RotLocal, Disk, Directory
  <2>4. b.exists => Whole(t, b) /\ (b.bad # {} => <<"local", t>> \in rotten')
    <3>1. local[t].bundle.exists => Whole(t, local[t].bundle)
      BY DEF BackupInv
    <3>. QED  BY <2>2, <2>3, <3>1 DEF Whole
  <2>. QED  BY <2>2, <2>3, <2>4, BundlesKeep
<1>16. ASSUME NEW t \in Names, NEW f \in RequiredFiles, RotExternal(t, f) PROVE BackupInv'
  <2>1. PICK b : b = [external[t].bundle EXCEPT !.bad = external[t].bundle.bad \cup {f}]
    OBVIOUS
  <2>2. /\ b \in Directory /\ b.dump = external[t].bundle.dump /\ b.counted = external[t].bundle.counted
        /\ b.exists = external[t].bundle.exists /\ b.have = external[t].bundle.have
    BY <1>2, <2>1 DEF Directory
  <2>3. /\ external' = [external EXCEPT ![t].bundle = b]
        /\ UNCHANGED <<now, local, backup>> /\ rotten' = rotten \cup {<<"external", t>>}
    BY <1>1, <1>2, <1>16, <2>1 DEF RotExternal, Disk, Directory
  <2>4. /\ external' \in Disk
        /\ external'[t].part = external[t].part /\ external'[t].bundle = b
    BY <1>1, <2>2, <2>3 DEF Disk
  <2>5. \A u \in Names : u # t => external'[u] = external[u]
    BY <1>1, <2>3 DEF Disk
  <2>6. external'[t].bundle.exists => external'[t].bundle.have = RequiredFiles /\ Whole(t, external'[t].bundle)
    BY <2>2, <2>4 DEF BackupInv, Whole
  <2>. QED  BY <2>3, <2>4, <2>5, <2>6, ExternalKeeps DEF BackupInv
<1>17. CASE UNCHANGED backupVars
  BY <1>17 DEF backupVars, BackupInv, BackupTypes, Whole, SoFar, LocalBad
<1>. QED
  BY <1>3, <1>4, <1>5, <1>6, <1>7, <1>8, <1>9, <1>10, <1>11, <1>12, <1>13, <1>14, <1>15, <1>16,
     <1>17 DEF BackupNext

\* All dumps of a bundle fall between its name and its counts: where the rows stay for
\* that long, what is restored has the rows that were counted.
LEMMA RestoresAgree ==
  ASSUME NEW t \in Names, NEW b \in Directory, Whole(t, b), b.bad = {}, IsCompleteBundle(b),
         RowsStay(t, b)
  PROVE  VerifyPostgresBackup(b)
<1>1. ASSUME NEW i \in DOMAIN Databases PROVE Counts[i][b.dump[i]] = Counts[i][b.counted]
  <2>1. i \in 1..Len(b.dump)
    BY FilesThereAre DEF Whole
  <2>2. t \in Nat /\ b.counted \in Nat /\ b.dump[i] \in Nat
    BY <2>1, DirectoryFields DEF Names
  <2>3. PICK d \in Nat : d = b.dump[i]
    BY <2>2
  <2>4. t <= d /\ d <= b.counted
    BY <2>1, <2>3 DEF Whole
  <2>5. d \in t..b.counted /\ b.counted \in t..b.counted
    BY <2>2, <2>4
  <2>6. \A u \in t..b.counted : Counts[i][u] = Counts[i][t]
    BY DEF RowsStay
  <2>7. Counts[i][d] = Counts[i][t] /\ Counts[i][b.counted] = Counts[i][t]
    BY <2>5, <2>6
  <2>. QED  BY <2>3, <2>7
<1>. QED  BY <1>1 DEF VerifyPostgresBackup, VerifyBundleChecksums

\* What passes for a backup is one.
LEMMA BackupsSeem == BackupInv => BackupsAreWhatTheySeem
<1>. SUFFICES ASSUME BackupInv PROVE BackupsAreWhatTheySeem
  OBVIOUS
<1>1. /\ local \in Disk /\ external \in Disk /\ now \in Names
      /\ Names \subseteq Nat \ {0} /\ MaxTime \in Nat /\ Names = 1..MaxTime /\ MaxAge \in Nat
      /\ DOMAIN Databases = 1..Len(Databases) /\ Len(Databases) \in Nat
  BY Times, FilesThereAre
<1>2. \A t \in Names : /\ local[t].bundle \in Directory /\ external[t].bundle \in Directory
                       /\ DOMAIN local[t].bundle.dump = 1..Len(local[t].bundle.dump)
                       /\ DOMAIN external[t].bundle.dump = 1..Len(external[t].bundle.dump)
  BY <1>1, DirectoryFields DEF Disk
<1>3. ASSUME NEW disk \in {local, external}, NEW t \in CompleteNames(disk)
      PROVE  LET b == disk[t].bundle IN
             /\ Len(b.dump) = Len(Databases)
             /\ \A i \in DOMAIN b.dump : t <= b.dump[i] /\ b.dump[i] <= b.counted
  <2>1. PICK b : b = disk[t].bundle
    OBVIOUS
  <2>2. t \in Names /\ b.exists
    BY <2>1 DEF CompleteNames, IsCompleteBundle
  <2>3. Whole(t, b) /\ DOMAIN b.dump = 1..Len(b.dump)
    BY <1>2, <2>1, <2>2 DEF BackupInv
  <2>. QED  BY <2>1, <2>3 DEF Whole
<1>4. \A t \in Names : external[t].bundle.exists =>
        /\ IsCompleteBundle(external[t].bundle)
        /\ external[t].bundle.bad # {} => <<"external", t>> \in rotten
  BY DEF BackupInv, IsCompleteBundle
<1>5. ASSUME CheckBackupAge = "OK"
      PROVE  \E t \in CompleteNames(local) : \A i \in DOMAIN Databases : now - local[t].bundle.dump[i] <= MaxAge
  <2> DEFINE C == CompleteNames(local)
             latest == CHOOSE t \in C : \A u \in C : u <= t
  <2>1. C # {} /\ ~(now - latest > MaxAge)
    BY <1>5 DEF CheckBackupAge
  <2>2. C \in SUBSET Nat /\ \A u \in C : u <= MaxTime
    BY <1>1 DEF CompleteNames
  <2>3. \E t \in C : \A u \in C : u <= t
    <3> HIDE DEF C
    <3>. QED  BY <1>1, <2>1, <2>2, MaxIsGreatest
  <2>4. latest \in C
    BY <2>3
  <2>5. PICK t \in C : t = latest
    BY <2>4
  <2>6. t \in Names /\ local[t].bundle.exists
    BY DEF CompleteNames, IsCompleteBundle
  <2>7. Whole(t, local[t].bundle)
    BY <2>6 DEF BackupInv
  <2>8. now - t <= MaxAge
    <3> HIDE DEF latest
    <3>. QED  BY <1>1, <2>1, <2>5, <2>6
  <2>9. ASSUME NEW i \in DOMAIN Databases PROVE now - local[t].bundle.dump[i] <= MaxAge
    <3>1. /\ i \in 1..Len(local[t].bundle.dump) /\ t <= local[t].bundle.dump[i]
          /\ local[t].bundle.dump[i] \in Nat
      BY <1>1, <1>2, <2>6, <2>7, DirectoryFields DEF Whole
    <3>. QED  BY <1>1, <2>6, <2>8, <3>1
  <2>. QED  BY <2>9
<1>6. NoFalseAlarm("local", local)
  <2> SUFFICES ASSUME NEW t \in CompleteNames(local), <<"local", t>> \notin rotten,
                      RowsStay(t, local[t].bundle)
               PROVE  VerifyPostgresBackup(local[t].bundle)
    BY DEF NoFalseAlarm
  <2>1. t \in Names /\ IsCompleteBundle(local[t].bundle)
    BY DEF CompleteNames
  <2>2. Whole(t, local[t].bundle) /\ local[t].bundle.bad = {}
    BY <2>1 DEF BackupInv, LocalBad, IsCompleteBundle
  <2>. QED  BY <1>2, <2>1, <2>2, RestoresAgree
<1>7. NoFalseAlarm("external", external)
  <2> SUFFICES ASSUME NEW t \in CompleteNames(external), <<"external", t>> \notin rotten,
                      RowsStay(t, external[t].bundle)
               PROVE  VerifyPostgresBackup(external[t].bundle)
    BY DEF NoFalseAlarm
  <2>1. t \in Names /\ IsCompleteBundle(external[t].bundle)
    BY DEF CompleteNames
  <2>2. Whole(t, external[t].bundle) /\ external[t].bundle.bad = {}
    BY <2>1 DEF BackupInv, IsCompleteBundle
  <2>. QED  BY <1>2, <2>1, <2>2, RestoresAgree
<1>. QED  BY <1>3, <1>4, <1>5, <1>6, <1>7 DEF BackupsAreWhatTheySeem

-----------------------------------------------------------------------------
(* Names in their order, and what a pruning deletes.                       *)

\* Of any names there is one with any number of newer ones that fits.
LEMMA RanksAreTaken ==
  ASSUME NEW S \in SUBSET Nat, IsFiniteSet(S), NEW r \in 1..Cardinality(S)
  PROVE  \E t \in S : Cardinality({u \in S : u > t}) = r - 1
<1> DEFINE Above(t) == {u \in S : u > t}
           K == {i \in 1..Cardinality(S) : ~\E t \in S : Cardinality(Above(t)) = i - 1}
<1>1. Cardinality(S) \in Nat /\ \A x \in S : x \in Nat
  BY FS_CardinalityType
<1>2. \A t : IsFiniteSet(Above(t)) /\ Cardinality(Above(t)) \in Nat
  BY FS_Subset, FS_CardinalityType
<1>3. \A T \in SUBSET S : T # {} => \E m \in T : \A y \in T : y <= m
  <2>. SUFFICES ASSUME NEW T \in SUBSET S, T # {} PROVE \E m \in T : \A y \in T : y <= m
    OBVIOUS
  <2>1. IsFiniteSet(T)
    BY FS_Subset
  <2>2. PICK f : f = [y \in T |-> y]
    OBVIOUS
  <2>3. f \in [T -> Nat] /\ \A y \in T : f[y] = y
    BY <2>2
  <2>4. PICK m \in T : \A y \in T : f[y] <= f[m]
    BY <2>1, <2>3, SomeIsGreatest
  <2>. QED  BY <2>3, <2>4
<1>4. K = {}
  <2>. SUFFICES ASSUME K # {} PROVE FALSE
    OBVIOUS
  <2>1. K \in SUBSET Nat
    BY <1>1
  <2>2. PICK k : k = Min(K)
    OBVIOUS
  <2>3. k \in K /\ \A y \in K : k <= y
    BY <2>1, <2>2, MinIsLeast
  <2>4. k \in 1..Cardinality(S) /\ ~\E t \in S : Cardinality(Above(t)) = k - 1
    BY <2>3
  <2>5. CASE k = 1
    <3>1. S # {}
      BY <1>1, <2>4, <2>5, FS_EmptySet
    <3>2. PICK m \in S : \A y \in S : y <= m
      BY <1>3, <3>1
    <3>3. \A u \in S : ~(u > m)
      BY <1>1, <3>2
    <3>4. Above(m) = {}
      BY <3>3
    <3>5. Cardinality(Above(m)) = k - 1
      <4> HIDE DEF Above
      <4>. QED  BY <2>5, <3>4, FS_EmptySet
    <3>. QED  BY <2>4, <3>5
  <2>6. CASE k # 1
    <3>1. k - 1 \in 1..Cardinality(S) /\ ~(k <= k - 1) /\ (k - 1) - 1 = k - 2
      BY <1>1, <2>4, <2>6
    <3>2. PICK t \in S : Cardinality(Above(t)) = k - 2
      <4>1. k - 1 \notin K
        BY <2>3, <3>1
      <4>2. \E t \in S : Cardinality(Above(t)) = (k - 1) - 1
        BY <3>1, <4>1
      <4>. QED  BY <3>1, <4>2
    <3>3. t \notin Above(t) /\ Cardinality(Above(t) \cup {t}) = k - 1
      <4>1. t \notin Above(t)
        OBVIOUS
      <4>2. Cardinality(Above(t) \cup {t}) = Cardinality(Above(t)) + 1
        BY <1>2, <4>1, FS_AddElement
      <4>. QED  BY <2>4, <3>2, <4>1, <4>2
    <3> DEFINE T == {u \in S : u < t}
    <3>4. T # {}
      <4>1. S = Above(t) \cup {t} \cup T
        <5>1. \A u \in S : u > t \/ u = t \/ u < t
          BY <1>1
        <5>. QED  BY <5>1
      <4>2. T = {} => Cardinality(S) = k - 1
        <5>1. T = {} => S = Above(t) \cup {t}
          BY <4>1
        <5>. QED  BY <3>3, <5>1
      <4>. QED  BY <1>1, <2>4, <4>2
    <3>5. PICK m \in T : \A y \in T : y <= m
      BY <1>3, <3>4
    <3>6. Above(m) = Above(t) \cup {t}
      <4>1. m < t /\ m \in S
        BY <3>5
      <4>2. \A u \in S : u > m <=> u > t \/ u = t
        <5>. SUFFICES ASSUME NEW u \in S PROVE u > m <=> u > t \/ u = t
          OBVIOUS
        <5>1. u \in Nat /\ m \in Nat /\ t \in Nat
          BY <1>1, <4>1
        <5>2. u < t => u <= m
          BY <3>5
        <5>. QED  BY <4>1, <5>1, <5>2
      <4>. QED  BY <4>2
    <3>. QED  BY <2>4, <3>3, <3>5, <3>6
  <2>. QED  BY <2>5, <2>6
<1>. QED  BY <1>4

\* NewestFirst lists the names, each once and each before the older ones.
LEMMA NewestComeFirst ==
  ASSUME NEW S \in SUBSET Names
  PROVE  /\ IsFiniteSet(S) /\ Cardinality(S) \in Nat
         /\ NewestFirst(S) \in Seq(Names) /\ Len(NewestFirst(S)) = Cardinality(S)
         /\ \A i \in 1..Cardinality(S) :
              /\ NewestFirst(S)[i] \in S
              /\ Cardinality({u \in S : u > NewestFirst(S)[i]}) = i - 1
         /\ \A i, j \in 1..Cardinality(S) : i < j => NewestFirst(S)[i] > NewestFirst(S)[j]
<1>1. MaxTime \in Nat /\ Names \in SUBSET Nat /\ IsFiniteSet(Names)
  BY BackupAssumption, FS_Interval DEF BackupAssumption, Names
<1>2. IsFiniteSet(S) /\ S \in SUBSET Nat
  BY <1>1, FS_Subset
<1>3. PICK n \in Nat : n = Cardinality(S)
  BY <1>2, FS_CardinalityType
<1> DEFINE Above(t) == {u \in S : u > t}
<1>4. PICK s : s = NewestFirst(S)
  OBVIOUS
<1>5. s = [i \in 1..n |-> CHOOSE t \in S : Cardinality(Above(t)) = i - 1]
  BY <1>3, <1>4 DEF NewestFirst
<1>6. \A i \in 1..n : s[i] \in S /\ Cardinality(Above(s[i])) = i - 1
  <2>. SUFFICES ASSUME NEW i \in 1..n PROVE s[i] \in S /\ Cardinality(Above(s[i])) = i - 1
    OBVIOUS
  <2>1. \E t \in S : Cardinality(Above(t)) = i - 1
    BY <1>2, <1>3, RanksAreTaken
  <2> HIDE DEF Above
  <2>2. s[i] = CHOOSE t \in S : Cardinality(Above(t)) = i - 1
    BY <1>5
  <2>. QED  BY <2>1, <2>2
<1>7. s \in Seq(Names) /\ Len(s) = n
  <2>1. s \in [1..n -> Names]
    BY <1>5, <1>6
  <2>2. s \in Seq(Names)
    BY <2>1
  <2>3. DOMAIN s = 1..n
    BY <2>1
  <2>. QED  BY <2>2, <2>3, LenProperties
<1>8. \A i, j \in 1..n : i < j => s[i] > s[j]
  <2>. SUFFICES ASSUME NEW i \in 1..n, NEW j \in 1..n, i < j, ~(s[i] > s[j]) PROVE FALSE
    OBVIOUS
  <2>1. s[i] \in Nat /\ s[j] \in Nat
    BY <1>2, <1>6
  <2>2. Above(s[j]) \in SUBSET Above(s[i])
    <3>1. \A u \in S : u > s[j] => u > s[i]
      <4>1. \A u \in S : u \in Nat
        BY <1>2
      <4>. QED  BY <2>1, <4>1
    <3>. QED  BY <3>1
  <2>3. IsFiniteSet(Above(s[i]))
    BY <1>2, FS_Subset
  <2>4. Cardinality(Above(s[j])) <= Cardinality(Above(s[i]))
    BY <2>2, <2>3, FS_Subset
  <2>5. Cardinality(Above(s[i])) = i - 1 /\ Cardinality(Above(s[j])) = j - 1
    BY <1>6
  <2>. QED  BY <2>4, <2>5
<1>. QED  BY <1>2, <1>3, <1>4, <1>6, <1>7, <1>8

LEMMA OldestAreNames ==
  ASSUME NEW S \in SUBSET Names
  PROVE  OldestFirst(S) \in Seq(Names) /\ Len(OldestFirst(S)) = Cardinality(S)
<1>1. PICK s \in Seq(Names) : s = NewestFirst(S)
  BY NewestComeFirst
<1>2. PICK n \in Nat : n = Len(s) /\ n = Cardinality(S)
  BY <1>1, NewestComeFirst
<1>3. \A i \in 1..n : s[i] \in Names
  BY <1>2, ElementOfSeq
<1>4. OldestFirst(S) = [i \in 1..n |-> s[(n - i) + 1]]
  BY <1>1, <1>2 DEF OldestFirst, Reverse
<1>5. \A i \in 1..n : (n - i) + 1 \in 1..n
  OBVIOUS
<1>6. OldestFirst(S) \in [1..n -> Names]
  BY <1>3, <1>4, <1>5
<1>7. OldestFirst(S) \in Seq(Names)
  BY <1>6
<1>8. DOMAIN OldestFirst(S) = 1..n
  BY <1>6
<1>. QED  BY <1>2, <1>7, <1>8, LenProperties

\* What a pruning has still to delete, what a synchronisation has still to copy, and
\* the bundles that are newer than all the pruning deletes.
Spared == {u \in CompleteNames(local) : \A j \in DOMAIN prune : u > prune[j]}
PruneInv ==
  /\ prune \in Seq(Names)
  /\ prune # << >> => Cardinality(Spared) >= Keep
  /\ backup # 0 => local[backup].part.exists
SyncInv ==
  /\ sync \in [todo : Seq(Names), copying : BOOLEAN]
  /\ sync.copying => sync.todo # << >>
  /\ rotten \subseteq {"local", "external"} \X Names

LEMMA PruneNamesAreOld ==
  /\ PruneNames \in Seq(Names)
  /\ Len(PruneNames) > 0 =>
       Cardinality({u \in CompleteNames(local) : \A j \in DOMAIN PruneNames : u > PruneNames[j]}) = Keep
<1>1. PICK S \in SUBSET Names : S = CompleteNames(local)
  BY DEF CompleteNames
<1>2. PICK n \in Nat : n = Cardinality(S)
  BY <1>1, NewestComeFirst
<1>3. PICK s \in Seq(Names) :
        /\ s = NewestFirst(S) /\ Len(s) = n
        /\ \A i \in 1..n : s[i] \in S /\ Cardinality({u \in S : u > s[i]}) = i - 1
        /\ \A i, j \in 1..n : i < j => s[i] > s[j]
  BY <1>2, NewestComeFirst
<1>4. Keep \in Nat \ {0} /\ Names \in SUBSET Nat
  BY BackupAssumption DEF BackupAssumption, Names
<1>5. PICK p : p = PruneNames /\ p = SubSeq(s, Keep + 1, n)
  BY <1>1, <1>3 DEF PruneNames
<1>6. \A i \in (Keep + 1)..n : s[i] \in Names
  BY <1>3, <1>4
<1>7. /\ p \in Seq(Names) /\ Len(p) = IF Keep + 1 <= n THEN n - (Keep + 1) + 1 ELSE 0
      /\ \A i \in 1..(n - (Keep + 1) + 1) : p[i] = s[(Keep + 1) + i - 1]
  BY <1>4, <1>5, <1>6, SubSeqProperties
<1>8. ASSUME Len(p) > 0
      PROVE  {u \in S : \A j \in DOMAIN p : u > p[j]} = {u \in S : u > s[Keep + 1]}
             /\ Keep + 1 \in 1..n
  <2>1. Keep + 1 \in 1..n /\ DOMAIN p = 1..(n - Keep)
    BY <1>4, <1>7, <1>8, LenProperties
  <2>2. \A j \in DOMAIN p : p[j] = s[Keep + j] /\ Keep + j \in 1..n /\ (j = 1 \/ Keep + 1 < Keep + j)
    BY <1>4, <1>7, <2>1
  <2>3. 1 \in DOMAIN p
    BY <1>4, <2>1
  <2>4. \A j \in DOMAIN p : p[j] \in Nat /\ p[j] <= s[Keep + 1] /\ s[Keep + 1] \in Nat
    <3>. SUFFICES ASSUME NEW j \in DOMAIN p
                  PROVE  p[j] \in Nat /\ p[j] <= s[Keep + 1] /\ s[Keep + 1] \in Nat
      OBVIOUS
    <3>1. s[Keep + j] \in Nat /\ s[Keep + 1] \in Nat
      BY <1>3, <1>4, <2>1, <2>2
    <3>2. j = 1 \/ s[Keep + 1] > s[Keep + j]
      BY <1>3, <2>1, <2>2
    <3>. QED  BY <2>2, <3>1, <3>2
  <2>5. p[1] = s[Keep + 1]
    BY <2>2, <2>3
  <2>6. \A u \in S : (\A j \in DOMAIN p : u > p[j]) <=> u > s[Keep + 1]
    <3>. SUFFICES ASSUME NEW u \in S PROVE (\A j \in DOMAIN p : u > p[j]) <=> u > s[Keep + 1]
      OBVIOUS
    <3>1. u \in Nat
      BY <1>4
    <3>2. u > s[Keep + 1] => \A j \in DOMAIN p : u > p[j]
      BY <2>4, <3>1
    <3>. QED  BY <2>3, <2>5, <3>2
  <2>. QED  BY <2>1, <2>6
<1>9. Len(p) > 0 => Cardinality({u \in S : u > s[Keep + 1]}) = Keep
  BY <1>3, <1>4, <1>8
<1>. QED  BY <1>1, <1>5, <1>7, <1>8, <1>9

\* No step but a deletion takes a name from the complete ones, and a deletion only the
\* one whose turn it is.
LEMMA CompleteStay ==
  ASSUME BackupInv, PruneInv, [BackupNext]_backupVars
  PROVE  /\ \A u \in CompleteNames(local) \ CompleteNames(local)' :
              prune # << >> /\ u = Head(prune)
         /\ \/ prune' \in {prune, << >>}
            \/ prune # << >> /\ prune' = Tail(prune)
            \/ prune = << >> /\ local' = local /\ prune' = PruneNames /\ Len(PruneNames) > 0
         /\ backup' # 0 => local'[backup'].part.exists
<1>1. /\ local \in Disk /\ now \in Names /\ backup \in {0} \cup Names
      /\ backup # 0 => local[backup].part.exists
  BY Times DEF PruneInv
<1> DEFINE Kept == \A u \in Names : IsCompleteBundle(local[u].bundle) =>
                                    IsCompleteBundle(local'[u].bundle)
<1>2. Kept => CompleteNames(local) \ CompleteNames(local)' = {}
  BY DEF CompleteNames
<1>3. CASE StartBackup
  <2>1. local' = [local EXCEPT ![now].part = EmptyDirectory] /\ backup' = now /\ prune' = prune
    BY <1>3 DEF StartBackup
  <2>2. EmptyDirectory.exists
    BY DEF EmptyDirectory, NoDirectory
  <2>3. \A u \in Names : local'[u].bundle = local[u].bundle
    BY <1>1, <2>1 DEF Disk
  <2>4. local'[now].part = EmptyDirectory
    BY <1>1, <2>1 DEF Disk
  <2>. QED  BY <1>2, <2>1, <2>2, <2>3, <2>4
<1>4. CASE DumpDatabase \/ CountRows
  <2>1. PICK x, y : \/ local' = [local EXCEPT ![backup].part.dump = x, ![backup].part.have = y]
                    \/ local' = [local EXCEPT ![backup].part.counted = x, ![backup].part.have = y]
    BY <1>4 DEF DumpDatabase, CountRows
  <2>2. prune' = prune /\ backup' = backup
    BY <1>4 DEF DumpDatabase, CountRows
  <2>3. \A u \in Names : local'[u].bundle = local[u].bundle
    BY <1>1, <2>1 DEF Disk
  <2>4. backup # 0 => local'[backup].part.exists
    <3>1. CASE local' = [local EXCEPT ![backup].part.dump = x, ![backup].part.have = y]
      BY <1>1, <3>1 DEF Disk, Directory
    <3>2. CASE local' = [local EXCEPT ![backup].part.counted = x, ![backup].part.have = y]
      BY <1>1, <3>2 DEF Disk, Directory
    <3>. QED  BY <2>1, <3>1, <3>2
  <2>. QED  BY <1>2, <2>2, <2>3, <2>4
<1>5. CASE PublishBundle
  <2>1. PICK b : b = [local[backup].part EXCEPT !.have = RequiredFiles]
    OBVIOUS
  <2>2. /\ local' = [local EXCEPT ![backup].bundle = b, ![backup].part = NoDirectory]
        /\ prune' = prune /\ backup' = 0 /\ backup \in Names
    BY <1>1, <1>5, <2>1 DEF PublishBundle, Work
  <2>3. IsCompleteBundle(b)
    <3>1. local[backup].part \in Directory
      BY <1>1, <2>2 DEF Disk
    <3>2. backup # 0
      BY <1>5 DEF PublishBundle
    <3>3. local[backup].part.exists
      BY <1>1, <3>2
    <3>4. b.exists = local[backup].part.exists /\ b.have = RequiredFiles
      BY <2>1, <3>1 DEF Directory
    <3>. QED  BY <3>3, <3>4 DEF IsCompleteBundle
  <2>4. \A u \in Names : local'[u].bundle = IF u = backup THEN b ELSE local[u].bundle
    BY <1>1, <2>2 DEF Disk
  <2>. QED  BY <1>2, <2>2, <2>3, <2>4
<1>6. CASE FailBackup \/ KillBackup
  <2>1. /\ local' = local \/ local' = [local EXCEPT ![backup].part = NoDirectory]
        /\ prune' = prune /\ backup' = 0
    BY <1>6 DEF FailBackup, KillBackup
  <2>2. \A u \in Names : local'[u].bundle = local[u].bundle
    BY <1>1, <2>1 DEF Disk
  <2>. QED  BY <1>2, <2>1, <2>2
<1>7. CASE StartPrune
  BY <1>1, <1>2, <1>7 DEF StartPrune
<1>8. CASE PruneBundle \/ KillPrune
  <2>1. PICK t : t = Head(prune)
    OBVIOUS
  <2>2. prune # << >> /\ prune' \in {<< >>, Tail(prune)} /\ backup' = backup
    BY <1>8 DEF PruneBundle, KillPrune
  <2>3. \A u \in Names : u # t => local'[u].bundle = local[u].bundle
    <3>1. \/ local' = local
          \/ \E x : local' = [local EXCEPT ![t].bundle = x]
          \/ \E x : local' = [local EXCEPT ![t].bundle.have = x]
      BY <1>8, <2>1 DEF PruneBundle, KillPrune
    <3>. QED  BY <1>1, <3>1 DEF Disk
  <2>4. \A u \in Names : local'[u].part = local[u].part
    <3>1. \/ local' = local
          \/ \E x : local' = [local EXCEPT ![t].bundle = x]
          \/ \E x : local' = [local EXCEPT ![t].bundle.have = x]
      BY <1>8, <2>1 DEF PruneBundle, KillPrune
    <3>. QED  BY <1>1, <3>1 DEF Disk
  <2>5. \A u \in CompleteNames(local) \ CompleteNames(local)' : u = t
    BY <2>3 DEF CompleteNames
  <2>6. backup' # 0 => local'[backup'].part.exists
    BY <1>1, <2>2, <2>4
  <2>. QED  BY <2>1, <2>2, <2>5, <2>6
<1>9. CASE \E t \in Names, f \in RequiredFiles : RotLocal(t, f)
  <2>1. PICK t \in Names : \E x : local' = [local EXCEPT ![t].bundle.bad = x]
    BY <1>9 DEF RotLocal
  <2>2. PICK x : local' = [local EXCEPT ![t].bundle.bad = x]
    BY <2>1
  <2>3. prune' = prune /\ backup' = backup
    BY <1>9 DEF RotLocal
  <2>4. \A u \in Names : local'[u].part = local[u].part
    BY <1>1, <2>2 DEF Disk
  <2>5. \A u \in Names : /\ local'[u].bundle.exists = local[u].bundle.exists
                         /\ local'[u].bundle.have = local[u].bundle.have
    <3>1. \A u \in Names : local[u].bundle \in Directory
      BY <1>1 DEF Disk
    <3>2. \A u \in Names : \/ local'[u].bundle = local[u].bundle
                           \/ local'[u].bundle = [local[u].bundle EXCEPT !.bad = x]
      BY <1>1, <2>2 DEF Disk
    <3>. QED  BY <3>1, <3>2 DEF Directory
  <2>6. Kept
    BY <2>5 DEF IsCompleteBundle
  <2>7. backup' # 0 => local'[backup'].part.exists
    BY <1>1, <2>3, <2>4
  <2>. QED  BY <1>2, <2>3, <2>6, <2>7
<1>10. CASE \/ \E latestOnly \in BOOLEAN : StartSync(latestOnly)
            \/ ConsiderBundle \/ CopyFile \/ FinishCopy \/ KillSync \/ Tick
            \/ \E t \in Names, f \in RequiredFiles : RotExternal(t, f)
            \/ UNCHANGED backupVars
  <2>1. UNCHANGED <<local, prune, backup>>
    BY <1>10 DEF StartSync, ConsiderBundle, CopyFile, FinishCopy, KillSync, Tick, RotExternal,
                 backupVars
  <2>. QED  BY <1>1, <1>2, <2>1
<1>. QED  BY <1>3, <1>4, <1>5, <1>6, <1>7, <1>8, <1>9, <1>10 DEF BackupNext

\* The bundles that are newer than all that is deleted stay.
LEMMA PruneStep == BackupInv /\ PruneInv /\ [BackupNext]_backupVars => PruneInv'
<1>. SUFFICES ASSUME BackupInv, PruneInv, [BackupNext]_backupVars PROVE PruneInv'
  OBVIOUS
<1>1. Names \in SUBSET Nat /\ IsFiniteSet(Names) /\ Keep \in Nat
  BY BackupAssumption, FS_Interval DEF BackupAssumption, Names
<1>2. IsFiniteSet(Spared') /\ Cardinality(Spared') \in Nat
  <2>1. Spared' \in SUBSET Names
    BY DEF Spared, CompleteNames
  <2>. QED  BY <1>1, <2>1, FS_Subset, FS_CardinalityType
<1>3. ASSUME prune # << >>, prune' \in Seq(Names),
             \A j \in DOMAIN prune' : \E i \in DOMAIN prune : prune'[j] = prune[i]
      PROVE  Cardinality(Spared') >= Keep
  <2>1. Head(prune) = prune[1] /\ 1 \in DOMAIN prune /\ prune[1] \in Nat
    <3>1. prune \in Seq(Names) /\ prune # << >>
      BY <1>3 DEF PruneInv
    <3>2. Len(prune) \in Nat /\ DOMAIN prune = 1..Len(prune) /\ Len(prune) # 0
      BY <3>1, LenProperties, EmptySeq
    <3>3. prune[1] \in Names
      BY <3>1, <3>2, ElementOfSeq
    <3>4. Head(prune) = prune[1]
      BY <3>1
    <3>5. prune[1] \in Nat
      BY <1>1, <3>3
    <3>6. 1 \in DOMAIN prune
      BY <3>2
    <3>. QED  BY <3>4, <3>5, <3>6
  <2>2. Spared \in SUBSET (Spared')
    <3>. SUFFICES ASSUME NEW u \in Spared PROVE u \in Spared'
      OBVIOUS
    <3>1. u \in CompleteNames(local) /\ \A j \in DOMAIN prune : u > prune[j]
      BY DEF Spared
    <3>2. u # Head(prune)
      BY <2>1, <3>1
    <3>3. u \in CompleteNames(local)'
      BY <3>1, <3>2, CompleteStay
    <3>4. \A j \in DOMAIN prune' : u > prune'[j]
      BY <1>3, <3>1
    <3>. QED  BY <3>3, <3>4 DEF Spared
  <2>3. Cardinality(Spared) <= Cardinality(Spared')
    BY <1>2, <2>2, FS_Subset
  <2>4. Cardinality(Spared) >= Keep /\ Cardinality(Spared) \in Nat
    <3>1. Spared \in SUBSET Names
      BY DEF Spared, CompleteNames
    <3>. QED  BY <1>1, <1>3, <3>1, FS_Subset, FS_CardinalityType DEF PruneInv
  <2>. QED  BY <1>1, <1>2, <2>3, <2>4
<1>4. CASE prune' = << >>
  BY <1>4, CompleteStay, EmptySeq DEF PruneInv
<1>5. CASE prune' = prune /\ prune # << >>
  BY <1>3, <1>5, CompleteStay DEF PruneInv
<1>6. CASE prune # << >> /\ prune' = Tail(prune)
  <2>1. /\ prune' \in Seq(Names) /\ Len(prune') = Len(prune) - 1
        /\ \A j \in 1..Len(prune') : prune'[j] = prune[j + 1]
    BY <1>6, HeadTailProperties DEF PruneInv
  <2>2. /\ DOMAIN prune' = 1..Len(prune') /\ DOMAIN prune = 1..Len(prune)
        /\ Len(prune) \in Nat
    BY <2>1, LenProperties DEF PruneInv
  <2>3. \A j \in DOMAIN prune' : \E i \in DOMAIN prune : prune'[j] = prune[i]
    BY <2>1, <2>2
  <2>. QED  BY <1>3, <1>6, <2>1, <2>3, CompleteStay DEF PruneInv
<1>7. CASE prune = << >> /\ local' = local /\ prune' = PruneNames /\ Len(PruneNames) > 0
  <2>1. Spared' = {u \in CompleteNames(local) : \A j \in DOMAIN PruneNames : u > PruneNames[j]}
    BY <1>7 DEF Spared, CompleteNames
  <2>2. Cardinality(Spared') = Keep /\ prune' \in Seq(Names)
    BY <1>7, <2>1, PruneNamesAreOld
  <2>. QED  BY <1>1, <2>2, CompleteStay DEF PruneInv
<1>. QED  BY <1>4, <1>5, <1>6, <1>7, CompleteStay

LEMMA PruneStart == BackupInit => PruneInv /\ SyncInv
<1>. SUFFICES ASSUME BackupInit PROVE PruneInv /\ SyncInv
  OBVIOUS
<1>1. << >> \in Seq(Names)
  BY EmptySeq
<1>2. sync = [todo |-> << >>, copying |-> FALSE]
  BY DEF BackupInit, IdleSync
<1>. QED  BY <1>1, <1>2 DEF BackupInit, PruneInv, SyncInv

\* A synchronisation has names to copy, and copies one of them.
LEMMA SyncStep == SyncInv /\ [BackupNext]_backupVars => SyncInv'
<1>. SUFFICES ASSUME SyncInv, [BackupNext]_backupVars PROVE SyncInv'
  OBVIOUS
<1>1. IdleSync \in [todo : Seq(Names), copying : BOOLEAN] /\ ~IdleSync.copying
  BY EmptySeq DEF IdleSync
<1>2. sync.todo # << >> =>
        NextBundle \in [todo : Seq(Names), copying : BOOLEAN] /\ ~NextBundle.copying
  <2>1. sync.todo # << >> => Tail(sync.todo) \in Seq(Names)
    BY HeadTailProperties DEF SyncInv
  <2>. QED  BY <2>1 DEF NextBundle
<1>3. ASSUME rotten' = rotten,
             sync' = IdleSync \/ (sync.todo # << >> /\ sync' = NextBundle)
      PROVE  SyncInv'
  BY <1>1, <1>2, <1>3 DEF SyncInv
<1>4. CASE \/ StartBackup \/ DumpDatabase \/ CountRows \/ PublishBundle \/ FailBackup \/ KillBackup
           \/ StartPrune \/ PruneBundle \/ KillPrune \/ Tick \/ UNCHANGED backupVars
  <2>1. UNCHANGED <<sync, rotten>>
    BY <1>4 DEF StartBackup, DumpDatabase, CountRows, PublishBundle, FailBackup, KillBackup,
                StartPrune, PruneBundle, KillPrune, Tick, backupVars
  <2>. QED  BY <2>1 DEF SyncInv
<1>5. ASSUME NEW latestOnly \in BOOLEAN, StartSync(latestOnly) PROVE SyncInv'
  <2>1. PICK sorted \in Seq(Names) : sorted = OldestFirst(CompleteNames(local))
    <3>1. CompleteNames(local) \in SUBSET Names
      BY DEF CompleteNames
    <3>. QED  BY <3>1, OldestAreNames
  <2>2. /\ Len(sorted) > 0 /\ rotten' = rotten
        /\ \/ sync' = [todo |-> <<Last(sorted)>>, copying |-> FALSE]
           \/ sync' = [todo |-> sorted, copying |-> FALSE]
    BY <1>5, <2>1 DEF StartSync
  <2>3. Last(sorted) \in Names
    <3>1. Len(sorted) \in 1..Len(sorted)
      BY <2>1, <2>2, LenProperties
    <3>. QED  BY <2>1, <3>1, ElementOfSeq DEF Last
  <2>4. <<Last(sorted)>> \in Seq(Names)
    BY <2>3
  <2>5. sync' \in [todo : Seq(Names), copying : BOOLEAN] /\ sync'.copying = FALSE
    <3>1. PICK names \in Seq(Names) : sync' = [todo |-> names, copying |-> FALSE]
      BY <2>2, <2>4
    <3>. QED  BY <3>1
  <2>6. rotten' \subseteq {"local", "external"} \X Names
    BY <2>2 DEF SyncInv
  <2>. QED  BY <2>5, <2>6 DEF SyncInv
<1>6. CASE ConsiderBundle
  <2>1. rotten' = rotten /\ sync.todo # << >>
    BY <1>6 DEF ConsiderBundle
  <2>2. sync' \in {NextBundle, IdleSync, [sync EXCEPT !.copying = TRUE]}
    BY <1>6 DEF ConsiderBundle
  <2>3. CASE sync' = [sync EXCEPT !.copying = TRUE]
    <3>1. sync' \in [todo : Seq(Names), copying : BOOLEAN] /\ sync'.todo = sync.todo
      BY <2>3 DEF SyncInv
    <3>. QED  BY <2>1, <3>1 DEF SyncInv
  <2>. QED  BY <1>3, <2>1, <2>2, <2>3
<1>7. CASE CopyFile
  <2>1. rotten' = rotten /\ sync.copying /\ sync' \in {sync, NextBundle}
    BY <1>7 DEF CopyFile
  <2>2. CASE sync' = sync
    BY <2>1, <2>2 DEF SyncInv
  <2>3. sync.todo # << >>
    BY <2>1 DEF SyncInv
  <2>. QED  BY <1>3, <2>1, <2>2, <2>3
<1>8. CASE FinishCopy
  <2>1. rotten' = rotten /\ sync.copying /\ sync' = NextBundle
    BY <1>8 DEF FinishCopy
  <2>2. sync.todo # << >>
    BY <2>1 DEF SyncInv
  <2>. QED  BY <1>3, <2>1, <2>2
<1>9. CASE KillSync
  <2>1. sync' = IdleSync /\ rotten' = rotten
    BY <1>9 DEF KillSync
  <2>. QED  BY <1>3, <2>1
<1>10. CASE \E t \in Names, f \in RequiredFiles : RotLocal(t, f) \/ RotExternal(t, f)
  <2>1. PICK t \in Names :
          /\ sync' = sync
          /\ rotten' \in {rotten \cup {<<"local", t>>}, rotten \cup {<<"external", t>>}}
    BY <1>10 DEF RotLocal, RotExternal
  <2>2. rotten \subseteq {"local", "external"} \X Names
    BY DEF SyncInv
  <2>3. rotten' \subseteq {"local", "external"} \X Names
    BY <2>1, <2>2
  <2>. QED  BY <2>1, <2>3 DEF SyncInv
<1>. QED  BY <1>4, <1>5, <1>6, <1>7, <1>8, <1>9, <1>10 DEF BackupNext

LEMMA BackupsAreTyped == BackupInv /\ PruneInv /\ SyncInv => BackupTypeOK
<1>. SUFFICES ASSUME BackupInv, PruneInv, SyncInv PROVE BackupTypeOK
  OBVIOUS
<1>1. now \in Names /\ backup \in 0..MaxTime
  BY Times
<1>2. \A disk \in {local, external}, t \in Names :
        disk[t].bundle \in Directory /\ disk[t].part \in Directory
  BY Times DEF Disk
<1>3. prune \in Seq(Names) /\ sync.todo \in Seq(Names) /\ sync.copying \in BOOLEAN
  BY DEF PruneInv, SyncInv
<1>. QED  BY <1>1, <1>2, <1>3 DEF BackupTypeOK, SyncInv

\* However many bundles there are, whenever they are made and whatever is killed: a
\* bundle that is deleted, or begun to be, leaves Keep complete ones that are newer.
THEOREM PruningLeavesTheNewest == BackupSpec => PruningKeepsTheNewest
<1> DEFINE Leaves == \A t \in CompleteNames(local) \ CompleteNames(local)' :
                       Cardinality({u \in CompleteNames(local)' : u > t}) >= Keep
<1>1. BackupInv /\ PruneInv /\ [BackupNext]_backupVars => Leaves
  <2>. SUFFICES ASSUME BackupInv, PruneInv, [BackupNext]_backupVars,
                       NEW t \in CompleteNames(local) \ CompleteNames(local)'
                PROVE  Cardinality({u \in CompleteNames(local)' : u > t}) >= Keep
    OBVIOUS
  <2>1. prune # << >> /\ t = Head(prune)
    BY CompleteStay
  <2>2. t = prune[1] /\ 1 \in DOMAIN prune
    <3>1. prune \in Seq(Names) /\ prune # << >>
      BY <2>1 DEF PruneInv
    <3>2. Len(prune) \in Nat /\ DOMAIN prune = 1..Len(prune) /\ Len(prune) # 0
      BY <3>1, LenProperties, EmptySeq
    <3>3. Head(prune) = prune[1]
      BY <3>1
    <3>4. 1 \in DOMAIN prune
      BY <3>2
    <3>. QED  BY <2>1, <3>3, <3>4
  <2>3. Names \in SUBSET Nat /\ IsFiniteSet(Names) /\ Keep \in Nat
    BY BackupAssumption, FS_Interval DEF BackupAssumption, Names
  <2>4. t \in Nat
    BY <2>3 DEF CompleteNames
  <2> DEFINE Newer == {u \in CompleteNames(local)' : u > t}
  <2>5. Spared \in SUBSET Newer
    <3>. SUFFICES ASSUME NEW u \in Spared PROVE u \in Newer
      OBVIOUS
    <3>1. u \in CompleteNames(local) /\ u > t /\ u \in Nat
      BY <2>2, <2>3 DEF Spared, CompleteNames
    <3>2. u # t
      BY <2>4, <3>1
    <3>3. u \in CompleteNames(local)'
      BY <2>1, <3>1, <3>2, CompleteStay
    <3>. QED  BY <3>1, <3>3
  <2>6. Newer \in SUBSET Names
    BY DEF CompleteNames
  <2> HIDE DEF Newer
  <2>7. IsFiniteSet(Newer) /\ Cardinality(Newer) \in Nat
    BY <2>3, <2>6, FS_Subset, FS_CardinalityType
  <2>8. Cardinality(Spared) <= Cardinality(Newer) /\ Cardinality(Spared) \in Nat
    <3>1. IsFiniteSet(Spared)
      BY <2>5, <2>7, FS_Subset
    <3>. QED  BY <2>5, <2>7, <3>1, FS_Subset, FS_CardinalityType
  <2>9. Cardinality(Spared) >= Keep
    BY <2>1 DEF PruneInv
  <2>10. Cardinality(Newer) >= Keep
    BY <2>3, <2>7, <2>8, <2>9
  <2>. QED  BY <2>10 DEF Newer
<1>. QED  BY <1>1, BackupStart, BackupStep, PruneStart, PruneStep, PTL DEF BackupSpec, PruningKeepsTheNewest

-----------------------------------------------------------------------------
(* The boot and the local server.                                          *)

\* As long as nothing raced, one server at most runs and no other is about to remove
\* the file that names it; STOP.BAT, once it has read the file, has to do with that one.
RunsOk ==
  /\ \A p, q \in Pids : server[p] \in Running /\ server[q] \in Running => p = q
  /\ \A p \in Pids : server[p] \in {"NAMED", "LISTENING"} =>
       pidFile = p /\ \A q \in Pids : server[q] # "CLEANING"
  /\ stop.at # "OFF" => \A p \in Pids : server[p] \in Running =>
       stop.at = "READ" /\ p = stop.pid /\ server[p] # "SPAWNED"

\* A stage that has not failed so far has found what it looked for, the ports' begins
\* only after one that has not, and where main() does not run no port is looked at.
BootOk ==
  /\ boot.at = "CHECKING" /\ ~boot.failed => \A c \in 1..(boot.check - 1) : Checks[c] \in passed
  /\ boot.at = "CHECKING" /\ boot.check = 4 => ~boot.failed
  /\ boot.at = "LAUNCHED" => \A c \in ChecksMade : Checks[c] \in passed
  /\ ~boot.isMain => boot.check \in 1..4 /\ passed \subseteq {Checks[c] : c \in 1..3}

BootTypes ==
  [at : {"CHECKING", "ABORTED", "LAUNCHED"}, check : DOMAIN Checks, tries : 0..BootTries,
   failed : BOOLEAN, isMain : BOOLEAN]

ServerInv == ServerTypeOK /\ (~raced => RunsOk) /\ BootOk

LEMMA ServerStart == ServerInit => ServerInv
<1>. SUFFICES ASSUME ServerInit PROVE ServerInv
  OBVIOUS
<1>1. 1 \in DOMAIN Checks /\ 0 \in 0..BootTries
  BY ServerAssumption DEF Checks, ServerAssumption
<1>2. ServerTypeOK
  <2>1. boot \in BootTypes
    BY <1>1 DEF ServerInit, StartOfBoot, BootTypes
  <2>. QED  BY <2>1 DEF ServerInit, ServerTypeOK, ServerStates, BootTypes
<1>3. RunsOk
  BY DEF ServerInit, RunsOk, Running
<1>4. BootOk
  BY DEF ServerInit, StartOfBoot, BootOk
<1>. QED  BY <1>2, <1>3, <1>4 DEF ServerInv

\* What is not started does not run, and a server that moves on runs at most as before.
LEMMA ServerKeeps ==
  ASSUME ServerInv, NEW p \in Pids, NEW location \in ServerStates,
         ServerMoves(p, location), pidFile' \in {0} \cup Pids, raced' \in BOOLEAN,
         ~raced' => ~raced,
         ~raced' => (location \in Running => server[p] \in Running),
         ~raced' => (location \in {"NAMED", "LISTENING"} =>
            pidFile' = p /\ \A q \in Pids : server[q] # "CLEANING"),
         ~raced' => (location = "CLEANING" => \A q \in Pids : server[q] \notin {"NAMED", "LISTENING"} \/ q = p),
         ~raced' => (\A q \in Pids : q # p /\ server[q] \in {"NAMED", "LISTENING"} => pidFile' = q),
         location # "SPAWNED"
  PROVE  ServerInv'
<1>1. /\ server' \in [Pids -> ServerStates] /\ server'[p] = location
      /\ \A q \in Pids : q # p => server'[q] = server[q]
      /\ star' = star /\ stop' = stop /\ boot' = boot /\ passed' = passed
  BY DEF ServerMoves, ServerInv, ServerTypeOK
<1>2. ServerTypeOK' /\ BootOk'
  BY <1>1 DEF ServerInv, ServerTypeOK, BootOk, ChecksMade
<1>3. ASSUME ~raced' PROVE RunsOk'
  <2>1. RunsOk
    BY <1>3 DEF ServerInv
  <2>2. \A q \in Pids : server'[q] \in Running => server[q] \in Running
    BY <1>1, <1>3
  <2>3. \A q \in Pids : server'[q] \in {"NAMED", "LISTENING"} =>
          pidFile' = q /\ \A r \in Pids : server'[r] # "CLEANING"
    <3> SUFFICES ASSUME NEW q \in Pids, server'[q] \in {"NAMED", "LISTENING"}, NEW r \in Pids
                 PROVE  pidFile' = q /\ server'[r] # "CLEANING"
      OBVIOUS
    <3>1. CASE q = p
      BY <1>1, <1>3, <3>1
    <3>2. CASE q # p
      BY <1>1, <1>3, <2>1, <3>2 DEF RunsOk
    <3>. QED  BY <3>1, <3>2
  <2>4. \A q \in Pids : server'[q] = "SPAWNED" => server[q] = "SPAWNED"
    BY <1>1
  <2>. QED  BY <1>1, <2>1, <2>2, <2>3, <2>4 DEF RunsOk
<1>. QED  BY <1>2, <1>3 DEF ServerInv

MovedBoot(b, location, check, failed) ==
  [b EXCEPT !.at = location, !.check = check, !.tries = 0, !.failed = failed]

LEMMA BootMoves ==
  ASSUME NEW b \in BootTypes, NEW location \in {"CHECKING", "LAUNCHED"}, NEW check \in DOMAIN Checks,
         NEW failed \in BOOLEAN
  PROVE  LET c == MovedBoot(b, location, check, failed) IN
         /\ c \in BootTypes /\ c.at = location /\ c.check = check /\ c.failed = failed
         /\ c.isMain = b.isMain
<1>1. 0 \in 0..BootTries
  BY ServerAssumption DEF ServerAssumption
<1>. QED  BY <1>1 DEF BootTypes, MovedBoot

\* Where a check leads: to the end of the boot, to STAR.BAT after the last one, or on.
LEMMA StagesFollow ==
  ASSUME boot \in BootTypes, NEW failed \in BOOLEAN, NEW ok, boot' = NextCheck(failed, ok)
  PROVE  /\ boot' \in BootTypes /\ boot'.isMain = boot.isMain
         /\ \/ boot'.at = "ABORTED" /\ boot'.check = boot.check
            \/ boot'.at = "LAUNCHED" /\ boot'.check = boot.check /\ boot.check = 5 /\ ~failed
            \/ /\ boot'.at = "CHECKING" /\ boot.check \in 1..4 /\ boot'.check = boot.check + 1
               /\ boot'.failed = failed /\ (boot.check \in {1, 3} => ~failed)
<1>1. DOMAIN Checks = 1..5 /\ Len(Checks) = 5 /\ LastOfStage = {1, 3, 5} /\ BootTries \in Nat
  BY ServerAssumption DEF Checks, LastOfStage, ServerAssumption
<1>2. boot.check \in 1..5
  BY <1>1 DEF BootTypes
<1>3. CASE boot.check \in LastOfStage /\ failed
  BY <1>3 DEF NextCheck, BootTypes
<1>4. CASE ~(boot.check \in LastOfStage /\ failed) /\ boot.check = 5
  <2>1. PICK c : c = boot'
    OBVIOUS
  <2>2. c = MovedBoot(boot, "LAUNCHED", boot.check, failed)
    BY <1>1, <1>4, <2>1 DEF NextCheck, MovedBoot
  <2>3. boot.check \in DOMAIN Checks
    BY <1>1, <1>2
  <2>4. /\ boot' \in BootTypes /\ boot'.at = "LAUNCHED" /\ boot'.check = boot.check
        /\ boot'.isMain = boot.isMain
    <3>1. /\ c \in BootTypes /\ c.at = "LAUNCHED" /\ c.check = boot.check
          /\ c.isMain = boot.isMain
      BY <2>3, <2>2, BootMoves
    <3>. QED  BY <2>1, <3>1
  <2>. QED  BY <1>1, <1>4, <2>4
<1>5. CASE ~(boot.check \in LastOfStage /\ failed) /\ boot.check # 5
  <2>1. PICK c : c = boot'
    OBVIOUS
  <2>2. c = MovedBoot(boot, "CHECKING", boot.check + 1, failed)
    BY <1>1, <1>5, <2>1 DEF NextCheck, MovedBoot
  <2>3. boot.check + 1 \in DOMAIN Checks /\ boot.check \in 1..4
    BY <1>1, <1>2, <1>5
  <2>4. /\ boot' \in BootTypes /\ boot'.at = "CHECKING" /\ boot'.check = boot.check + 1
        /\ boot'.failed = failed /\ boot'.isMain = boot.isMain
    <3>1. /\ c \in BootTypes /\ c.at = "CHECKING" /\ c.check = boot.check + 1
          /\ c.failed = failed /\ c.isMain = boot.isMain
      BY <2>3, <2>2, BootMoves
    <3>. QED  BY <2>1, <3>1
  <2>5. boot.check \in {1, 3} => ~failed
    BY <1>1, <1>5
  <2>. QED  BY <2>3, <2>4, <2>5
<1>. QED  BY <1>3, <1>4, <1>5

LEMMA ServerStep == ServerInv /\ [ServerNext]_serverVars => ServerInv'
<1>. SUFFICES ASSUME ServerInv, [ServerNext]_serverVars PROVE ServerInv'
  OBVIOUS
<1>1. /\ DOMAIN Checks = 1..5 /\ Len(Checks) = 5 /\ LastOfStage = {1, 3, 5}
      /\ boot.check \in 1..5 /\ boot.tries \in 0..BootTries /\ boot.failed \in BOOLEAN
      /\ boot.at \in {"CHECKING", "ABORTED", "LAUNCHED"} /\ BootTries \in Nat
      /\ boot \in BootTypes /\ boot.isMain \in BOOLEAN /\ PortChecks = {4, 5}
  <2>1. DOMAIN Checks = 1..5 /\ Len(Checks) = 5 /\ LastOfStage = {1, 3, 5} /\ PortChecks = {4, 5}
    BY DEF Checks, LastOfStage, PortChecks
  <2>2. boot \in BootTypes
    BY DEF ServerInv, ServerTypeOK, BootTypes
  <2>. QED  BY <2>1, <2>2, ServerAssumption DEF ServerAssumption, BootTypes
<1>2. ASSUME CheckPasses PROVE ServerInv'
  <2>1. /\ UNCHANGED <<server, pidFile, star, stop, raced>> /\ boot.at = "CHECKING"
        /\ boot.check \in {4, 5} => boot.isMain
        /\ boot' = NextCheck(boot.failed, TRUE) /\ passed' = passed \cup {Checks[boot.check]}
    BY <1>1, <1>2 DEF CheckPasses, Checking
  <2>2. /\ boot' \in BootTypes /\ boot'.isMain = boot.isMain
        /\ \/ boot'.at = "ABORTED" /\ boot'.check = boot.check
           \/ boot'.at = "LAUNCHED" /\ boot'.check = boot.check /\ boot.check = 5 /\ ~boot.failed
           \/ /\ boot'.at = "CHECKING" /\ boot.check \in 1..4 /\ boot'.check = boot.check + 1
              /\ boot'.failed = boot.failed /\ (boot.check \in {1, 3} => ~boot.failed)
    BY <1>1, <2>1, StagesFollow
  <2>3. ~boot.failed => \A c \in 1..boot.check : Checks[c] \in passed'
    BY <1>1, <2>1 DEF ServerInv, BootOk
  <2>4. boot'.at = "CHECKING" /\ ~boot'.failed => \A c \in 1..(boot'.check - 1) : Checks[c] \in passed'
    BY <1>1, <2>2, <2>3
  <2>5. boot'.at = "CHECKING" /\ boot'.check = 4 => ~boot'.failed
    BY <1>1, <2>2
  <2>6. boot'.at = "LAUNCHED" => \A c \in DOMAIN Checks : Checks[c] \in passed'
    BY <1>1, <2>2, <2>3
  <2>7. ~boot'.isMain => boot'.check \in 1..4 /\ passed' \subseteq {Checks[c] : c \in 1..3}
    <3> SUFFICES ASSUME ~boot'.isMain
                 PROVE  boot'.check \in 1..4 /\ passed' \subseteq {Checks[c] : c \in 1..3}
      OBVIOUS
    <3>1. boot.check \in 1..3 /\ passed \subseteq {Checks[c] : c \in 1..3}
      <4>1. ~boot.isMain
        BY <2>2
      <4>2. boot.check \in 1..4 /\ passed \subseteq {Checks[c] : c \in 1..3}
        BY <4>1 DEF ServerInv, BootOk
      <4>3. boot.check \notin {4, 5}
        BY <2>1, <4>1
      <4>. QED  BY <4>2, <4>3
    <3>2. passed' \subseteq {Checks[c] : c \in 1..3}
      BY <2>1, <3>1
    <3>3. boot'.check \in 1..4
      <4>1. boot'.check \in {boot.check, boot.check + 1}
        BY <2>2
      <4>. QED  BY <3>1, <4>1
    <3>. QED  BY <3>2, <3>3
  <2>8. BootOk'
    BY <2>4, <2>5, <2>6, <2>7 DEF BootOk, ChecksMade
  <2>9. passed' \subseteq {Checks[c] : c \in DOMAIN Checks}
    BY <1>1, <2>1 DEF ServerInv, ServerTypeOK
  <2>. QED  BY <2>1, <2>2, <2>8, <2>9 DEF ServerInv, ServerTypeOK, RunsOk, BootTypes
<1>3. ASSUME CheckFails PROVE ServerInv'
  <2>1. /\ UNCHANGED <<server, pidFile, star, stop, raced, passed>> /\ boot.at = "CHECKING"
        /\ boot.check \in {4, 5} => boot.isMain
        /\ \/ boot.tries + 1 < BootTries /\ boot' = [boot EXCEPT !.tries = boot.tries + 1]
           \/ boot' = NextCheck(TRUE, FALSE)
    BY <1>1, <1>3 DEF CheckFails, Checking
  <2>2. CASE boot.tries + 1 < BootTries /\ boot' = [boot EXCEPT !.tries = boot.tries + 1]
    <3>1. /\ boot' \in BootTypes /\ boot'.at = boot.at /\ boot'.check = boot.check
          /\ boot'.failed = boot.failed /\ boot'.isMain = boot.isMain
      BY <1>1, <2>2 DEF BootTypes
    <3>2. BootOk'
      BY <2>1, <3>1 DEF ServerInv, BootOk, ChecksMade
    <3>. QED  BY <2>1, <3>1, <3>2 DEF ServerInv, ServerTypeOK, RunsOk, BootTypes
  <2>3. CASE boot' = NextCheck(TRUE, FALSE)
    <3>1. /\ boot' \in BootTypes /\ boot'.isMain = boot.isMain
          /\ \/ boot'.at = "ABORTED" /\ boot'.check = boot.check
             \/ /\ boot'.at = "CHECKING" /\ boot.check \in 1..4 /\ boot'.check = boot.check + 1
                /\ boot'.failed = TRUE /\ boot.check \notin {1, 3}
      BY <1>1, <2>3, StagesFollow
    <3>2. ~boot'.isMain => boot'.check \in 1..4 /\ passed \subseteq {Checks[c] : c \in 1..3}
      BY <1>1, <2>1, <3>1 DEF ServerInv, BootOk
    <3>3. BootOk'
      BY <1>1, <2>1, <3>1, <3>2 DEF BootOk
    <3>. QED  BY <2>1, <3>1, <3>3 DEF ServerInv, ServerTypeOK, RunsOk, BootTypes
  <2>. QED  BY <2>1, <2>2, <2>3
<1>18. ASSUME WaitDoesNothing PROVE ServerInv'
  <2>1. /\ UNCHANGED <<server, pidFile, star, stop, raced, passed>> /\ boot.at = "CHECKING"
        /\ boot.check \in {4, 5} /\ ~boot.isMain /\ boot' = [boot EXCEPT !.at = "LAUNCHED"]
    BY <1>1, <1>18 DEF WaitDoesNothing
  <2>2. /\ boot' \in BootTypes /\ boot'.at = "LAUNCHED" /\ boot'.check = boot.check
        /\ boot'.isMain = boot.isMain
    BY <1>1, <2>1 DEF BootTypes
  <2>3. boot.check = 4 /\ ~boot.failed /\ passed \subseteq {Checks[c] : c \in 1..3}
    BY <1>1, <2>1 DEF ServerInv, BootOk
  <2>4. \A c \in 1..3 : Checks[c] \in passed
    BY <2>1, <2>3 DEF ServerInv, BootOk
  <2>5. ChecksMade' = 1..3
    <3>1. DOMAIN Checks \ PortChecks = 1..3
      BY <1>1
    <3>. QED  BY <2>1, <2>2, <3>1 DEF ChecksMade
  <2>6. BootOk'
    BY <2>1, <2>2, <2>3, <2>4, <2>5 DEF BootOk
  <2>. QED  BY <2>1, <2>2, <2>6 DEF ServerInv, ServerTypeOK, RunsOk, BootTypes
<1>4. ASSUME NEW s \in Starters, ProbeHealth(s) \/ PollHealth(s) PROVE ServerInv'
  BY <1>4 DEF ProbeHealth, PollHealth, ServerInv, ServerTypeOK, RunsOk, BootOk, ChecksMade
<1>5. ASSUME NEW s \in Starters, SpawnServer(s) PROVE ServerInv'
  <2>1. /\ UNCHANGED <<pidFile, stop, boot, passed>>
        /\ raced' = (raced \/ stop.at # "OFF" \/ \E p \in Pids : server[p] \in Running)
        /\ star' = [star EXCEPT ![s] = "POLLING"]
    BY <1>5 DEF SpawnServer
  <2>2. PICK p \in Pids : server[p] = "NONE" /\ server' = [server EXCEPT ![p] = "SPAWNED"]
    BY <1>5 DEF SpawnServer
  <2>3. ServerTypeOK' /\ BootOk'
    BY <2>1, <2>2 DEF ServerInv, ServerTypeOK, BootOk, ChecksMade, ServerStates
  <2>4. ~raced' => RunsOk'
    BY <2>1, <2>2 DEF ServerInv, ServerTypeOK, RunsOk, Running
  <2>. QED  BY <2>3, <2>4 DEF ServerInv
<1>6. ASSUME RunAgain PROVE ServerInv'
  BY <1>6 DEF RunAgain, ServerInv, ServerTypeOK, RunsOk, BootOk, ChecksMade
<1>7. ASSUME NEW p \in Pids, WritePidFile(p) PROVE ServerInv'
  <2>1. /\ server[p] = "SPAWNED" /\ pidFile' = p /\ ServerMoves(p, "NAMED")
        /\ raced' = (raced \/ \E q \in Pids : server[q] = "CLEANING")
    BY <1>7 DEF WritePidFile
  <2>2. ~raced => \A q \in Pids : server[q] \in Running => q = p
    BY <2>1 DEF ServerInv, RunsOk, Running
  <2>. QED  BY <2>1, <2>2, ServerKeeps DEF ServerInv, ServerTypeOK, ServerStates, Running
<1>8. ASSUME NEW p \in Pids, Listen(p) PROVE ServerInv'
  <2>1. /\ server[p] = "NAMED" /\ UNCHANGED <<pidFile, raced>>
        /\ \E location \in {"REFUSED", "LISTENING"} : ServerMoves(p, location)
    BY <1>8 DEF Listen
  <2>. QED  BY <2>1, ServerKeeps DEF ServerInv, ServerTypeOK, ServerStates, Running, RunsOk
<1>9. ASSUME NEW p \in Pids, CloseServer(p) PROVE ServerInv'
  <2>1. server[p] = "LISTENING" /\ UNCHANGED <<pidFile, raced>> /\ ServerMoves(p, "CLOSING")
    BY <1>9 DEF CloseServer
  <2>. QED  BY <2>1, ServerKeeps DEF ServerInv, ServerTypeOK, ServerStates, Running, RunsOk
<1>10. ASSUME NEW p \in Pids, Cleanup(p) PROVE ServerInv'
  <2>1. /\ server[p] \in {"CLOSING", "REFUSED"} /\ UNCHANGED <<pidFile, raced>>
        /\ \/ pidFile = p /\ ServerMoves(p, "CLEANING")
           \/ ServerMoves(p, "GONE")
    BY <1>10 DEF Cleanup
  <2>. QED  BY <2>1, ServerKeeps DEF ServerInv, ServerTypeOK, ServerStates, Running, RunsOk
<1>11. ASSUME NEW p \in Pids, RemovePidFile(p) PROVE ServerInv'
  <2>1. server[p] = "CLEANING" /\ pidFile' = 0 /\ raced' = raced /\ ServerMoves(p, "GONE")
    BY <1>11 DEF RemovePidFile
  <2>. QED  BY <2>1, ServerKeeps DEF ServerInv, ServerTypeOK, ServerStates, Running, RunsOk
<1>12. ASSUME Restart PROVE ServerInv'
  <2>1. /\ server' = [p \in Pids |-> IF server[p] = "NONE" THEN "NONE" ELSE "GONE"]
        /\ star' = [s \in Starters |-> "OFF"] /\ stop' = [at |-> "OFF", pid |-> 0]
        /\ raced' = FALSE /\ passed' = {} /\ pidFile' = pidFile
        /\ boot' = [at |-> "CHECKING", check |-> 1, tries |-> 0, failed |-> FALSE,
                     isMain |-> boot.isMain]
    BY <1>12 DEF Restart, StartOfBoot
  <2>2. \A p \in Pids : server'[p] \in {"NONE", "GONE"}
    BY <2>1
  <2>3. boot' \in BootTypes
    <3>1. 1 \in DOMAIN Checks /\ 0 \in 0..BootTries
      BY <1>1
    <3>. QED  BY <1>1, <2>1, <3>1 DEF BootTypes
  <2>4. ServerTypeOK'
    BY <2>1, <2>3 DEF ServerInv, ServerTypeOK, ServerStates, BootTypes
  <2>5. RunsOk'
    BY <2>1, <2>2 DEF RunsOk, Running
  <2>6. BootOk'
    <3>1. boot'.check = 1 /\ boot'.at = "CHECKING" /\ 1..(1 - 1) = {}
      BY <2>1
    <3>2. passed' = {} /\ boot'.check \in 1..4
      BY <2>1
    <3>. QED  BY <3>1, <3>2 DEF BootOk
  <2>. QED  BY <2>4, <2>5, <2>6 DEF ServerInv
<1>13. ASSUME StopReads PROVE ServerInv'
  <2>1. /\ UNCHANGED <<server, pidFile, star, boot, passed>> /\ stop.at = "OFF"
        /\ raced' = (raced \/ \E p \in Pids : server[p] = "SPAWNED")
        /\ stop' = IF pidFile = 0 THEN [at |-> "ENDED", pid |-> 0] ELSE [at |-> "READ", pid |-> pidFile]
    BY <1>13 DEF StopReads, StopMoves
  <2>2. ServerTypeOK' /\ BootOk'
    BY <2>1 DEF ServerInv, ServerTypeOK, BootOk, ChecksMade
  <2>3. \A p \in Pids : p # 0
    BY ServerAssumption DEF ServerAssumption
  <2>4. ~raced' => RunsOk'
    BY <2>1, <2>3 DEF ServerInv, RunsOk, Running
  <2>. QED  BY <2>2, <2>4 DEF ServerInv
<1>14. ASSUME StopKills PROVE ServerInv'
  <2>1. /\ UNCHANGED <<pidFile, raced, star, boot, passed>> /\ stop.at = "READ"
        /\ server' = [p \in Pids |-> IF p = stop.pid /\ server[p] # "NONE" THEN "GONE" ELSE server[p]]
        /\ stop' = [at |-> "KILLED", pid |-> stop.pid]
    BY <1>14 DEF StopKills, StopMoves
  <2>2. ServerTypeOK' /\ BootOk'
    BY <2>1 DEF ServerInv, ServerTypeOK, BootOk, ChecksMade, ServerStates
  <2>3. \A p \in Pids : server'[p] \in {server[p], "GONE"}
    BY <2>1
  <2>4. ~raced' => \A p \in Pids : server'[p] \notin Running
    BY <2>1 DEF ServerInv, RunsOk, Running
  <2>. QED  BY <2>1, <2>2, <2>4 DEF ServerInv, RunsOk, Running
<1>15. ASSUME StopRemoves PROVE ServerInv'
  <2>1. /\ UNCHANGED <<server, raced, star, boot, passed>> /\ stop.at = "KILLED"
        /\ pidFile' = 0 /\ stop' = [at |-> "ENDED", pid |-> 0]
    BY <1>15 DEF StopRemoves, StopMoves
  <2>. QED  BY <2>1 DEF ServerInv, ServerTypeOK, RunsOk, BootOk, ChecksMade, Running
<1>16. ASSUME StopAgain PROVE ServerInv'
  <2>1. /\ UNCHANGED <<server, pidFile, raced, star, boot, passed>>
        /\ stop' = [at |-> "OFF", pid |-> 0]
    BY <1>16 DEF StopAgain, StopMoves
  <2>. QED  BY <2>1 DEF ServerInv, ServerTypeOK, RunsOk, BootOk, ChecksMade
<1>17. CASE UNCHANGED serverVars
  BY <1>17 DEF serverVars, ServerInv, ServerTypeOK, RunsOk, BootOk, ChecksMade
<1>. QED
  BY <1>2, <1>3, <1>4, <1>5, <1>6, <1>7, <1>8, <1>9, <1>10, <1>11, <1>12, <1>13, <1>14, <1>15,
     <1>16, <1>17, <1>18 DEF ServerNext

LEMMA WhatServesIsNamed == ServerInv => WhatServesCanBeStopped /\ BootWaitsForItsChecks
<1>. SUFFICES ASSUME ServerInv PROVE WhatServesCanBeStopped /\ BootWaitsForItsChecks
  OBVIOUS
<1>1. WhatServesCanBeStopped
  BY DEF ServerInv, RunsOk, WhatServesCanBeStopped, Online, Running
<1>2. ASSUME boot.at = "LAUNCHED" PROVE passed = {Checks[c] : c \in ChecksMade}
  <2>1. \A c \in ChecksMade : Checks[c] \in passed
    BY <1>2 DEF ServerInv, BootOk
  <2>2. CASE boot.isMain
    BY <2>1, <2>2 DEF ServerInv, ServerTypeOK, ChecksMade
  <2>3. CASE ~boot.isMain
    <3>1. DOMAIN Checks \ PortChecks = 1..3
      <4>1. DOMAIN Checks = 1..5
        BY DEF Checks
      <4>. QED  BY <4>1 DEF PortChecks
    <3>. QED  BY <2>1, <2>3, <3>1 DEF ServerInv, BootOk, ChecksMade
  <2>. QED  BY <2>2, <2>3
<1>. QED  BY <1>1, <1>2 DEF BootWaitsForItsChecks

\* The scripts of the machine deliver, for any databases with any rows, processes and
\* ages: backups are what they seem to be and verification raises no false alarm, what
\* serves can be stopped, and the boot waits for what it checks, wherever the project lies.
THEOREM ScriptsDeliverWhatTheySay == Spec => []ScriptsDeliver
<1>1. Init => BackupInv /\ ServerInv
  BY BackupStart, ServerStart DEF Init
<1>2. BackupInv /\ ServerInv /\ [Next]_vars => (BackupInv /\ ServerInv)'
  <2>. SUFFICES ASSUME BackupInv, ServerInv, [Next]_vars PROVE BackupInv' /\ ServerInv'
    OBVIOUS
  <2>1. [BackupNext]_backupVars
    BY DEF Next, BackupsPart, MonitoringPart, BootstrapPart, AccessPart, ToolsPart, GatewayPart,
           ConsolePart, ServerPart, SessionsPart, RightsPart, vars, Watching
  <2>2. [ServerNext]_serverVars
    BY DEF Next, BackupsPart, MonitoringPart, BootstrapPart, AccessPart, ToolsPart, GatewayPart,
           ConsolePart, ServerPart, SessionsPart, RightsPart, vars, machineVars
  <2>. QED  BY <2>1, <2>2, BackupStep, ServerStep
<1>3. BackupInv /\ ServerInv => ScriptsDeliver
  BY BackupsSeem, WhatServesIsNamed DEF ScriptsDeliver
<1>. QED  BY <1>1, <1>2, <1>3, PTL DEF Spec

-----------------------------------------------------------------------------
(* Scores that grow old.                                                   *)

\* What is halved from one half-life to the next.
IsWeight(g) == g = [n \in 0..HealthWindow |-> IF n = 0 THEN 1 ELSE 2 * g[n - 1]]

LEMMA SomeWeight == \E g : IsWeight(g)
<1>1. PICK m \in Nat : m = HealthWindow
  BY MonitoringAssumption DEF MonitoringAssumption
<1>2. PICK F : F = [p \in (1..m) \X Nat |-> 2 * p[2]]
  OBVIOUS
<1>3. F \in [(1..m) \X Nat -> Nat] /\ \A i \in 1..m : \A v \in Nat : F[<<i, v>>] = 2 * v
  BY <1>2
<1>4. PICK g : Steps(m, Nat, 1, F, g)
  BY <1>3, StepByStep
<1>5. g \in [0..m -> Nat] /\ g[0] = 1 /\ \A i \in 1..m : g[i] = F[<<i, g[i - 1]>>]
  BY <1>4 DEF Steps
<1>6. \A i \in 0..m : g[i] = IF i = 0 THEN 1 ELSE 2 * g[i - 1]
  <2> SUFFICES ASSUME NEW i \in 0..m, i # 0
               PROVE  g[i] = 2 * g[i - 1]
    BY <1>5
  <2>1. i \in 1..m /\ i - 1 \in 0..m
    OBVIOUS
  <2>. QED  BY <1>3, <1>5, <2>1
<1>7. g = [i \in 0..m |-> g[i]]
  BY <1>5
<1>. QED  BY <1>1, <1>6, <1>7 DEF IsWeight

LEMMA WeightsDouble ==
  /\ HealthWindow \in Nat
  /\ \A n \in 0..HealthWindow : Weight[n] \in Nat
  /\ \A n \in 1..HealthWindow : Weight[n] = 2 * Weight[n - 1]
<1>1. PICK m \in Nat : m = HealthWindow
  BY MonitoringAssumption DEF MonitoringAssumption
<1>2. IsWeight(Weight)
  <2>1. Weight = CHOOSE g : IsWeight(g)
    BY DEF Weight, IsWeight
  <2>. QED  BY <2>1, SomeWeight
<1>3. \A n \in 0..m : Weight[n] = IF n = 0 THEN 1 ELSE 2 * Weight[n - 1]
  BY <1>1, <1>2 DEF IsWeight
<1> DEFINE K == {n \in 0..m : Weight[n] \notin Nat}
<1>4. K = {}
  <2> SUFFICES ASSUME K # {}
               PROVE  FALSE
    OBVIOUS
  <2>1. K \in SUBSET Nat
    OBVIOUS
  <2> DEFINE k == Min(K)
  <2>2. k \in K /\ \A l \in K : k <= l
    BY <2>1, MinIsLeast
  <2> HIDE DEF k
  <2>3. k \in 0..m /\ Weight[k] \notin Nat
    BY <2>2
  <2>4. k # 0
    BY <1>3, <2>3
  <2>5. k - 1 \in 0..m /\ ~(k <= k - 1)
    BY <2>3, <2>4
  <2>6. Weight[k - 1] \in Nat
    BY <2>2, <2>5
  <2>7. Weight[k] = 2 * Weight[k - 1]
    BY <1>3, <2>3, <2>4
  <2>. QED  BY <2>3, <2>6, <2>7
<1>5. \A n \in 1..m : n \in 0..m /\ n # 0
  OBVIOUS
<1>. QED  BY <1>1, <1>3, <1>4, <1>5

\* The sum of the first parts.
IsTotal(n, parts, g) == g = [i \in 0..n |-> IF i = 0 THEN 0 ELSE g[i - 1] + parts[i]]

LEMMA SomeTotal ==
  ASSUME NEW n \in Nat, NEW parts \in [1..n -> Nat]
  PROVE  \E g : IsTotal(n, parts, g)
<1>1. PICK F : F = [p \in (1..n) \X Nat |-> p[2] + parts[p[1]]]
  OBVIOUS
<1>2. \A i \in 1..n : \A v \in Nat : F[<<i, v>>] = v + parts[i] /\ v + parts[i] \in Nat
  BY <1>1
<1>3. F \in [(1..n) \X Nat -> Nat]
  BY <1>1, <1>2
<1>4. PICK g : Steps(n, Nat, 0, F, g)
  BY <1>3, StepByStep
<1>5. g \in [0..n -> Nat] /\ g[0] = 0 /\ \A i \in 1..n : g[i] = F[<<i, g[i - 1]>>]
  BY <1>4 DEF Steps
<1>6. \A i \in 0..n : g[i] = IF i = 0 THEN 0 ELSE g[i - 1] + parts[i]
  <2> SUFFICES ASSUME NEW i \in 0..n, i # 0
               PROVE  g[i] = g[i - 1] + parts[i]
    BY <1>5
  <2>1. i \in 1..n /\ i - 1 \in 0..n
    OBVIOUS
  <2>. QED  BY <1>2, <1>5, <2>1
<1>7. g = [i \in 0..n |-> g[i]]
  BY <1>5
<1>. QED  BY <1>6, <1>7 DEF IsTotal

\* Twice the parts make twice the sum.
AreTwice(n, more, less) ==
  more \in [1..n -> Nat] /\ less \in [1..n -> Nat] /\ \A i \in 1..n : more[i] = 2 * less[i]
IsDouble(n, g, h) == h[n] \in Nat /\ g[n] = 2 * h[n]

LEMMA TotalsDouble ==
  ASSUME NEW n \in Nat, NEW more, NEW less, NEW g, NEW h,
         AreTwice(n, more, less), IsTotal(n, more, g), IsTotal(n, less, h)
  PROVE  IsDouble(n, g, h)
<1>1. \A i \in 0..n : /\ g[i] = IF i = 0 THEN 0 ELSE g[i - 1] + more[i]
                      /\ h[i] = IF i = 0 THEN 0 ELSE h[i - 1] + less[i]
  BY DEF IsTotal
<1> DEFINE K == {i \in 0..n : ~(h[i] \in Nat /\ g[i] = 2 * h[i])}
<1>2. K = {}
  <2> SUFFICES ASSUME K # {}
               PROVE  FALSE
    OBVIOUS
  <2>1. K \in SUBSET Nat
    OBVIOUS
  <2> DEFINE k == Min(K)
  <2>2. k \in K /\ \A l \in K : k <= l
    BY <2>1, MinIsLeast
  <2> HIDE DEF k
  <2>3. k \in 0..n /\ ~(h[k] \in Nat /\ g[k] = 2 * h[k])
    BY <2>2
  <2>4. k # 0
    BY <1>1, <2>3
  <2>5. k \in 1..n /\ k - 1 \in 0..n /\ ~(k <= k - 1)
    BY <2>3, <2>4
  <2>6. h[k - 1] \in Nat /\ g[k - 1] = 2 * h[k - 1]
    BY <2>2, <2>5
  <2>7. g[k] = g[k - 1] + more[k] /\ h[k] = h[k - 1] + less[k]
    BY <1>1, <2>3, <2>4
  <2>8. less[k] \in Nat /\ more[k] = 2 * less[k]
    BY <2>5 DEF AreTwice
  <2>9. PICK a \in Nat, b \in Nat : a = h[k - 1] /\ b = less[k]
    BY <2>6, <2>8
  <2>10. h[k] = a + b /\ g[k] = 2 * a + 2 * b
    BY <2>6, <2>7, <2>8, <2>9
  <2>11. a + b \in Nat /\ 2 * a + 2 * b = 2 * (a + b)
    OBVIOUS
  <2>. QED  BY <2>3, <2>10, <2>11
<1>. QED  BY <1>2 DEF IsDouble

\* The sums of a score at some time.
EventRecords == [status : ComponentStatuses \cup EngineStatuses, at : Nat]
RecentAt(events, t) ==
  {i \in DOMAIN events : t - HealthWindow <= events[i].at /\ events[i].at <= t}
SumAt(events, worth, t) ==
  LET sum[n \in 0..Len(events)] ==
        IF n = 0 THEN 0
        ELSE sum[n - 1] + IF n \in RecentAt(events, t)
                          THEN worth[events[n].status] * Weight[HealthWindow - (t - events[n].at)]
                          ELSE 0
  IN sum[Len(events)]
PartsAt(events, worth, t) ==
  [n \in 1..Len(events) |->
     IF n \in RecentAt(events, t)
     THEN worth[events[n].status] * Weight[HealthWindow - (t - events[n].at)] ELSE 0]

LEMMA SumIsTotal ==
  ASSUME NEW events \in Seq(EventRecords), NEW worth, NEW t,
         PartsAt(events, worth, t) \in [1..Len(events) -> Nat]
  PROVE  \E g : /\ IsTotal(Len(events), PartsAt(events, worth, t), g)
                /\ SumAt(events, worth, t) = g[Len(events)]
<1>1. PICK n \in Nat : n = Len(events)
  BY LenProperties
<1> DEFINE IsSum(g) ==
      g = [i \in 0..Len(events) |->
             IF i = 0 THEN 0
             ELSE g[i - 1] + IF i \in RecentAt(events, t)
                             THEN worth[events[i].status] * Weight[HealthWindow - (t - events[i].at)]
                             ELSE 0]
           sum == CHOOSE g : IsSum(g)
<1>2. SumAt(events, worth, t) = sum[Len(events)]
  BY DEF SumAt
<1>3. \A g : IsSum(g) <=> IsTotal(Len(events), PartsAt(events, worth, t), g)
  <2> TAKE g
  <2>1. \A i \in 0..n : i # 0 => PartsAt(events, worth, t)[i] =
          IF i \in RecentAt(events, t)
          THEN worth[events[i].status] * Weight[HealthWindow - (t - events[i].at)] ELSE 0
    BY <1>1 DEF PartsAt
  <2>. QED  BY <1>1, <2>1 DEF IsTotal
<1>4. \E g : IsTotal(Len(events), PartsAt(events, worth, t), g)
  BY <1>1, SomeTotal
<1> HIDE DEF IsSum
<1>5. IsSum(sum)
  BY <1>3, <1>4
<1>. QED  BY <1>2, <1>3, <1>5

\* As long as no event leaves the window, all that it adds up to is halved.
LEMMA SumsHalve ==
  ASSUME NEW events \in Seq(EventRecords), NEW t \in Nat, NEW u \in Nat, u = t + 1,
         NEW worth \in [ComponentStatuses \cup EngineStatuses -> {0, 2, 3}],
         RecentAt(events, u) = RecentAt(events, t)
  PROVE  /\ SumAt(events, worth, u) \in Nat
         /\ SumAt(events, worth, t) = 2 * SumAt(events, worth, u)
<1>1. PICK n \in Nat : n = Len(events)
  BY LenProperties
<1>2. PICK more, less : more = PartsAt(events, worth, t) /\ less = PartsAt(events, worth, u)
  OBVIOUS
<1>3. ASSUME NEW i \in 1..n
      PROVE  less[i] \in Nat /\ more[i] \in Nat /\ more[i] = 2 * less[i]
  <2>1. events[i] \in EventRecords /\ i \in DOMAIN events
    BY <1>1, LenProperties, ElementOfSeq
  <2>2. CASE i \notin RecentAt(events, t)
    BY <1>1, <1>2, <1>3, <2>2 DEF PartsAt
  <2>3. CASE i \in RecentAt(events, t)
    <3>1. PICK a \in Nat, w \in {0, 2, 3} : a = events[i].at /\ w = worth[events[i].status]
      BY <2>1 DEF EventRecords
    <3>2. i \in RecentAt(events, u)
      BY <2>3
    <3>3. t - HealthWindow <= a /\ a <= t /\ u - HealthWindow <= a /\ a <= u
      BY <2>3, <3>1, <3>2 DEF RecentAt
    <3>4. PICK j : j = HealthWindow - (t - a) /\ j \in 1..HealthWindow
                   /\ j - 1 = HealthWindow - (u - a) /\ j - 1 \in 0..HealthWindow
      BY <3>3, WeightsDouble
    <3>5. PICK x \in Nat : x = Weight[j - 1] /\ Weight[j] = 2 * x
      BY <3>4, WeightsDouble
    <3>6. more[i] = w * (2 * x)
      BY <1>1, <1>2, <1>3, <2>3, <3>1, <3>4, <3>5 DEF PartsAt
    <3>7. less[i] = w * x
      <4>1. less[i] = worth[events[i].status] * Weight[HealthWindow - (u - events[i].at)]
        BY <1>1, <1>2, <1>3, <3>2 DEF PartsAt
      <4>2. less[i] = w * Weight[HealthWindow - (u - a)]
        BY <3>1, <4>1, Zenon
      <4>3. w * Weight[HealthWindow - (u - a)] = w * Weight[j - 1]
        BY <3>4, Zenon
      <4>. QED  BY <3>5, <4>2, <4>3, Zenon
    <3>8. w * x \in Nat /\ w * (2 * x) \in Nat /\ w * (2 * x) = 2 * (w * x)
      OBVIOUS
    <3>. QED  BY <3>6, <3>7, <3>8
  <2>. QED  BY <2>2, <2>3
<1>4. more \in [1..n -> Nat] /\ less \in [1..n -> Nat]
  <2>1. DOMAIN more = 1..n /\ DOMAIN less = 1..n
        /\ more = [i \in 1..n |-> more[i]] /\ less = [i \in 1..n |-> less[i]]
    BY <1>1, <1>2 DEF PartsAt
  <2>. QED  BY <1>3, <2>1
<1>5. PICK g : IsTotal(n, more, g) /\ SumAt(events, worth, t) = g[n]
  BY <1>1, <1>2, <1>4, SumIsTotal
<1>6. PICK h : IsTotal(n, less, h) /\ SumAt(events, worth, u) = h[n]
  BY <1>1, <1>2, <1>4, SumIsTotal
<1>7. h[n] \in Nat /\ g[n] = 2 * h[n]
  <2>1. AreTwice(n, more, less)
    BY <1>3, <1>4 DEF AreTwice
  <2>2. IsDouble(n, g, h)
    BY <1>5, <1>6, <2>1, TotalsDouble
  <2>. QED  BY <2>2 DEF IsDouble
<1>. QED  BY <1>5, <1>6, <1>7

LEMMA WorthOfStatuses ==
  /\ Worth \in [ComponentStatuses \cup EngineStatuses -> {0, 2, 3}]
  /\ Severity \in [ComponentStatuses \cup EngineStatuses -> {0, 2, 3}]
BY DEF Worth, Severity

\* Only the clock moves it.
LEMMA SilenceIsATick ==
  ASSUME MonitoringInv, [MonitoringNext]_monitoringVars, clock' # clock
  PROVE  /\ signals' = signals /\ clock \in Nat /\ clock' = clock + 1
         /\ signals.events \in Seq(EventRecords)
<1>1. ClockTicks
  BY DEF MonitoringNext, monitoringVars, HealthEvent, QueueMoves, BackupSucceeds, Spend, TouchReported,
         Denied, NextPeriod, Evaluate, Notify, SaveFired, EvaluatorDies, OnlySignals
<1>2. clock \in Nat /\ SignalsOk
  BY TypeParts, MonitoringAssumption DEF MonitoringInv, MonitoringAssumption
<1>3. signals.events \in Seq(EventRecords)
  BY <1>2 DEF SignalsOk, SignalTypes, EventRecords
<1>. QED  BY <1>1, <1>2, <1>3 DEF ClockTicks

LEMMA ScoresAt ==
  /\ Recent(signals.events) = RecentAt(signals.events, clock)
  /\ Success(signals.events) = SumAt(signals.events, Worth, clock)
  /\ Failure(signals.events) = SumAt(signals.events, Severity, clock)
BY DEF Recent, RecentAt, Success, Failure, SumOfRecent, Decay, SumAt

LEMMA ScoresNext ==
  ASSUME signals' = signals
  PROVE  /\ Recent(signals.events)' = RecentAt(signals.events, clock')
         /\ Success(signals.events)' = SumAt(signals.events, Worth, clock')
         /\ Failure(signals.events)' = SumAt(signals.events, Severity, clock')
BY DEF Recent, RecentAt, Success, Failure, SumOfRecent, Decay, SumAt

\* A score, a quotient, does not change when both its sums are halved; what it rests
\* on shrinks.
LEMMA QuotientsStay ==
  ASSUME NEW s \in Nat, NEW f \in Nat
  PROVE  /\ \A m \in Nat : s + f >= m => 2 * s + 2 * f >= m
         /\ 100 * (2 * s) >= 85 * (2 * s + 2 * f) <=> 100 * s >= 85 * (s + f)
         /\ 100 * (2 * s) >= 50 * (2 * s + 2 * f) <=> 100 * s >= 50 * (s + f)
OBVIOUS

LEMMA SilenceHeals ==
  ASSUME MonitoringInv, [MonitoringNext]_monitoringVars, clock' # clock,
         Recent(signals.events)' = Recent(signals.events)
  PROVE  /\ ComponentClass(signals.events)' \in {ComponentClass(signals.events), "NO_DATA"}
         /\ EngineClass(signals.events)' \in {EngineClass(signals.events), "SIN_DATOS_SUFICIENTES"}
<1>1. /\ signals' = signals /\ clock \in Nat /\ clock' = clock + 1
      /\ signals.events \in Seq(EventRecords)
  BY SilenceIsATick
<1>2. PICK t \in Nat, u \in Nat, events \in Seq(EventRecords) :
        t = clock /\ u = clock' /\ u = t + 1 /\ events = signals.events
  BY <1>1
<1>3. RecentAt(events, u) = RecentAt(events, t)
  BY <1>1, <1>2, ScoresAt, ScoresNext
<1>4. /\ SumAt(events, Worth, u) \in Nat /\ SumAt(events, Worth, t) = 2 * SumAt(events, Worth, u)
      /\ SumAt(events, Severity, u) \in Nat
      /\ SumAt(events, Severity, t) = 2 * SumAt(events, Severity, u)
  BY <1>2, <1>3, WorthOfStatuses, SumsHalve
<1>5. PICK s \in Nat, f \in Nat : s = SumAt(events, Worth, u) /\ f = SumAt(events, Severity, u)
  BY <1>4
<1>6. /\ Success(signals.events) = 2 * s /\ Failure(signals.events) = 2 * f
      /\ Success(signals.events)' = s /\ Failure(signals.events)' = f
  BY <1>1, <1>2, <1>4, <1>5, ScoresAt, ScoresNext
<1>7. PICK m \in Nat : m = MinSampleWeight * 2 * Weight[HealthWindow]
  <2>1. PICK a \in Nat, b \in Nat : a = MinSampleWeight /\ b = Weight[HealthWindow]
    BY WeightsDouble, MonitoringAssumption DEF MonitoringAssumption
  <2>2. a * 2 * b \in Nat
    OBVIOUS
  <2>. QED  BY <2>1, <2>2
<1>8. /\ Enough(signals.events) <=> 2 * s + 2 * f >= m
      /\ Enough(signals.events)' <=> s + f >= m
  <2>1. Enough(signals.events) <=> 2 * s + 2 * f >= m
    BY <1>6, <1>7 DEF Enough
  <2>2. Enough(signals.events)' <=> s + f >= m
    BY <1>6, <1>7 DEF Enough
  <2>. QED  BY <2>1, <2>2
<1>9. /\ ScoreAtLeast(signals.events, 85) <=> ScoreAtLeast(signals.events, 85)'
      /\ ScoreAtLeast(signals.events, 50) <=> ScoreAtLeast(signals.events, 50)'
  <2>1. /\ ScoreAtLeast(signals.events, 85) <=> 100 * (2 * s) >= 85 * (2 * s + 2 * f)
        /\ ScoreAtLeast(signals.events, 50) <=> 100 * (2 * s) >= 50 * (2 * s + 2 * f)
    BY <1>6 DEF ScoreAtLeast
  <2>2. /\ ScoreAtLeast(signals.events, 85)' <=> 100 * s >= 85 * (s + f)
        /\ ScoreAtLeast(signals.events, 50)' <=> 100 * s >= 50 * (s + f)
    BY <1>6 DEF ScoreAtLeast
  <2>. QED  BY <2>1, <2>2, QuotientsStay
<1>10. Enough(signals.events)' => Enough(signals.events)
  BY <1>8, QuotientsStay
<1>11. LastStatus(signals.events)' = LastStatus(signals.events)
  BY <1>1 DEF LastStatus
<1>12. ComponentClass(signals.events)' \in {ComponentClass(signals.events), "NO_DATA"}
  <2> DEFINE isNaN == \E i \in Recent(signals.events) : signals.events[i].status \notin ComponentStatuses
  <2>1. isNaN' <=> isNaN
    BY <1>1
  <2>2. CASE Recent(signals.events) = {}
    BY <2>2 DEF ComponentClass
  <2>3. CASE Recent(signals.events) # {} /\ isNaN
    <3>1. ComponentClass(signals.events)
            = IF LastStatus(signals.events) = "DOWN" THEN "DOWN" ELSE "DEGRADED"
      BY <2>3 DEF ComponentClass
    <3>2. ComponentClass(signals.events)'
            = IF LastStatus(signals.events)' = "DOWN" THEN "DOWN" ELSE "DEGRADED"
      BY <2>1, <2>3 DEF ComponentClass
    <3>. QED  BY <1>11, <3>1, <3>2
  <2>4. CASE Recent(signals.events) # {} /\ ~isNaN /\ ~Enough(signals.events)'
    <3>1. ComponentClass(signals.events)' = "NO_DATA"
      BY <2>1, <2>4 DEF ComponentClass
    <3>. QED  BY <3>1
  <2>5. CASE Recent(signals.events) # {} /\ ~isNaN /\ Enough(signals.events)'
    <3>1. CASE ScoreAtLeast(signals.events, 85)
      BY <1>9, <1>10, <2>1, <2>5, <3>1 DEF ComponentClass
    <3>2. CASE ~ScoreAtLeast(signals.events, 85) /\ ScoreAtLeast(signals.events, 50)
      BY <1>9, <1>10, <2>1, <2>5, <3>2 DEF ComponentClass
    <3>3. CASE ~ScoreAtLeast(signals.events, 85) /\ ~ScoreAtLeast(signals.events, 50)
      BY <1>9, <1>10, <1>11, <2>1, <2>5, <3>3 DEF ComponentClass
    <3>. QED  BY <3>1, <3>2, <3>3
  <2>. QED  BY <2>2, <2>3, <2>4, <2>5
<1>13. EngineClass(signals.events)' \in {EngineClass(signals.events), "SIN_DATOS_SUFICIENTES"}
  <2>1. CASE Recent(signals.events) = {}
    BY <2>1 DEF EngineClass
  <2>2. CASE Recent(signals.events) # {} /\ ~Enough(signals.events)'
    <3>1. EngineClass(signals.events)' = "SIN_DATOS_SUFICIENTES"
      BY <2>2 DEF EngineClass
    <3>. QED  BY <3>1
  <2>3. CASE Recent(signals.events) # {} /\ Enough(signals.events)'
    <3>1. CASE ScoreAtLeast(signals.events, 85)
      BY <1>9, <1>10, <2>3, <3>1 DEF EngineClass
    <3>2. CASE ~ScoreAtLeast(signals.events, 85) /\ ScoreAtLeast(signals.events, 50)
      BY <1>9, <1>10, <2>3, <3>2 DEF EngineClass
    <3>3. CASE ~ScoreAtLeast(signals.events, 85) /\ ~ScoreAtLeast(signals.events, 50)
      BY <1>9, <1>10, <2>3, <3>3 DEF EngineClass
    <3>. QED  BY <3>1, <3>2, <3>3
  <2>. QED  BY <2>1, <2>2, <2>3
<1>. QED  BY <1>12, <1>13

\* As components and engines are left alone, what is said of them may only fade into
\* the class for too few data, for any window, events and thresholds of the sample.
THEOREM SilenceHealsNothing == MonitoringSpec => SilenceIsNotRecovery
<1> DEFINE Heals ==
      clock' # clock /\ Recent(signals.events)' = Recent(signals.events) =>
        /\ ComponentClass(signals.events)' \in {ComponentClass(signals.events), "NO_DATA"}
        /\ EngineClass(signals.events)' \in {EngineClass(signals.events), "SIN_DATOS_SUFICIENTES"}
<1>1. MonitoringInv /\ [MonitoringNext]_monitoringVars => Heals
  BY SilenceHeals
<1>. QED  BY <1>1, MonitoringInvariant, PTL DEF MonitoringSpec, SilenceIsNotRecovery

-----------------------------------------------------------------------------
(* The parts beside each other, and the types of their states.             *)

\* What the trail and the rights leave open of the database.
RowsInv == overdue \subseteq Sessions /\ agentActive \subseteq Definitions /\ edited \in BOOLEAN

LEMMA RowsStep == RowsInv /\ [SessionsNext \/ RightsNext]_databaseVars => RowsInv'
<1>. SUFFICES ASSUME RowsInv, [SessionsNext \/ RightsNext]_databaseVars PROVE RowsInv'
  OBVIOUS
<1>. USE DEF RowsInv
<1>1. CASE UNCHANGED <<overdue, agentActive, edited>>
  BY <1>1
<1>2. CASE SessionsNext
  <2>1. UNCHANGED <<agentActive, edited>>
    BY <1>2 DEF SessionsNext, Login, Logout, CommitSession, RollbackSession, SessionLapses,
                LockSessions, Baseline, CommitMigration, MigrationFails, rightsVars
  <2>2. overdue' = overdue \/ \E s \in Sessions : overdue' = overdue \cup {s}
    BY <1>2 DEF SessionsNext, Login, Logout, CommitSession, RollbackSession, SessionLapses,
                LockSessions, Baseline, CommitMigration, MigrationFails
  <2>. QED  BY <2>1, <2>2
<1>3. CASE RightsNext
  <2>1. UNCHANGED overdue
    BY <1>3 DEF RightsNext, Seed, EditByHand, Activate, sessionVars
  <2>2. edited' \in BOOLEAN
    BY <1>3 DEF RightsNext, Seed, EditByHand, Activate
  <2>3. {"N8N_SERVICE", "WORKER_SERVICE"} \subseteq Definitions
    BY DEF Definitions, serviceCapabilityCeilings
  <2>4. agentActive' \subseteq Definitions
    BY <1>3, <2>3 DEF RightsNext, Seed, EditByHand, Activate
  <2>. QED  BY <2>1, <2>2, <2>4
<1>. QED  BY <1>1, <1>2, <1>3 DEF databaseVars

LEMMA DatabaseIsTyped ==
  ASSUME SessionsInv, RightsInv, RowsInv
  PROVE  DatabaseTypeOK
<1>1. SeededPermissions \subseteq HumanRoles \X PermissionKeys
  <2>1. SeededPermissions \subseteq {"ADMIN", "MANAGER", "OPERATOR", "VIEWER"} \X PermissionKeys
    BY DEF SeededPermissions, PermissionKeys
  <2>2. HumanRoles = {"ADMIN", "MANAGER", "OPERATOR", "VIEWER"}
    BY DEF HumanRoles, rolePermissions
  <2>. QED  BY <2>1, <2>2
<1>2. rolePermission \subseteq HumanRoles \X PermissionKeys
  BY <1>1 DEF RightsInv
<1>3. trail \in [Sessions -> Seq(Beginnings \cup Endings)]
  BY DEF SessionsInv, Actions
<1>. QED  BY <1>2, <1>3 DEF DatabaseTypeOK, SessionsInv, RightsInv, RowsInv

\* Every part keeps its invariant, whichever of them the behaviour is one of.
OperationsInv ==
  /\ part \in Parts
  /\ BackupInv /\ PruneInv /\ SyncInv
  /\ MonitoringInv /\ GatewayInv /\ ServerInv
  /\ AccountsInv /\ RowsInv
  /\ part = "console" => ConsoleInv
  /\ part \in {"access", "tools"} => AccessInv

LEMMA OperationsStart == Init => OperationsInv
<1>. SUFFICES ASSUME Init PROVE OperationsInv
  OBVIOUS
<1>1. /\ part \in Parts /\ BackupInit /\ MonitoringInit /\ GatewayInit /\ ServerInit /\ DatabaseInit
  BY DEF Init
<1>2. AccountsInv
  BY AccountsStart
<1>3. RowsInv
  BY <1>1 DEF DatabaseInit, RowsInv
<1>4. part = "console" => ConsoleInv
  BY ConsoleStarts DEF Init, ConsoleStart
<1>5. part \in {"access", "tools"} => AccessInv
  <2>1. part \in {"access", "tools"} => AccessInit
    BY DEF Init, AccessIdle
  <2>. QED  BY <2>1, AccessStarts
<1>. QED  BY <1>1, <1>2, <1>3, <1>4, <1>5, BackupStart, PruneStart, MonitoringStart, GatewayStart,
             ServerStart DEF OperationsInv

LEMMA OperationsStep == OperationsInv /\ [Next]_vars => OperationsInv'
<1>. SUFFICES ASSUME OperationsInv, [Next]_vars PROVE OperationsInv'
  OBVIOUS
<1>1. part' = part
  BY DEF Next, BackupsPart, MonitoringPart, BootstrapPart, AccessPart, ToolsPart, GatewayPart,
         ConsolePart, ServerPart, SessionsPart, RightsPart, vars, Watching
<1>2. BackupInv' /\ PruneInv' /\ SyncInv'
  <2>1. [BackupNext]_backupVars
    BY DEF Next, BackupsPart, MonitoringPart, BootstrapPart, AccessPart, ToolsPart, GatewayPart,
           ConsolePart, ServerPart, SessionsPart, RightsPart, vars, Watching
  <2>. QED  BY <2>1, BackupStep, PruneStep, SyncStep DEF OperationsInv
<1>3. MonitoringInv'
  <2>1. [MonitoringNext]_monitoringVars
    BY DEF Next, BackupsPart, MonitoringPart, BootstrapPart, AccessPart, ToolsPart, GatewayPart,
           ConsolePart, ServerPart, SessionsPart, RightsPart, vars, Watching
  <2>. QED  BY <2>1, MonitoringInductive DEF OperationsInv
<1>4. GatewayInv'
  <2>1. [GatewayNext]_gatewayVars
    BY DEF Next, BackupsPart, MonitoringPart, BootstrapPart, AccessPart, ToolsPart, GatewayPart,
           ConsolePart, ServerPart, SessionsPart, RightsPart, vars, Watching
  <2>. QED  BY <2>1, GatewayStep DEF OperationsInv
<1>5. ServerInv'
  <2>1. [ServerNext]_serverVars
    BY DEF Next, BackupsPart, MonitoringPart, BootstrapPart, AccessPart, ToolsPart, GatewayPart,
           ConsolePart, ServerPart, SessionsPart, RightsPart, vars, machineVars
  <2>. QED  BY <2>1, ServerStep DEF OperationsInv
<1>6. AccountsInv'
  BY AccountsStep DEF OperationsInv
<1>7. RowsInv'
  <2>1. [SessionsNext \/ RightsNext]_databaseVars
    BY DEF Next, BackupsPart, MonitoringPart, BootstrapPart, AccessPart, ToolsPart, GatewayPart,
           ConsolePart, ServerPart, SessionsPart, RightsPart, vars, machineVars
  <2>. QED  BY <2>1, RowsStep DEF OperationsInv
<1>8. part = "console" => ConsoleInv'
  <2>1. part = "console" => [ConsoleNext]_<<accessVars, consoleVars>>
    BY DEF Next, BackupsPart, MonitoringPart, BootstrapPart, AccessPart, ToolsPart, GatewayPart,
           ConsolePart, ServerPart, SessionsPart, RightsPart, vars, Watching
  <2>. QED  BY <2>1, ConsoleStep DEF OperationsInv
<1>9. part \in {"access", "tools"} => AccessInv'
  <2>1. part \in {"access", "tools"} => [AccessNext]_accessVars
    <3>1. ASSUME part \in {"access", "tools"}, AccessPart \/ ToolsPart PROVE AccessNext
      BY <3>1 DEF AccessPart, ToolsPart, AccessNext, AuthorizationNext
    <3>2. ASSUME part \in {"access", "tools"}, ~(AccessPart \/ ToolsPart) PROVE UNCHANGED accessVars
      BY <3>2 DEF Next, BackupsPart, MonitoringPart, BootstrapPart, GatewayPart, ConsolePart,
                  ServerPart, SessionsPart, RightsPart, vars, Watching
    <3>. QED  BY <3>1, <3>2
  <2>. QED  BY <2>1, AccessStep DEF OperationsInv
<1>. QED  BY <1>1, <1>2, <1>3, <1>4, <1>5, <1>6, <1>7, <1>8, <1>9 DEF OperationsInv

\* The state of the part that runs has its type, for any databases, evaluators,
\* organizations, requests, actors, processes and sessions.
THEOREM OperationsTypeCorrect == Spec => []TypeOK
<1>1. OperationsInv => TypeOK
  <2>. SUFFICES ASSUME OperationsInv PROVE TypeOK
    OBVIOUS
  <2>1. BackupTypeOK /\ MonitoringTypeOK /\ GatewayTypeOK /\ ServerTypeOK
    BY BackupsAreTyped DEF OperationsInv, MonitoringInv, GatewayInv, ServerInv
  <2>2. DatabaseTypeOK /\ (part = "bootstrap" => BootstrapTypeOK)
    BY DatabaseIsTyped DEF OperationsInv, AccountsInv, BootstrapInv
  <2>3. part = "console" => ConsoleTypeOK
    BY DEF OperationsInv, ConsoleInv
  <2>4. part \in {"access", "tools"} => AccessTypeOK
    BY DEF OperationsInv, AccessInv
  <2>5. part \in Parts
    BY DEF OperationsInv
  <2>. QED  BY <2>1, <2>2, <2>3, <2>4, <2>5 DEF TypeOK, Parts
<1>. QED  BY <1>1, OperationsStart, OperationsStep, PTL DEF Spec

\* The run's statement of what lets an operator sleep: backups that a pruning leaves,
\* and scores that time alone does not mend.
THEOREM ReassuranceHolds == Spec => ReassuranceIsEarned
<1>1. Init => BackupInit /\ MonitoringInit
  BY DEF Init
<1>2. [Next]_vars => [BackupNext]_backupVars /\ [MonitoringNext]_monitoringVars
  <2>. SUFFICES ASSUME [Next]_vars
                PROVE  [BackupNext]_backupVars /\ [MonitoringNext]_monitoringVars
    OBVIOUS
  <2>1. [BackupNext]_backupVars
    BY DEF Next, BackupsPart, MonitoringPart, BootstrapPart, AccessPart, ToolsPart, GatewayPart,
           ConsolePart, ServerPart, SessionsPart, RightsPart, vars, Watching
  <2>2. [MonitoringNext]_monitoringVars
    BY DEF Next, BackupsPart, MonitoringPart, BootstrapPart, AccessPart, ToolsPart, GatewayPart,
           ConsolePart, ServerPart, SessionsPart, RightsPart, vars, Watching
  <2>. QED  BY <2>1, <2>2
<1>3. Spec => BackupSpec /\ MonitoringSpec
  BY <1>1, <1>2, PTL DEF Spec, BackupSpec, MonitoringSpec
<1>. QED  BY <1>3, PruningLeavesTheNewest, SilenceHealsNothing, PTL DEF ReassuranceIsEarned
=============================================================================

----------------------------- MODULE AiGateway ------------------------------
(***************************************************************************)
(* AiGateway (packages/ai-gateway): invoke gives one request to the        *)
(* adapter of its provider, under a timer and the caller's abort signal;   *)
(* invokeWithFallback tries candidates in order until one succeeds.        *)
(*                                                                         *)
(* The awaits of transport.send are where the provider, the timer and the  *)
(* caller meet.  A signal that is aborted already fires no event, so an    *)
(* abort is heard by the attempt in flight and by no later one.            *)
(***************************************************************************)
EXTENDS Naturals, Sequences, FiniteSets

CONSTANTS
  GatewayRequests,   \* what may be asked for: [provider, tools, json]
  MaxCandidates      \* bound on the candidates of one call

ASSUME GatewayAssumption == MaxCandidates \in Nat

\* One call of invokeWithFallback: calls share nothing.
VARIABLES
  asked,       \* where the call is
  cancelled,   \* the caller's signal is aborted
  aborting,    \* the controller of the attempt in flight is aborted
  tries,       \* history: the attempts: candidate, result, whether it was sent, who aborted it
  reasons      \* history: who aborted the attempt in flight

gatewayVars == <<asked, cancelled, aborting, tries, reasons>>

\* The dialects: OpenAI, DeepSeek and Qwen share one.
Providers == {"openai", "anthropic", "ollama"}
supportsTools == [p \in Providers |-> p # "ollama"]
supportsJsonMode == [p \in Providers |-> p # "anthropic"]

\* Why a request does not go out, if it does not.
Refusal(request) ==
  CASE request.provider \notin Providers -> "PROVIDER_UNAVAILABLE"
    [] request.provider \in Providers
         /\ (\/ request.tools /\ ~supportsTools[request.provider]
             \/ request.json /\ ~supportsJsonMode[request.provider]) -> "UNSUPPORTED_CAPABILITY"
    [] OTHER -> "none"

\* What a provider may answer: 2xx well formed, 2xx that cannot be read (an empty
\* list of choices among them), an error, or the connection breaks.
ProviderAnswers == {"OK", "UNREADABLE", "401", "429", "400", "422", "404", "500", "BROKEN"}

classifyHttpError(answer) ==
  CASE answer = "OK" -> "SUCCEEDED"
    [] answer = "401" -> "AUTH_FAILED"
    [] answer = "429" -> "RATE_LIMITED"
    [] answer \in {"400", "422"} -> "INVALID_REQUEST"
    [] answer = "500" -> "PROVIDER_UNAVAILABLE"
    [] OTHER -> "UNEXPECTED_FAILURE"
AnthropicResult(answer) ==
  IF answer = "422" THEN "UNEXPECTED_FAILURE" ELSE classifyHttpError(answer)
OllamaResult(answer) ==
  IF answer \in {"401", "429", "400", "422", "404"} THEN "INVALID_REQUEST" ELSE classifyHttpError(answer)

Result(provider, answer) ==
  CASE provider = "openai" -> classifyHttpError(answer)
    [] provider = "anthropic" -> AnthropicResult(answer)
    [] provider = "ollama" -> OllamaResult(answer)

Errors ==
  {"INVALID_REQUEST", "AUTH_FAILED", "RATE_LIMITED", "TIMEOUT", "PROVIDER_UNAVAILABLE",
   "UNSUPPORTED_CAPABILITY", "UNEXPECTED_FAILURE"}

-----------------------------------------------------------------------------

NotAsked == [at |-> "idle", candidates |-> << >>, i |-> 0, answer |-> "none", cause |-> "none"]
Candidate == asked.candidates[asked.i]

GatewayInit ==
  /\ asked = NotAsked /\ cancelled = FALSE /\ aborting = FALSE
  /\ tries = << >> /\ reasons = {}

\* Throws on an empty list.
Ask(candidates) ==
  /\ asked.at = "idle" /\ candidates # << >>
  /\ asked' = [NotAsked EXCEPT !.at = "trying", !.candidates = candidates, !.i = 1]
  /\ UNCHANGED <<cancelled, aborting, tries, reasons>>

\* The loop of invokeWithFallback after the result of one candidate.
Ends_onPermanentErrors(result) == result \notin {"RATE_LIMITED", "TIMEOUT", "PROVIDER_UNAVAILABLE"}
Ends(result) == result = "SUCCEEDED"

Settle(result, sent) ==
  /\ reasons' = {}
  /\ tries' = Append(tries, [i |-> asked.i, result |-> result, sent |-> sent, why |-> reasons])
  /\ asked' = IF Ends(result) THEN [asked EXCEPT !.at = "answered", !.answer = result]
              ELSE IF asked.i < Len(asked.candidates) THEN [asked EXCEPT !.at = "trying", !.i = @ + 1]
              ELSE [asked EXCEPT !.at = "answered", !.answer = "ALL_CANDIDATES_FAILED", !.cause = result]

\* invoke returns without calling the adapter, or the adapter without sending.
Refuse ==
  /\ asked.at = "trying" /\ Refusal(Candidate) # "none"
  /\ Settle(Refusal(Candidate), FALSE)
  /\ UNCHANGED <<cancelled, aborting>>

\* A fresh controller and timer; of the caller's signal only the event to come.
SendRequest ==
  /\ asked.at = "trying" /\ Refusal(Candidate) = "none"
  /\ asked' = [asked EXCEPT !.at = "in_flight"]
  /\ aborting' = FALSE
  /\ UNCHANGED <<cancelled, tries, reasons>>

CallerAborts ==
  /\ ~cancelled /\ cancelled' = TRUE
  /\ IF asked.at = "in_flight"
     THEN aborting' = TRUE /\ reasons' = reasons \cup {"caller"}
     ELSE UNCHANGED <<aborting, reasons>>
  /\ UNCHANGED <<asked, tries>>

TimerFires ==
  /\ asked.at = "in_flight" /\ "timer" \notin reasons
  /\ aborting' = TRUE /\ reasons' = reasons \cup {"timer"}
  /\ UNCHANGED <<asked, cancelled, tries>>

\* An answer may still arrive before the abort is noticed.
ProviderReplies(answer) ==
  /\ asked.at = "in_flight"
  /\ Settle(Result(Candidate.provider, answer), TRUE)
  /\ UNCHANGED <<cancelled, aborting>>
AbortIsHeard ==
  /\ asked.at = "in_flight" /\ aborting
  /\ Settle("TIMEOUT", TRUE)
  /\ UNCHANGED <<cancelled, aborting>>

CandidateLists == UNION {[1..n -> GatewayRequests] : n \in 1..MaxCandidates}

GatewayNext ==
  \/ \E candidates \in CandidateLists : Ask(candidates)
  \/ Refuse \/ SendRequest \/ CallerAborts \/ TimerFires \/ AbortIsHeard
  \/ \E answer \in ProviderAnswers : ProviderReplies(answer)

GatewaySpec == GatewayInit /\ [][GatewayNext]_gatewayVars

-----------------------------------------------------------------------------

GatewayTypeOK ==
  /\ asked \in [at : {"idle", "trying", "in_flight", "answered"},
                candidates : Seq(GatewayRequests), i : Nat,
                answer : {"none", "SUCCEEDED", "ALL_CANDIDATES_FAILED"}, cause : Errors \cup {"none"}]
  /\ cancelled \in BOOLEAN /\ aborting \in BOOLEAN /\ reasons \subseteq {"caller", "timer"}
  /\ tries \in Seq([i : Nat, result : Errors \cup {"SUCCEEDED"}, sent : BOOLEAN,
                    why : SUBSET {"caller", "timer"}])

\* The chain tries every candidate once and in order and stops at the first that
\* succeeds; it fails only when each of them did, and then its cause is the last
\* failure.  No provider gets a request it cannot serve, and a request is said to
\* have timed out only if its own timer fired or the caller gave up while it was in
\* flight, though timer, caller and answer race: a caller stops one attempt at most.
FallbackTellsWhatHappened ==
  /\ \A n \in DOMAIN tries :
       /\ tries[n].i = n
       /\ tries[n].result = "SUCCEEDED" => n = Len(tries) /\ asked.at = "answered"
       /\ tries[n].sent <=> Refusal(asked.candidates[n]) = "none"
       /\ tries[n].result = "TIMEOUT" => tries[n].why # {}
  /\ Cardinality({n \in DOMAIN tries : "caller" \in tries[n].why}) <= 1
  /\ asked.at = "in_flight" => (aborting <=> reasons # {})
  /\ asked.at = "answered" =>
       LET last == tries[Len(tries)].result
       IN  \/ last = "SUCCEEDED" /\ asked.answer = "SUCCEEDED"
           \/ /\ last # "SUCCEEDED" /\ Len(tries) = Len(asked.candidates)
              /\ asked.answer = "ALL_CANDIDATES_FAILED" /\ asked.cause = last
=============================================================================

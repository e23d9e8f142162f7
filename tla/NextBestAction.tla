---------------------------- MODULE NextBestAction -----------------------------
(***************************************************************************)
(* opportunity-scoring and next-best-action over the life of one           *)
(* opportunity: what is known of it changes, its score is computed and     *)
(* stored, and from the stored score, the points that can be used now and  *)
(* whether a reply waits, the engine decides what comes next and when.     *)
(* The date it gives is what the TIMING of the next score looks at.        *)
(*                                                                         *)
(* Both packages are pure: who calls them, and when, is the environment.   *)
(* Time is counted in ticks of four hours, the shortest window.  A part of *)
(* a score is counted in units of 1/180, which writes the default tables   *)
(* and the fractions of a window exactly, a score in units of              *)
(* 1/(180 * TotalWeight).                                                  *)
(***************************************************************************)
EXTENDS Integers, Sequences

CONSTANTS
  Profiles,        \* what can be known of the opportunity, see ProfileType
  CountryPriority, \* country -> priority, in units; the others have DefaultPriority
  CityPriority,    \* <<country, city>> -> priority
  DefaultPriority,
  Weights,         \* component -> its weight, in hundredths
  NbaPolicy,       \* thresholds in hundredths, windows in ticks
  Leaps,           \* by how much time passes at once
  MaxNbaClock

Unit == 180
Day == 6
NoScore == -1
NoDate == -1

NbaActions == {"RESEARCH", "CONTACT", "WAIT", "REVALIDATE", "DISCARD"}
ScoreComponents == {"FIT", "SIGNAL", "CONTACTABILITY", "TIMING", "GEO_PRIORITY", "EVIDENCE"}
TotalWeight == Weights.FIT + Weights.SIGNAL + Weights.CONTACTABILITY + Weights.TIMING
               + Weights.GEO_PRIORITY + Weights.EVIDENCE

ProfileType ==
  [matched : Nat, criteria : Nat, signals : Seq([weight : 0..Unit, hasEvidence : BOOLEAN]),
   sendable : Nat, points : Nat, country : STRING, city : STRING, evidence : Nat]
PolicyType ==
  [low : 0..100, discard : 0..100, high : 0..100, staleAfterDays : Nat \ {0},
   urgent : Nat, research : Nat, revalidate : Nat, wait : Nat, proactive : Nat]

ASSUME NbaAssumption ==
  /\ Weights \in [ScoreComponents -> 0..100] /\ TotalWeight > 0
  /\ NbaPolicy \in PolicyType
  /\ DefaultPriority \in 0..Unit /\ \A c \in DOMAIN CountryPriority : CountryPriority[c] \in 0..Unit
  /\ \A c \in DOMAIN CityPriority : CityPriority[c] \in 0..Unit
  /\ Profiles \subseteq ProfileType /\ Leaps \subseteq Nat /\ MaxNbaClock \in Nat

DefaultWeights == [FIT |-> 25, SIGNAL |-> 20, CONTACTABILITY |-> 15, TIMING |-> 10,
                   GEO_PRIORITY |-> 15, EVIDENCE |-> 15]
DefaultPolicy == [low |-> 35, discard |-> 15, high |-> 70, staleAfterDays |-> 30,
                  urgent |-> 1, research |-> 6, revalidate |-> 84, wait |-> 42, proactive |-> 12]

-----------------------------------------------------------------------------
(* The score.                                                              *)

Within(low, value, high) == IF value < low THEN low ELSE IF value > high THEN high ELSE value
Share(part, whole) == Within(0, (part * Unit) \div whole, Unit)

fitScore(matched, total) == IF total <= 0 THEN Unit \div 2 ELSE Share(matched, total)

\* The average weight of the signals that evidence backs.
signalScore(signals) ==
  LET backed[i \in 0..Len(signals)] ==
        IF i = 0 THEN [weight |-> 0, count |-> 0]
        ELSE IF signals[i].hasEvidence
        THEN [weight |-> backed[i - 1].weight + signals[i].weight, count |-> backed[i - 1].count + 1]
        ELSE backed[i - 1]
      all == backed[Len(signals)] IN
  IF all.count = 0 THEN 0 ELSE all.weight \div all.count

contactabilityScore(sendable, total) == IF total <= 0 THEN 0 ELSE Share(sendable, total)

TimingWindow == 30 * Day
timingScore(date, now) ==
  IF date = NoDate \/ date < now THEN 0 ELSE Within(0, Unit - Share(date - now, TimingWindow), Unit)

geoPriority(country, city) ==
  IF <<country, city>> \in DOMAIN CityPriority THEN CityPriority[<<country, city>>]
  ELSE IF country \in DOMAIN CountryPriority THEN CountryPriority[country]
  ELSE DefaultPriority

EvidenceSaturation == 5
evidenceScore(count) == IF count <= 0 THEN 0 ELSE Share(count, EvidenceSaturation)

\* The weighted parts; dividing by TotalWeight is left to the comparisons.
Combine(raw) ==
  raw.FIT * Weights.FIT + raw.SIGNAL * Weights.SIGNAL
  + raw.CONTACTABILITY * Weights.CONTACTABILITY + raw.TIMING * Weights.TIMING
  + raw.GEO_PRIORITY * Weights.GEO_PRIORITY + raw.EVIDENCE * Weights.EVIDENCE

computeOpportunityScore(p, date, now) ==
  Combine([FIT |-> fitScore(p.matched, p.criteria), SIGNAL |-> signalScore(p.signals),
           CONTACTABILITY |-> contactabilityScore(p.sendable, p.points),
           TIMING |-> timingScore(date, now), GEO_PRIORITY |-> geoPriority(p.country, p.city),
           EVIDENCE |-> evidenceScore(p.evidence)])

-----------------------------------------------------------------------------
(* The decision.                                                           *)

daysBetween(from, to) == IF to < from THEN 0 ELSE (to - from) \div Day
Below(score, threshold) == score * 100 < threshold * Unit * TotalWeight
actionRequiresApproval(action) == action = "DISCARD"

Undecided == [action |-> "none"]
decisionOf(source, action, now, window) ==
  [action |-> action, source |-> source, requiresApproval |-> actionRequiresApproval(action),
   decidedAt |-> now, nextActionAt |-> IF window = NoDate THEN NoDate ELSE now + window]

\* The rules in their order; Undecided leaves the case to the model.
applyPolicy_scoreFirst(reply, sendable, score, age, now) ==
  LET Rule(action, window) == decisionOf("RULE", action, now, window) IN
  IF reply THEN Rule("CONTACT", NbaPolicy.urgent)
  ELSE IF score # NoScore /\ ~Below(score, NbaPolicy.high) THEN Rule("CONTACT", NbaPolicy.proactive)
  ELSE IF sendable = 0 THEN Rule("RESEARCH", NbaPolicy.research)
  ELSE Undecided
applyPolicy(reply, sendable, score, age, now) ==
  LET Rule(action, window) == decisionOf("RULE", action, now, window) IN
  IF reply THEN Rule("CONTACT", NbaPolicy.urgent)
  ELSE IF sendable = 0 THEN Rule("RESEARCH", NbaPolicy.research)
  ELSE IF score = NoScore THEN Undecided
  ELSE IF Below(score, NbaPolicy.discard) /\ age >= NbaPolicy.staleAfterDays
    THEN Rule("DISCARD", NoDate)
  ELSE IF Below(score, NbaPolicy.low) THEN Rule("REVALIDATE", NbaPolicy.revalidate)
  ELSE IF ~Below(score, NbaPolicy.high) THEN Rule("CONTACT", NbaPolicy.proactive)
  ELSE Undecided

modelWindow(action) ==
  CASE action = "CONTACT" -> NbaPolicy.proactive [] action = "RESEARCH" -> NbaPolicy.research
    [] action = "REVALIDATE" -> NbaPolicy.revalidate [] action = "WAIT" -> NbaPolicy.wait
    [] action = "DISCARD" -> NoDate

\* What the router's model says, when it is asked: the action of a well-formed answer,
\* or "none" when no candidate was chosen or the call failed.
ModelAnswers == [action : NbaActions \cup {"none", "CALL_THE_CEO"}, rationale : BOOLEAN]
decideWithModel(answer) ==
  IF answer.action \in NbaActions /\ answer.rationale THEN answer.action ELSE "none"

decideNextBestAction(reply, sendable, score, age, now, answer) ==
  LET ruled == applyPolicy(reply, sendable, score, age, now)
      chosen == decideWithModel(answer) IN
  IF ruled # Undecided THEN ruled
  ELSE IF chosen # "none" THEN decisionOf("MODEL", chosen, now, modelWindow(chosen))
  ELSE decisionOf("FALLBACK", "WAIT", now, NbaPolicy.wait)

-----------------------------------------------------------------------------

VARIABLES
  nbaClock,  \* ticks since the opportunity was created
  profile,   \* what is known of it
  reply,     \* whether an answer of the contact waits
  score,     \* the stored score
  decision,  \* the last decision
  basis      \* history: what was true when it was taken

nbaVars == <<nbaClock, profile, reply, score, decision, basis>>
NoBasis == [reachable |-> FALSE, score |-> NoScore]

NbaInit ==
  /\ nbaClock = 0 /\ profile \in Profiles /\ reply = FALSE
  /\ score = NoScore /\ decision = Undecided /\ basis = NoBasis

TimePasses ==
  /\ \E leap \in Leaps : nbaClock + leap <= MaxNbaClock /\ nbaClock' = nbaClock + leap
  /\ UNCHANGED <<profile, reply, score, decision, basis>>
Learn ==
  /\ profile' \in Profiles \ {profile}
  /\ UNCHANGED <<nbaClock, reply, score, decision, basis>>
ReplyMoves ==
  reply' = ~reply /\ UNCHANGED <<nbaClock, profile, score, decision, basis>>

Score ==
  /\ score' = computeOpportunityScore(profile,
       IF decision = Undecided THEN NoDate ELSE decision.nextActionAt, nbaClock)
  /\ UNCHANGED <<nbaClock, profile, reply, decision, basis>>

Decide ==
  /\ \E answer \in ModelAnswers :
       decision' = decideNextBestAction(reply, profile.sendable, score,
                     daysBetween(0, nbaClock), nbaClock, answer)
  /\ basis' = [reachable |-> reply \/ profile.sendable > 0, score |-> score]
  /\ UNCHANGED <<nbaClock, profile, reply, score>>

NbaNext == TimePasses \/ Learn \/ ReplyMoves \/ Score \/ Decide
NbaSpec == NbaInit /\ [][NbaNext]_nbaVars

-----------------------------------------------------------------------------

NbaTypeOK ==
  /\ nbaClock \in 0..MaxNbaClock /\ profile \in Profiles /\ reply \in BOOLEAN
  /\ score \in {NoScore} \cup 0..(Unit * TotalWeight)
  /\ decision = Undecided \/ decision.action \in NbaActions

\* Whoever decided, rule, model or fallback, and however old the score was: no
\* contact is proposed that cannot be made, research is what an opportunity without a
\* usable point gets, the one decision that cannot be undone is for a person to
\* approve, and every other names a moment that its policy allows.  A rule gives up
\* only an old opportunity, and never one that scored well enough to be followed up.
NextActionsAreBacked ==
  decision # Undecided =>
    /\ decision.action = "CONTACT" => basis.reachable
    /\ decision.source # "RULE" => basis.reachable
    /\ decision.requiresApproval <=> decision.action = "DISCARD"
    /\ (decision.nextActionAt = NoDate) <=> (decision.action = "DISCARD")
    /\ decision.action # "DISCARD" =>
         decision.nextActionAt - decision.decidedAt \in
           {NbaPolicy.urgent, NbaPolicy.research, NbaPolicy.revalidate, NbaPolicy.wait, NbaPolicy.proactive}
    /\ decision.action = "DISCARD" /\ decision.source = "RULE" =>
         /\ decision.decidedAt >= NbaPolicy.staleAfterDays * Day
         /\ Below(basis.score, NbaPolicy.discard)
=============================================================================

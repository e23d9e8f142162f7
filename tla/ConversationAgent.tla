--------------------------- MODULE ConversationAgent ---------------------------
(***************************************************************************)
(* conversation-agent: what is answered to a message that came in.  The    *)
(* package is pure; its caller fetches the price book and the context      *)
(* first, and the owner of the catalogue may change the book in between.   *)
(*                                                                         *)
(* A message is the set of patterns its text matches; a text is the set of *)
(* lint issues its words raise.                                            *)
(***************************************************************************)
EXTENDS Integers, FiniteSets, Sequences

CONSTANTS
  Messages,       \* sets of patterns, see Patterns
  Books,          \* price books: status, from, to (NeverEnds or a time), sells, wording
  Predicates,     \* what the facts of a context pack can be about
  NeverEnds, NoBook,
  MaxTalkClock

VARIABLES
  talkClock,
  book,       \* the price book as it is
  fetched,    \* the price book its caller hands over
  turn        \* the last message and what came of it
talkVars == <<talkClock, book, fetched, turn>>

-----------------------------------------------------------------------------
(* The intent: the first pattern that matches.                             *)

PATTERNS_termsFirst ==
  <<"OPT_OUT", "HOSTILE", "DISCOUNT_REQUEST", "COMMERCIAL_TERMS_REQUEST", "COMMITMENT_REQUEST",
    "PRICE_INQUIRY", "PRODUCT_QUESTION">>
PATTERNS ==
  <<"OPT_OUT", "HOSTILE", "DISCOUNT_REQUEST", "COMMITMENT_REQUEST", "COMMERCIAL_TERMS_REQUEST",
    "PRICE_INQUIRY", "PRODUCT_QUESTION">>

Patterns == {PATTERNS[i] : i \in DOMAIN PATTERNS} \cup {"MEETING"}
classifyIntent(message) ==
  IF \A i \in DOMAIN PATTERNS : PATTERNS[i] \notin message THEN "UNKNOWN"
  ELSE PATTERNS[CHOOSE i \in DOMAIN PATTERNS :
         PATTERNS[i] \in message /\ \A j \in 1..(i - 1) : PATTERNS[j] \notin message]
detectMeetingIntent(message) == "MEETING" \in message

-----------------------------------------------------------------------------
(* What is answered.                                                       *)

ApprovalFor == [DISCOUNT_REQUEST |-> "GRANT_DISCOUNT",
                COMMERCIAL_TERMS_REQUEST |-> "CHANGE_COMMERCIAL_TERMS",
                COMMITMENT_REQUEST |-> "BINDING_COMMITMENT"]

\* Active, within its window, which ends before validTo, and with the product in it.
communicateOfficialPrice(b, now) ==
  b # NoBook /\ b.status = "ACTIVE" /\ b.from <= now /\ (b.to = NeverEnds \/ now < b.to) /\ b.sells

\* Every reply ends in a clause to opt out, which the lint knows.  The issue of naming
\* a price does not count against the reply that tells the official one.
buildReply(says, issues, priced) ==
  [says |-> says, safe |-> issues \ (IF priced THEN {"PRICE_OR_DISCOUNT"} ELSE {}) = {}]
buildEscalationAcknowledgementReply == buildReply({}, {}, FALSE)
buildPriceReply(told, b) ==
  IF told THEN buildReply({"PRICE"}, {"PRICE_OR_DISCOUNT"} \cup b.wording, TRUE)
  ELSE buildReply({}, {}, FALSE)
\* It mentions what the facts of the pack say, which supports it.
buildProductQuestionReply(facts) == buildReply(facts, {}, FALSE)

NoReply == [says |-> {}, safe |-> FALSE]
NoTurn == [message |-> {}, intent |-> "none", action |-> "none", meeting |-> FALSE,
           stop |-> "none", draft |-> "none", reply |-> NoReply,
           at |-> 0, facts |-> {}, book |-> NoBook]
handleInboundMessage(message, b, named, facts, now) ==
  LET intent == classifyIntent(message)
      base == [NoTurn EXCEPT !.message = message, !.intent = intent, !.at = now, !.facts = facts,
                             !.book = b, !.meeting = detectMeetingIntent(message)]
      told == named /\ communicateOfficialPrice(b, now)
  IN CASE intent = "OPT_OUT" -> [base EXCEPT !.action = "SUPPRESS", !.stop = "OPT_OUT"]
       [] intent = "HOSTILE" -> [base EXCEPT !.action = "SUPPRESS", !.stop = "RISK"]
       [] intent \in DOMAIN ApprovalFor ->
            [base EXCEPT !.action = "ESCALATE", !.draft = ApprovalFor[intent],
                         !.reply = buildEscalationAcknowledgementReply]
       [] intent = "PRICE_INQUIRY" ->
            [base EXCEPT !.action = "REPLY", !.reply = buildPriceReply(told, b)]
       [] OTHER -> [base EXCEPT !.action = "REPLY", !.reply = buildProductQuestionReply(facts)]

-----------------------------------------------------------------------------

\* A context pack has facts of companies; official prices come of the books.
ASSUME TalkAssumption ==
  /\ Messages \subseteq SUBSET Patterns /\ MaxTalkClock \in Nat
  /\ \A b \in Books : b.from \in Nat
  /\ "PRICE" \notin Predicates

TalkInit ==
  talkClock = 0 /\ book \in Books \cup {NoBook} /\ fetched = NoBook /\ turn = NoTurn

\* The package keeps nothing from one message to the next: a behaviour is one turn.
Before == turn = NoTurn

TalkClockTicks ==
  /\ Before /\ talkClock < MaxTalkClock /\ talkClock' = talkClock + 1
  /\ UNCHANGED <<book, fetched, turn>>
PublishBook == Before /\ book' \in Books \cup {NoBook} /\ UNCHANGED <<talkClock, fetched, turn>>
FetchBook == Before /\ fetched' = book /\ UNCHANGED <<talkClock, book, turn>>

\* named: the caller knows which product the message is about.
Inbound ==
  /\ Before
  /\ \E message \in Messages, named \in BOOLEAN, facts \in SUBSET Predicates :
       turn' = handleInboundMessage(message, fetched, named, facts, talkClock)
  /\ UNCHANGED <<talkClock, book, fetched>>

TalkNext == TalkClockTicks \/ PublishBook \/ FetchBook \/ Inbound
TalkSpec == TalkInit /\ [][TalkNext]_talkVars

-----------------------------------------------------------------------------

TalkTypeOK ==
  /\ talkClock \in 0..MaxTalkClock
  /\ book \in Books \cup {NoBook} /\ fetched \in Books \cup {NoBook}
  /\ turn.message \subseteq Patterns /\ turn.action \in {"none", "REPLY", "ESCALATE", "SUPPRESS"}

\* Whatever else a message says: who opts out or threatens is not answered and nothing
\* is requested for them, and who opts out is never recorded as a mere risk; who asks
\* for a discount, other terms or a commitment is never told a price or a fact but
\* handed to a person, for a commitment rather than for terms if they ask for both; a
\* price is told only to who asked for one, from a book that was active when it was
\* fetched and is in its window; and what is told of a company was in the facts.
RepliesAreBacked ==
  turn.action # "none" =>
    LET requests == turn.message \cap DOMAIN ApprovalFor
        ending == turn.message \cap {"OPT_OUT", "HOSTILE"} IN
    /\ ending # {} =>
         /\ turn.action = "SUPPRESS" /\ turn.reply = NoReply /\ turn.draft = "none"
         /\ turn.stop = IF "OPT_OUT" \in ending THEN "OPT_OUT" ELSE "RISK"
    /\ ending = {} /\ requests # {} =>
         /\ turn.action = "ESCALATE" /\ turn.reply.says = {} /\ turn.reply.safe
         /\ turn.draft \in {ApprovalFor[r] : r \in requests}
         /\ turn.draft = "CHANGE_COMMERCIAL_TERMS" => "COMMITMENT_REQUEST" \notin requests
    /\ ending = {} /\ requests = {} =>
         turn.action = "REPLY" /\ turn.draft = "none" /\ turn.stop = "none"
    /\ "PRICE" \in turn.reply.says =>
         /\ "PRICE_INQUIRY" \in turn.message /\ turn.book # NoBook
         /\ turn.book.status = "ACTIVE" /\ turn.at >= turn.book.from
         /\ turn.book.to = NeverEnds \/ turn.at < turn.book.to
    /\ turn.reply.says \ {"PRICE"} \subseteq turn.facts
=============================================================================

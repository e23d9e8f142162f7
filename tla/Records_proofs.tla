---------------------------- MODULE Records_proofs ----------------------------
(* What the CRM promises: the commands that create companies, contacts,     *)
(* opportunities and contact points, the files read of them, and the pages  *)
(* of the lead console, for every number of callers, readers, rows, leads,  *)
(* notes, rules and calls under way, and every set of payloads.             *)
EXTENDS MCCrm, OrderLemmas, SequenceTheorems, TLAPS

\* A row that is read may be answered for what was asked.
Answers(asked, row) ==
  /\ row.kind = asked.kind /\ asked.kind \in {"COMPANY", "CONTACT_POINT"}
  /\ asked.kind = "COMPANY" => SameCompany(asked, row)
  /\ asked.kind = "CONTACT_POINT" => row.of = asked.of

\* What a transaction has found out so far of the rows that were there when it began:
\* none has the domain, and none in the country a similar name.
TxOk(t) ==
  /\ t.at # "idle" => /\ t.key \in CommandKeys /\ t.request \in Requests
                      /\ t.began <= Len(rows)
  /\ t.at \in {"domain", "resolve"} => Asked(t).kind = "COMPANY"
  /\ t.at = "hash" => Asked(t).kind = "CONTACT_POINT"
  /\ t.at = "link" => t.found \in DOMAIN rows /\ Answers(Asked(t), Row(t.found))
  /\ t.at \in {"resolve", "insert"} /\ Asked(t).kind = "COMPANY" =>
       \A r \in 1..t.began : Row(r).kind = "COMPANY" => ~SameDomain(Row(r), Asked(t))
  /\ t.at = "insert" /\ Asked(t).kind = "COMPANY" /\ Asked(t).country # None =>
       \/ t.identity = "AMBIGUOUS"
       \/ \A r \in 1..t.began : Row(r).kind = "COMPANY" /\ Row(r).country = Asked(t).country =>
            ~(SimilarityTo(Asked(t), r) >= 60)

\* The row and the ledger's entry of its key name each other.
RowOk(r) ==
  /\ ledger[<<Row(r).kind, rows[r].key>>].row = r
  /\ Row(r).kind # "COMPANY" =>
       Row(r).of \in DOMAIN rows /\ Row(Row(r).of).kind = Belongs[Row(r).kind]

\* An entry names a row of its operation that answers what was asked.
EntryOk(o, e) ==
  e # NoEntry =>
    /\ e.row \in DOMAIN rows /\ Payloads[e.request].kind = o[1]
    /\ \/ Row(e.row) = Payloads[e.request]
       \/ Answers(Payloads[e.request], Row(e.row))

\* Of two rows the later was created by a transaction that began before the earlier
\* was there, or the two have nothing in common.
PairOk(r, s) ==
  /\ Row(r).kind = "COMPANY" /\ Row(s).kind = "COMPANY" =>
       /\ SameDomain(Row(r), Row(s)) => r > rows[s].began
       /\ Row(r).country # None /\ Row(r).country = Row(s).country =>
            /\ SimilarityTo(Row(s), r) >= 60 /\ rows[s].identity # "AMBIGUOUS"
               => r > rows[s].began
            /\ Row(r).legal # None => Row(r).legal # Row(s).legal
  /\ Row(r).kind = "CONTACT_POINT" /\ Row(s).kind = "CONTACT_POINT" => Row(r).value # Row(s).value

RecordInv ==
  /\ RecordTypeOK
  /\ \A c \in Callers : TxOk(tx[c])
  /\ \A r \in DOMAIN rows : RowOk(r)
  /\ \A o \in DOMAIN ledger : EntryOk(o, ledger[o])
  /\ \A r, s \in DOMAIN rows : r < s => PairOk(r, s)

-----------------------------------------------------------------------------

\* What every proof below uses of the invariant.
LEMMA RecordFacts ==
  ASSUME RecordInv
  PROVE  /\ rows \in Seq([request : Requests, identity : Identities, key : CommandKeys,
                          began : Nat])
         /\ Len(rows) \in Nat /\ DOMAIN rows = 1..Len(rows)
         /\ tx \in [Callers -> Transaction]
         /\ \A r \in DOMAIN rows : /\ rows[r].request \in Requests /\ rows[r].key \in CommandKeys
                                   /\ Row(r).kind \in Kinds /\ rows[r].began \in Nat
         /\ ledger \in [Kinds \X CommandKeys ->
              [request : Requests, row : DOMAIN rows, bytes : {"object", None}] \cup {NoEntry}]
<1> DEFINE Line == [request : Requests, identity : Identities, key : CommandKeys, began : Nat]
<1>1. rows \in Seq(Line) /\ tx \in [Callers -> Transaction]
  BY DEF RecordInv, RecordTypeOK
<1>2. Len(rows) \in Nat /\ DOMAIN rows = 1..Len(rows)
  BY <1>1
<1>3. \A r \in DOMAIN rows : rows[r] \in Line
  <2> HIDE DEF Line
  <2>. QED  BY <1>1, <1>2, ElementOfSeq
<1>4. \A r \in DOMAIN rows : Row(r).kind \in Kinds
  BY <1>3, RecordAssumption DEF RecordAssumption, Row
<1>. QED  BY <1>1, <1>2, <1>3, <1>4 DEF RecordInv, RecordTypeOK

LEMMA TxMoves ==
  ASSUME tx \in [Callers -> Transaction], NEW c \in Callers, NEW x \in Transaction,
         tx' = [tx EXCEPT ![c] = x]
  PROVE  /\ tx' \in [Callers -> Transaction] /\ tx'[c] = x
         /\ \A d \in Callers : d # c => tx'[d] = tx[d]
OBVIOUS

\* What holds of the rows that are there goes on to hold when others are appended.
LEMMA RowsStay ==
  ASSUME RecordInv, Len(rows') \in Nat, Len(rows) <= Len(rows'), DOMAIN rows' = 1..Len(rows'),
         \A r \in DOMAIN rows : rows'[r] = rows[r]
  PROVE  /\ \A r \in DOMAIN rows : r \in DOMAIN rows' /\ Row(r)' = Row(r)
         /\ \A t \in Transaction : TxOk(t) => TxOk(t)'
         /\ \A o, e : EntryOk(o, e) => EntryOk(o, e)'
         /\ \A r, s \in DOMAIN rows : PairOk(r, s) => PairOk(r, s)'
<1>1. Len(rows) \in Nat /\ DOMAIN rows = 1..Len(rows)
  BY RecordFacts
<1>2. \A r \in DOMAIN rows : r \in DOMAIN rows' /\ Row(r)' = Row(r)
  BY <1>1 DEF Row
<1>3. ASSUME NEW t \in Transaction, TxOk(t)
      PROVE  TxOk(t)'
  <2>1. t.began \in Nat /\ (t.at # "idle" => t.began <= Len(rows) /\ t.began <= Len(rows'))
    BY <1>1, <1>3 DEF TxOk, Transaction
  <2>2. t.at # "idle" => \A r \in 1..t.began : r \in DOMAIN rows /\ Row(r)' = Row(r)
    BY <1>1, <1>2, <2>1
  <2>3. t.at # "idle" => \A r \in 1..t.began : SimilarityTo(Asked(t), r)' = SimilarityTo(Asked(t), r)
    BY <2>2 DEF SimilarityTo, Asked
  <2>. QED  BY <1>2, <1>3, <2>1, <2>2, <2>3 DEF TxOk, Asked, Answers, SameCompany, SameDomain
<1>4. ASSUME NEW o, NEW e, EntryOk(o, e)
      PROVE  EntryOk(o, e)'
  BY <1>2, <1>4 DEF EntryOk, Answers, SameCompany, SameDomain
<1>5. ASSUME NEW r \in DOMAIN rows, NEW s \in DOMAIN rows, PairOk(r, s)
      PROVE  PairOk(r, s)'
  <2>1. Row(r)' = Row(r) /\ Row(s)' = Row(s) /\ rows'[s] = rows[s]
    BY <1>2
  <2>. QED  BY <1>5, <2>1 DEF PairOk, SameDomain, SimilarityTo
<1>. QED  BY <1>2, <1>3, <1>4, <1>5

\* A step of a transaction that writes nothing.
LEMMA TxStep ==
  ASSUME RecordInv, NEW c \in Callers, NEW x \in Transaction,
         UNCHANGED <<rows, ledger>>, tx' = [tx EXCEPT ![c] = x],
         TxOk(x), x.found \in DOMAIN rows \cup {0}
  PROVE  RecordInv'
<1>1. /\ tx' \in [Callers -> Transaction] /\ tx'[c] = x
      /\ \A d \in Callers : d # c => tx'[d] = tx[d]
  BY TxMoves, RecordFacts
<1>2. RecordTypeOK'
  BY <1>1 DEF RecordInv, RecordTypeOK
<1>3. \A d \in Callers : TxOk(tx'[d])
  BY <1>1 DEF RecordInv
<1>4. /\ \A r \in DOMAIN rows : r \in DOMAIN rows' /\ Row(r)' = Row(r)
      /\ \A t \in Transaction : TxOk(t) => TxOk(t)'
      /\ \A o, e : EntryOk(o, e) => EntryOk(o, e)'
      /\ \A r, s \in DOMAIN rows : PairOk(r, s) => PairOk(r, s)'
  BY RowsStay, RecordFacts
<1>5. \A d \in Callers : TxOk(tx[d])'
  <2> SUFFICES ASSUME NEW d \in Callers
               PROVE  TxOk(tx[d])'
    OBVIOUS
  <2>1. PICK t \in Transaction : t = tx'[d] /\ TxOk(t)
    BY <1>1, <1>3
  <2>2. TxOk(t)'
    BY <1>4, <2>1
  <2>. QED  BY <2>1, <2>2 DEF TxOk, Asked
<1>6. \A r \in DOMAIN rows' : RowOk(r)'
  BY DEF RecordInv, RowOk, Row
<1>7. \A o \in DOMAIN ledger' : EntryOk(o, ledger[o])'
  BY DEF RecordInv, EntryOk, Row, Answers
<1>8. \A r, s \in DOMAIN rows' : r < s => PairOk(r, s)'
  BY <1>4 DEF RecordInv
<1>. QED  BY <1>2, <1>5, <1>6, <1>7, <1>8 DEF RecordInv

\* A transaction that is answered or rolled back leaves no trace.
LEMMA EndKeeps ==
  ASSUME RecordInv, NEW c \in Callers, EndTx(c), UNCHANGED <<rows, ledger>>
  PROVE  RecordInv'
<1>1. NoTx \in Transaction /\ NoTx.at = "idle" /\ NoTx.found = 0
  BY DEF NoTx, Transaction, Identities
<1>2. TxOk(NoTx)
  BY <1>1 DEF TxOk
<1>. QED  BY <1>1, <1>2, TxStep DEF EndTx

LEMMA BeginKeeps ==
  ASSUME RecordInv, NEW c \in Callers, NEW key \in CommandKeys, NEW request \in Requests,
         BeginCreate(c, key, request)
  PROVE  RecordInv'
<1> DEFINE x == [NoTx EXCEPT !.at = "ledger", !.key = key, !.request = request,
                             !.began = Len(rows)]
<1>1. Len(rows) \in Nat
  BY RecordFacts
<1>2. /\ x \in Transaction /\ x.at = "ledger" /\ x.key = key /\ x.request = request
      /\ x.began = Len(rows) /\ x.found = 0
  BY <1>1 DEF NoTx, Transaction, Identities
<1>3. tx' = [tx EXCEPT ![c] = x] /\ UNCHANGED <<rows, ledger>>
  BY DEF BeginCreate
<1> HIDE DEF x
<1>4. TxOk(x)
  BY <1>1, <1>2 DEF TxOk
<1>. QED  BY <1>2, <1>3, <1>4, TxStep

\* What the state says of a transaction that is under way.
LEMMA TxFacts ==
  ASSUME RecordInv, NEW c \in Callers, tx[c].at # "idle"
  PROVE  /\ tx[c] \in Transaction /\ TxOk(tx[c])
         /\ tx[c].key \in CommandKeys /\ tx[c].request \in Requests
         /\ tx[c].began \in Nat /\ tx[c].began <= Len(rows)
         /\ Asked(tx[c]).kind \in Kinds /\ tx[c].found \in DOMAIN rows \cup {0}
<1>1. tx[c] \in Transaction /\ TxOk(tx[c]) /\ tx[c].found \in DOMAIN rows \cup {0}
  BY RecordFacts DEF RecordInv, RecordTypeOK
<1>2. tx[c].request \in Requests
  BY <1>1 DEF TxOk
<1>. QED  BY <1>1, <1>2, RecordAssumption DEF RecordAssumption, TxOk, Transaction, Asked

\* A transaction moved to a place and nothing else.
LEMMA StepMoves ==
  ASSUME RecordInv, NEW c \in Callers, tx[c].at # "idle",
         NEW place \in {"domain", "resolve", "hash", "insert", "throws"}, Step(c, place)
  PROVE  \E x \in Transaction :
           /\ tx' = [tx EXCEPT ![c] = x] /\ x.at = place
           /\ x.key = tx[c].key /\ x.request = tx[c].request /\ x.found = tx[c].found
           /\ x.identity = tx[c].identity /\ x.began = tx[c].began
           /\ Asked(x) = Asked(tx[c])
<1> DEFINE x == [tx[c] EXCEPT !.at = place]
<1>1. tx[c] \in Transaction
  BY TxFacts
<1>2. /\ x \in Transaction /\ x.at = place
      /\ x.key = tx[c].key /\ x.request = tx[c].request /\ x.found = tx[c].found
      /\ x.identity = tx[c].identity /\ x.began = tx[c].began
  BY <1>1 DEF Transaction
<1>3. tx' = [tx EXCEPT ![c] = x]
  BY DEF Step
<1> HIDE DEF x
<1>. QED  BY <1>2, <1>3 DEF Asked

\* A row was found: the transaction goes on to put its key on record for it.
LEMMA LinkMoves ==
  ASSUME RecordInv, NEW c \in Callers, tx[c].at # "idle", NEW r \in DOMAIN rows,
         tx' = [tx EXCEPT ![c].at = "link", ![c].found = r], UNCHANGED <<rows, ledger>>,
         Answers(Asked(tx[c]), Row(r))
  PROVE  RecordInv'
<1> DEFINE x == [tx[c] EXCEPT !.at = "link", !.found = r]
<1>1. tx[c] \in Transaction /\ r \in Nat
  BY TxFacts, RecordFacts
<1>2. /\ x \in Transaction /\ x.at = "link" /\ x.found = r
      /\ x.key = tx[c].key /\ x.request = tx[c].request /\ x.began = tx[c].began
  BY <1>1 DEF Transaction
<1>3. tx' = [tx EXCEPT ![c] = x]
  OBVIOUS
<1> HIDE DEF x
<1>4. Asked(x) = Asked(tx[c])
  BY <1>2 DEF Asked
<1>5. TxOk(x)
  BY <1>2, <1>4, TxFacts DEF TxOk
<1>. QED  BY <1>2, <1>3, <1>5, TxStep

LEMMA ReadLedgerKeeps ==
  ASSUME RecordInv, NEW c \in Callers, ReadLedger(c)
  PROVE  RecordInv'
<1>1. tx[c].at = "ledger" /\ UNCHANGED <<rows, ledger>>
  BY DEF ReadLedger
<1>2. Asked(tx[c]).kind \in Kinds
  BY <1>1, TxFacts
<1>3. CASE Step(c, AfterLedger(Asked(tx[c])))
  <2>1. AfterLedger(Asked(tx[c])) \in {"domain", "resolve", "hash", "insert"}
    BY DEF AfterLedger
  <2>2. PICK x \in Transaction :
           /\ tx' = [tx EXCEPT ![c] = x] /\ x.at = AfterLedger(Asked(tx[c]))
           /\ x.key = tx[c].key /\ x.request = tx[c].request /\ x.found = tx[c].found
           /\ x.identity = tx[c].identity /\ x.began = tx[c].began
           /\ Asked(x) = Asked(tx[c])
    BY <1>1, <1>3, <2>1, StepMoves
  <2>3. /\ x.at \in {"domain", "resolve"} => Asked(x).kind = "COMPANY"
        /\ x.at = "hash" => Asked(x).kind = "CONTACT_POINT"
        /\ x.at = "insert" => Asked(x).kind # "COMPANY"
        /\ x.at = "resolve" => Asked(x).website = None
    BY <2>2 DEF AfterLedger
  <2>4. TxOk(x)
    BY <1>1, <2>1, <2>2, <2>3, TxFacts DEF TxOk, SameDomain
  <2>. QED  BY <1>1, <2>2, <2>4, TxFacts, TxStep
<1>4. CASE Step(c, "throws")
  <2>1. PICK x \in Transaction :
           /\ tx' = [tx EXCEPT ![c] = x] /\ x.at = "throws"
           /\ x.key = tx[c].key /\ x.request = tx[c].request /\ x.found = tx[c].found
           /\ x.identity = tx[c].identity /\ x.began = tx[c].began
           /\ Asked(x) = Asked(tx[c])
    BY <1>1, <1>4, StepMoves
  <2>2. TxOk(x)
    BY <1>1, <2>1, TxFacts DEF TxOk
  <2>. QED  BY <1>1, <2>1, <2>2, TxFacts, TxStep
<1>5. CASE EndTx(c)
  BY <1>1, <1>5, EndKeeps
<1>. QED  BY <1>3, <1>4, <1>5 DEF ReadLedger

LEMMA MatchDomainKeeps ==
  ASSUME RecordInv, NEW c \in Callers, MatchDomain(c)
  PROVE  RecordInv'
<1>1. tx[c].at = "domain" /\ UNCHANGED <<rows, ledger>> /\ Asked(tx[c]).kind = "COMPANY"
  BY TxFacts DEF MatchDomain, TxOk
<1>2. ASSUME NEW r \in ByDomain(Asked(tx[c])),
             tx' = [tx EXCEPT ![c].at = "link", ![c].found = r]
      PROVE  RecordInv'
  <2>1. r \in DOMAIN rows /\ Answers(Asked(tx[c]), Row(r))
    BY <1>1, <1>2 DEF ByDomain, RowsOf, Answers, SameCompany, SameDomain
  <2>. QED  BY <1>1, <1>2, <2>1, LinkMoves
<1>3. CASE ByDomain(Asked(tx[c])) = {} /\ Step(c, "resolve")
  <2>1. PICK x \in Transaction :
           /\ tx' = [tx EXCEPT ![c] = x] /\ x.at = "resolve"
           /\ x.key = tx[c].key /\ x.request = tx[c].request /\ x.found = tx[c].found
           /\ x.identity = tx[c].identity /\ x.began = tx[c].began
           /\ Asked(x) = Asked(tx[c])
    BY <1>1, <1>3, StepMoves
  <2>2. \A r \in 1..x.began : r \in DOMAIN rows
    BY <1>1, <2>1, TxFacts, RecordFacts
  <2>3. \A r \in DOMAIN rows : Row(r).kind = "COMPANY" => ~SameDomain(Row(r), Asked(x))
    BY <1>3, <2>1 DEF ByDomain, RowsOf
  <2>4. TxOk(x)
    BY <1>1, <2>1, <2>2, <2>3, TxFacts DEF TxOk
  <2>. QED  BY <1>1, <2>1, <2>4, TxFacts, TxStep
<1>. QED  BY <1>2, <1>3 DEF MatchDomain

\* If a known company of the country has a similar enough name, one is the closest.
LEMMA SomeIsClosest ==
  ASSUME RecordInv, NEW t, t.request \in Requests, Asked(t).kind = "COMPANY",
         Closest(Asked(t)) = {}
  PROVE  \A r \in Known : Row(r).country = Asked(t).country => ~(SimilarityTo(Asked(t), r) >= 60)
<1> SUFFICES ASSUME NEW r \in Known, Row(r).country = Asked(t).country,
                    SimilarityTo(Asked(t), r) >= 60
             PROVE  FALSE
  OBVIOUS
<1> DEFINE scored == {s \in Known : Row(s).country = Asked(t).country}
           f == [s \in scored |-> SimilarityTo(Asked(t), s)]
<1>1. scored \subseteq 1..Len(rows) /\ r \in scored
  BY RecordFacts DEF Known, RowsOf
<1>2. IsFiniteSet(scored)
  <2>1. \A n \in Nat : IsFiniteSet(1..n)
    BY FS_Interval
  <2>2. IsFiniteSet(1..Len(rows))
    BY <2>1, RecordFacts
  <2>. QED  BY <1>1, <2>2, FS_Subset
<1>3. \A s \in scored : SimilarityTo(Asked(t), s) \in Nat
  BY RecordFacts, RecordAssumption
     DEF RecordAssumption, Known, RowsOf, Row, SimilarityTo, Asked
<1>4. f \in [scored -> Nat]
  BY <1>3
<1>5. \E x \in scored : \A y \in scored : f[y] <= f[x]
  <2> HIDE DEF scored, f
  <2>. QED  BY <1>1, <1>2, <1>4, SomeIsGreatest
<1>6. PICK x \in scored : \A y \in scored : SimilarityTo(Asked(t), y) <= SimilarityTo(Asked(t), x)
  BY <1>5
<1>7. SimilarityTo(Asked(t), x) >= 60
  BY <1>1, <1>3, <1>6
<1>8. x \in Closest(Asked(t))
  BY <1>6, <1>7 DEF Closest
<1>. QED  BY <1>8

LEMMA ResolveIdentityKeeps ==
  ASSUME RecordInv, NEW c \in Callers, ResolveIdentity(c)
  PROVE  RecordInv'
<1> DEFINE asked == Asked(tx[c])
<1>1. tx[c].at = "resolve" /\ UNCHANGED <<rows, ledger>> /\ asked.kind = "COMPANY"
      /\ tx[c].request \in Requests /\ tx[c] \in Transaction
  BY TxFacts DEF ResolveIdentity, TxOk
<1>2. CASE asked.country = None
  <2>1. PICK x \in Transaction :
           /\ tx' = [tx EXCEPT ![c] = x] /\ x.at = "insert"
           /\ x.key = tx[c].key /\ x.request = tx[c].request /\ x.found = tx[c].found
           /\ x.identity = tx[c].identity /\ x.began = tx[c].began
           /\ Asked(x) = Asked(tx[c])
    BY <1>1, <1>2, StepMoves DEF ResolveIdentity
  <2>2. TxOk(x)
    BY <1>1, <1>2, <2>1, TxFacts DEF TxOk
  <2>. QED  BY <1>1, <2>1, <2>2, TxFacts, TxStep
<1>3. ASSUME asked.country # None, NEW r \in ResolveCompanyEntity(asked),
             tx' = [tx EXCEPT ![c].at = "link", ![c].found = r]
      PROVE  RecordInv'
  <2>1. r \in ByLegalIdentifier(asked) \/ r \in Closest(asked)
    BY <1>3 DEF ResolveCompanyEntity
  <2>2. r \in DOMAIN rows /\ Answers(asked, Row(r))
    BY <1>1, <2>1
       DEF ByLegalIdentifier, Closest, Known, RowsOf, Answers, SameCompany, SimilarityTo
  <2>. QED  BY <1>1, <1>3, <2>2, LinkMoves
<1>4. ASSUME asked.country # None, ResolveCompanyEntity(asked) = {},
             tx' = [tx EXCEPT ![c].at = "insert", ![c].identity = IdentityStatus(asked)]
      PROVE  RecordInv'
  <2> DEFINE status == IdentityStatus(asked)
             x == [tx[c] EXCEPT !.at = "insert", !.identity = status]
  <2>1. status \in {"AMBIGUOUS", "RESOLVED"} /\ (status # "AMBIGUOUS" => ~Tied(asked))
    BY DEF IdentityStatus
  <2> HIDE DEF status
  <2>2. /\ x \in Transaction /\ x.at = "insert" /\ x.identity = status /\ x.found = tx[c].found
        /\ x.key = tx[c].key /\ x.request = tx[c].request /\ x.began = tx[c].began
    BY <1>1, <2>1 DEF Transaction, Identities
  <2>3. tx' = [tx EXCEPT ![c] = x]
    BY <1>4 DEF status
  <2> HIDE DEF x
  <2>4. Asked(x) = asked
    BY <2>2 DEF Asked
  <2>5. status # "AMBIGUOUS" => Closest(asked) = {}
    BY <1>4, <2>1 DEF ResolveCompanyEntity
  <2>6. status # "AMBIGUOUS" =>
          \A r \in DOMAIN rows : Row(r).kind = "COMPANY" /\ Row(r).country = asked.country =>
            ~(SimilarityTo(asked, r) >= 60)
    BY <1>1, <1>4, <2>5, SomeIsClosest DEF Known, RowsOf
  <2>7. \A r \in 1..x.began : r \in DOMAIN rows
    BY <1>1, <2>2, TxFacts, RecordFacts
  <2>8. TxOk(x)
    BY <1>1, <2>2, <2>4, <2>6, <2>7, TxFacts DEF TxOk
  <2>. QED  BY <1>1, <2>2, <2>3, <2>8, TxFacts, TxStep
<1>. QED  BY <1>2, <1>3, <1>4 DEF ResolveIdentity

LEMMA FindByHashKeeps ==
  ASSUME RecordInv, NEW c \in Callers, FindByHash(c)
  PROVE  RecordInv'
<1>1. tx[c].at = "hash" /\ UNCHANGED <<rows, ledger>> /\ Asked(tx[c]).kind = "CONTACT_POINT"
  BY TxFacts DEF FindByHash, TxOk
<1>2. ASSUME NEW r \in RowsOf("CONTACT_POINT"), Row(r).of = Asked(tx[c]).of,
             tx' = [tx EXCEPT ![c].at = "link", ![c].found = r]
      PROVE  RecordInv'
  <2>1. r \in DOMAIN rows /\ Answers(Asked(tx[c]), Row(r))
    BY <1>1, <1>2 DEF RowsOf, Answers
  <2>. QED  BY <1>1, <1>2, <2>1, LinkMoves
<1>3. CASE Step(c, "insert")
  <2>1. PICK x \in Transaction :
           /\ tx' = [tx EXCEPT ![c] = x] /\ x.at = "insert"
           /\ x.key = tx[c].key /\ x.request = tx[c].request /\ x.found = tx[c].found
           /\ x.identity = tx[c].identity /\ x.began = tx[c].began
           /\ Asked(x) = Asked(tx[c])
    BY <1>1, <1>3, StepMoves
  <2>2. TxOk(x)
    BY <1>1, <2>1, TxFacts DEF TxOk
  <2>. QED  BY <1>1, <2>1, <2>2, TxFacts, TxStep
<1>. QED  BY <1>2, <1>3 DEF FindByHash

\* A key is recorded that no row is named by.
LEMMA PutFacts ==
  ASSUME RecordInv, NEW c \in Callers, tx[c].at # "idle", EntryOf(tx[c]) = NoEntry,
         NEW n \in Nat, ledger' = Put(tx[c], n), NEW o, o = <<Asked(tx[c]).kind, tx[c].key>>
  PROVE  /\ o \in Kinds \X CommandKeys /\ DOMAIN ledger' = Kinds \X CommandKeys
         /\ ledger'[o].request = tx[c].request /\ ledger'[o].row = n
         /\ ledger'[o] \in [request : Requests, row : {n}, bytes : {"object", None}]
         /\ \A other \in Kinds \X CommandKeys : other # o => ledger'[other] = ledger[other]
         /\ \A r \in DOMAIN rows : <<Row(r).kind, rows[r].key>> \in (Kinds \X CommandKeys) \ {o}
<1>1. o \in Kinds \X CommandKeys /\ tx[c].request \in Requests
  BY TxFacts
<1> DEFINE bytes == IF Asked(tx[c]).kind = "CONTACT_POINT" THEN "object" ELSE None
           entry == [request |-> tx[c].request, row |-> n, bytes |-> bytes]
<1>2. entry \in [request : Requests, row : {n}, bytes : {"object", None}]
      /\ entry.request = tx[c].request /\ entry.row = n
  BY <1>1
<1>3. ledger' = [ledger EXCEPT ![o] = entry]
  BY DEF Put
<1> HIDE DEF entry
<1>4. /\ DOMAIN ledger' = Kinds \X CommandKeys /\ ledger'[o] = entry
      /\ \A other \in Kinds \X CommandKeys : other # o => ledger'[other] = ledger[other]
  BY <1>1, <1>3, RecordFacts
<1>5. ledger[o] = NoEntry
  BY DEF EntryOf
<1>6. ASSUME NEW r \in DOMAIN rows
      PROVE  <<Row(r).kind, rows[r].key>> \in (Kinds \X CommandKeys) \ {o}
  <2>1. Row(r).kind \in Kinds /\ rows[r].key \in CommandKeys /\ r # 0
    BY RecordFacts
  <2>2. ledger[<<Row(r).kind, rows[r].key>>].row = r
    BY DEF RecordInv, RowOk
  <2>3. NoEntry.row = 0
    BY DEF NoEntry
  <2>. QED  BY <1>5, <2>1, <2>2, <2>3
<1>. QED  BY <1>1, <1>2, <1>4, <1>6

LEMMA CommitLinkKeeps ==
  ASSUME RecordInv, NEW c \in Callers, CommitLink(c)
  PROVE  RecordInv'
<1> DEFINE t == tx[c]
           o == <<Asked(t).kind, t.key>>
<1>1. t.at = "link" /\ EntryOf(t) = NoEntry /\ ledger' = Put(t, t.found) /\ rows' = rows
      /\ tx' = [tx EXCEPT ![c] = NoTx]
  BY DEF CommitLink, EndTx
<1>2. t.found \in DOMAIN rows /\ Answers(Asked(t), Row(t.found)) /\ t.found \in Nat
  BY <1>1, TxFacts, RecordFacts DEF TxOk
<1>3. /\ o \in Kinds \X CommandKeys /\ DOMAIN ledger' = Kinds \X CommandKeys
      /\ ledger'[o].request = t.request /\ ledger'[o].row = t.found
      /\ ledger'[o] \in [request : Requests, row : {t.found}, bytes : {"object", None}]
      /\ \A other \in Kinds \X CommandKeys : other # o => ledger'[other] = ledger[other]
      /\ \A r \in DOMAIN rows : <<Row(r).kind, rows[r].key>> \in (Kinds \X CommandKeys) \ {o}
  BY <1>1, <1>2, PutFacts
<1>4. NoTx \in Transaction /\ NoTx.at = "idle" /\ NoTx.found = 0
  BY DEF NoTx, Transaction, Identities
<1>5. /\ tx' \in [Callers -> Transaction] /\ tx'[c] = NoTx
      /\ \A d \in Callers : d # c => tx'[d] = tx[d]
  BY <1>1, <1>4, TxMoves, RecordFacts
<1>6. \A r \in DOMAIN rows : Row(r)' = Row(r)
  BY <1>1 DEF Row
<1>7. RecordTypeOK'
  <2> DEFINE Entry == [request : Requests, row : DOMAIN rows, bytes : {"object", None}]
                      \cup {NoEntry}
  <2>1. ledger' \in [Kinds \X CommandKeys -> Entry]
    <3>1. ledger'[o] \in Entry
      BY <1>2, <1>3
    <3>2. ledger \in [Kinds \X CommandKeys -> Entry]
      BY RecordFacts
    <3>3. \A other \in Kinds \X CommandKeys : ledger'[other] \in Entry
      <4> HIDE DEF Entry, o
      <4>. QED  BY <1>3, <3>1, <3>2
    <3>4. ledger' = [other \in Kinds \X CommandKeys |-> ledger'[other]]
      <4>1. \E other : ledger' = [ledger EXCEPT ![o] = other]
        BY <1>1 DEF Put
      <4>2. DOMAIN ledger = Kinds \X CommandKeys
        BY RecordFacts
      <4> HIDE DEF o, Entry
      <4>. QED  BY <4>1, <4>2
    <3> HIDE DEF Entry
    <3>. QED  BY <3>3, <3>4
  <2>2. \A d \in Callers : tx'[d].found \in DOMAIN rows \cup {0}
    BY <1>4, <1>5 DEF RecordInv, RecordTypeOK
  <2>. QED  BY <1>1, <1>5, <2>1, <2>2 DEF RecordInv, RecordTypeOK
<1>8. \A d \in Callers : TxOk(tx[d])'
  <2> SUFFICES ASSUME NEW d \in Callers
               PROVE  TxOk(tx[d])'
    OBVIOUS
  <2>1. TxOk(NoTx)
    BY <1>4 DEF TxOk
  <2>2. PICK y \in Transaction : y = tx'[d] /\ TxOk(y)
    BY <1>4, <1>5, <2>1 DEF RecordInv
  <2>3. TxOk(y)'
    BY <1>1, <2>2, RowsStay, RecordFacts
  <2>. QED  BY <2>2, <2>3 DEF TxOk, Asked
<1>9. \A r \in DOMAIN rows' : RowOk(r)'
  <2> SUFFICES ASSUME NEW r \in DOMAIN rows
               PROVE  RowOk(r)'
    BY <1>1
  <2>1. ledger'[<<Row(r).kind, rows[r].key>>] = ledger[<<Row(r).kind, rows[r].key>>]
    BY <1>3
  <2>. QED  BY <1>1, <1>6, <2>1 DEF RecordInv, RowOk
<1>10. \A q \in DOMAIN ledger' : EntryOk(q, ledger[q])'
  <2> SUFFICES ASSUME NEW q \in Kinds \X CommandKeys
               PROVE  EntryOk(q, ledger[q])'
    BY <1>3
  <2>1. CASE q = o
    <3>1. Payloads[ledger'[q].request].kind = q[1]
      BY <1>3, <2>1 DEF Asked
    <3>2. Answers(Payloads[ledger'[q].request], Row(ledger'[q].row))
      BY <1>2, <1>3, <2>1 DEF Asked
    <3>. QED  BY <1>1, <1>2, <1>3, <1>6, <2>1, <3>1, <3>2 DEF EntryOk, Answers
  <2>2. CASE q # o
    <3>1. PICK e : e = ledger[q]
      OBVIOUS
    <3>2. ledger'[q] = e
      BY <1>3, <2>2, <3>1
    <3>3. EntryOk(q, e)
      BY <3>1, RecordFacts DEF RecordInv
    <3>4. EntryOk(q, e)'
      BY <1>1, <3>3, RowsStay, RecordFacts
    <3>. QED  BY <3>2, <3>4 DEF EntryOk
  <2>. QED  BY <2>1, <2>2
<1>11. \A r, s \in DOMAIN rows' : r < s => PairOk(r, s)'
  BY <1>1, RowsStay, RecordFacts DEF RecordInv
<1>. QED  BY <1>7, <1>8, <1>9, <1>10, <1>11 DEF RecordInv

\* A company that is inserted has no namesake among the rows its transaction saw,
\* and no row at all has its legal identifier or its value.
LEMMA NewRowIsApart ==
  ASSUME RecordInv, NEW c \in Callers, tx[c].at = "insert", InsertSucceeds(Asked(tx[c])),
         NEW r \in DOMAIN rows
  PROVE  /\ Row(r).kind = "COMPANY" /\ Asked(tx[c]).kind = "COMPANY" =>
              /\ SameDomain(Row(r), Asked(tx[c])) => r > tx[c].began
              /\ Row(r).country # None /\ Row(r).country = Asked(tx[c]).country =>
                   /\ SimilarityTo(Asked(tx[c]), r) >= 60 /\ tx[c].identity # "AMBIGUOUS"
                      => r > tx[c].began
                   /\ Row(r).legal # None => Row(r).legal # Asked(tx[c]).legal
         /\ Row(r).kind = "CONTACT_POINT" /\ Asked(tx[c]).kind = "CONTACT_POINT" =>
              Row(r).value # Asked(tx[c]).value
<1> DEFINE t == tx[c]
           asked == Asked(t)
<1>1. /\ TxOk(t) /\ t.began \in Nat /\ r \in Nat /\ r >= 1
      /\ r > t.began \/ r \in 1..t.began
  BY TxFacts, RecordFacts
<1>2. ASSUME Row(r).kind = "COMPANY", asked.kind = "COMPANY", SameDomain(Row(r), asked)
      PROVE  r > t.began
  BY <1>1, <1>2 DEF TxOk
<1>3. ASSUME Row(r).kind = "COMPANY", asked.kind = "COMPANY", Row(r).country # None,
             Row(r).country = asked.country
      PROVE  /\ SimilarityTo(asked, r) >= 60 /\ t.identity # "AMBIGUOUS" => r > t.began
             /\ Row(r).legal # None => Row(r).legal # asked.legal
  <2>1. SimilarityTo(asked, r) >= 60 /\ t.identity # "AMBIGUOUS" => r > t.began
    BY <1>1, <1>3 DEF TxOk
  <2>2. Row(r).legal # None => Row(r).legal # asked.legal
    BY <1>3 DEF InsertSucceeds, ByLegalIdentifier, Known, RowsOf
  <2>. QED  BY <2>1, <2>2
<1>4. ASSUME Row(r).kind = "CONTACT_POINT", asked.kind = "CONTACT_POINT"
      PROVE  Row(r).value # asked.value
  BY <1>4 DEF InsertSucceeds, RowsOf
<1>. QED  BY <1>2, <1>3, <1>4

LEMMA CommitInsertKeeps ==
  ASSUME RecordInv, NEW c \in Callers, CommitInsert(c)
  PROVE  RecordInv'
<1> DEFINE t == tx[c]
           n == Len(rows) + 1
           o == <<Asked(t).kind, t.key>>
           Line == [request : Requests, identity : Identities, key : CommandKeys, began : Nat]
           line == NewRow(t)
<1>1. /\ t.at = "insert" /\ Len(rows) < MaxRows /\ InsertSucceeds(Asked(t))
      /\ EntryOf(t) = NoEntry /\ rows' = Append(rows, line) /\ ledger' = Put(t, n)
      /\ tx' = [tx EXCEPT ![c] = NoTx]
  BY DEF CommitInsert, EndTx
<1>2. /\ t \in Transaction /\ t.key \in CommandKeys /\ t.request \in Requests
      /\ t.began \in Nat /\ t.began <= Len(rows) /\ Asked(t).kind \in Kinds
      /\ Len(rows) \in Nat /\ DOMAIN rows = 1..Len(rows) /\ n \in Nat
  BY <1>1, TxFacts, RecordFacts
<1>3. /\ line \in Line /\ line.request = t.request /\ line.key = t.key
      /\ line.identity = t.identity /\ line.began = t.began
  BY <1>2 DEF NewRow, Transaction
<1>4. /\ rows' \in Seq(Line) /\ Len(rows') = n /\ rows'[n] = line
      /\ \A r \in 1..Len(rows) : rows'[r] = rows[r]
  <2>1. rows \in Seq(Line)
    BY RecordFacts
  <2> HIDE DEF Line, line
  <2>. QED  BY <1>1, <1>3, <2>1, AppendProperties
<1>5. Len(rows') \in Nat /\ DOMAIN rows' = 1..n /\ Len(rows) <= Len(rows')
  BY <1>2, <1>4
<1>6. \A r \in 1..n : r = n \/ r \in DOMAIN rows
  BY <1>2
<1>7. /\ \A r \in DOMAIN rows : r \in DOMAIN rows' /\ Row(r)' = Row(r)
      /\ \A u \in Transaction : TxOk(u) => TxOk(u)'
      /\ \A q, e : EntryOk(q, e) => EntryOk(q, e)'
      /\ \A r, s \in DOMAIN rows : PairOk(r, s) => PairOk(r, s)'
  BY <1>2, <1>4, <1>5, RowsStay
<1>8. Payloads[rows'[n].request] = Asked(t)
  BY <1>3, <1>4 DEF Asked
<1>9. /\ o \in Kinds \X CommandKeys /\ DOMAIN ledger' = Kinds \X CommandKeys
      /\ ledger'[o].request = t.request /\ ledger'[o].row = n
      /\ ledger'[o] \in [request : Requests, row : {n}, bytes : {"object", None}]
      /\ \A other \in Kinds \X CommandKeys : other # o => ledger'[other] = ledger[other]
      /\ \A r \in DOMAIN rows : <<Row(r).kind, rows[r].key>> \in (Kinds \X CommandKeys) \ {o}
  BY <1>1, <1>2, PutFacts
<1>10. NoTx \in Transaction /\ NoTx.at = "idle" /\ NoTx.found = 0
  BY DEF NoTx, Transaction, Identities
<1>11. /\ tx' \in [Callers -> Transaction] /\ tx'[c] = NoTx
       /\ \A d \in Callers : d # c => tx'[d] = tx[d]
  BY <1>1, <1>10, TxMoves, RecordFacts
<1>12. RecordTypeOK'
  <2> DEFINE Entry == [request : Requests, row : 1..n, bytes : {"object", None}]
                      \cup {NoEntry}
  <2>1. ledger' \in [Kinds \X CommandKeys -> Entry]
    <3>1. ledger'[o] \in Entry
      BY <1>2, <1>9
    <3>2. ledger \in [Kinds \X CommandKeys -> Entry]
      BY <1>2, RecordFacts
    <3>3. \A other \in Kinds \X CommandKeys : ledger'[other] \in Entry
      <4> HIDE DEF Entry, o
      <4>. QED  BY <1>9, <3>1, <3>2
    <3>4. ledger' = [other \in Kinds \X CommandKeys |-> ledger'[other]]
      <4>1. \E other : ledger' = [ledger EXCEPT ![o] = other]
        BY <1>1 DEF Put
      <4>2. DOMAIN ledger = Kinds \X CommandKeys
        BY RecordFacts
      <4> HIDE DEF o, Entry
      <4>. QED  BY <4>1, <4>2
    <3> HIDE DEF Entry
    <3>. QED  BY <3>3, <3>4
  <2>2. \A d \in Callers : tx'[d].found \in DOMAIN rows' \cup {0}
    BY <1>2, <1>5, <1>10, <1>11 DEF RecordInv, RecordTypeOK
  <2>3. Len(rows') <= MaxRows
    BY <1>1, <1>2, <1>4, RecordAssumption DEF RecordAssumption
  <2>4. \A r \in DOMAIN rows' : rows'[r].began < r
    <3> HIDE DEF line
    <3>. QED  BY <1>2, <1>3, <1>4, <1>5, <1>6 DEF RecordInv, RecordTypeOK
  <2>. QED  BY <1>4, <1>5, <1>11, <2>1, <2>2, <2>3, <2>4 DEF RecordTypeOK
<1>13. \A d \in Callers : TxOk(tx[d])'
  <2> SUFFICES ASSUME NEW d \in Callers
               PROVE  TxOk(tx[d])'
    OBVIOUS
  <2>1. TxOk(NoTx)
    BY <1>10 DEF TxOk
  <2>2. PICK y \in Transaction : y = tx'[d] /\ TxOk(y)
    BY <1>10, <1>11, <2>1, RecordFacts DEF RecordInv
  <2>3. TxOk(y)'
    BY <1>7, <2>2
  <2>. QED  BY <2>2, <2>3 DEF TxOk, Asked
<1>14. \A r \in DOMAIN rows' : RowOk(r)'
  <2> SUFFICES ASSUME NEW r \in DOMAIN rows'
               PROVE  RowOk(r)'
    OBVIOUS
  <2>1. CASE r = n
    <3>1. Asked(t).kind # "COMPANY" => Asked(t).of \in RowsOf(Belongs[Asked(t).kind])
      BY <1>1, <1>2 DEF InsertSucceeds, Belongs, Kinds
    <3>2. Row(r)' = Asked(t) /\ ledger'[<<Row(r)'.kind, rows'[r].key>>].row = r
      BY <1>3, <1>4, <1>8, <1>9, <2>1 DEF Row
    <3>. QED  BY <1>7, <3>1, <3>2 DEF RowOk, RowsOf
  <2>2. CASE r \in DOMAIN rows
    <3>1. RowOk(r) /\ Row(r)' = Row(r) /\ rows'[r] = rows[r]
      BY <1>2, <1>4, <1>7, <2>2 DEF RecordInv
    <3>2. ledger'[<<Row(r).kind, rows[r].key>>] = ledger[<<Row(r).kind, rows[r].key>>]
      BY <1>9, <2>2
    <3>. QED  BY <1>7, <3>1, <3>2 DEF RowOk
  <2>. QED  BY <1>5, <1>6, <2>1, <2>2
<1>15. \A q \in DOMAIN ledger' : EntryOk(q, ledger[q])'
  <2> SUFFICES ASSUME NEW q \in Kinds \X CommandKeys
               PROVE  EntryOk(q, ledger[q])'
    BY <1>9
  <2>1. CASE q = o
    <3>1. Payloads[ledger'[q].request] = Asked(t) /\ Asked(t).kind = q[1]
      BY <1>9, <2>1 DEF Asked
    <3>2. ledger'[q].row = n /\ n \in DOMAIN rows'
      BY <1>2, <1>5, <1>9, <2>1
    <3>3. Payloads[rows'[ledger'[q].row].request] = Asked(t)
      <4> HIDE DEF n, o
      <4>. QED  BY <1>8, <3>2
    <3> HIDE DEF n, o
    <3>. QED  BY <3>1, <3>2, <3>3 DEF EntryOk, Row
  <2>2. CASE q # o
    <3>1. EntryOk(q, ledger[q]) /\ ledger'[q] = ledger[q]
      BY <1>9, <2>2, RecordFacts DEF RecordInv
    <3>2. EntryOk(q, ledger[q]) => EntryOk(q, ledger'[q])
      BY <3>1
    <3>3. PICK e : e = ledger'[q] /\ EntryOk(q, e)
      BY <3>1
    <3>4. EntryOk(q, e)'
      BY <1>7, <3>3
    <3>. QED  BY <3>3, <3>4 DEF EntryOk
  <2>. QED  BY <2>1, <2>2
<1>16. \A r, s \in DOMAIN rows' : r < s => PairOk(r, s)'
  <2> SUFFICES ASSUME NEW r \in DOMAIN rows', NEW s \in DOMAIN rows', r < s
               PROVE  PairOk(r, s)'
    OBVIOUS
  <2>1. r \in DOMAIN rows /\ (s = n \/ s \in DOMAIN rows)
    BY <1>2, <1>5
  <2>2. CASE s \in DOMAIN rows
    BY <1>7, <2>1, <2>2 DEF RecordInv
  <2>3. CASE s = n
    <3>1. Row(r)' = Row(r) /\ Row(s)' = Asked(t)
      BY <1>7, <1>8, <2>1, <2>3 DEF Row
    <3>2. rows'[s].began = t.began /\ rows'[s].identity = t.identity
      BY <1>3, <1>4, <2>3
    <3>3. SimilarityTo(Row(s), r)' = SimilarityTo(Asked(t), r)
      BY <3>1 DEF SimilarityTo
    <3>4. /\ Row(r).kind = "COMPANY" /\ Asked(t).kind = "COMPANY" =>
               /\ SameDomain(Row(r), Asked(t)) => r > t.began
               /\ Row(r).country # None /\ Row(r).country = Asked(t).country =>
                    /\ SimilarityTo(Asked(t), r) >= 60 /\ t.identity # "AMBIGUOUS"
                       => r > t.began
                    /\ Row(r).legal # None => Row(r).legal # Asked(t).legal
          /\ Row(r).kind = "CONTACT_POINT" /\ Asked(t).kind = "CONTACT_POINT" =>
               Row(r).value # Asked(t).value
      BY <1>1, <2>1, NewRowIsApart
    <3>5. SameDomain(Row(r), Row(s))' <=> SameDomain(Row(r), Asked(t))
      BY <3>1 DEF SameDomain
    <3>. QED  BY <3>1, <3>2, <3>3, <3>4, <3>5 DEF PairOk
  <2>. QED  BY <2>1, <2>2, <2>3
<1>. QED  BY <1>12, <1>13, <1>14, <1>15, <1>16 DEF RecordInv

LEMMA RecordStart ==
  ASSUME RecordInit
  PROVE  RecordInv
<1>1. /\ rows = << >> /\ DOMAIN rows = {} /\ Len(rows) = 0
      /\ rows \in Seq([request : Requests, identity : Identities, key : CommandKeys, began : Nat])
  BY EmptySeq DEF RecordInit
<1>2. /\ ledger = [o \in Kinds \X CommandKeys |-> NoEntry]
      /\ tx = [c \in Callers |-> NoTx]
  BY DEF RecordInit
<1>3. NoTx \in Transaction /\ NoTx.at = "idle" /\ NoTx.found = 0
  BY DEF NoTx, Transaction, Identities
<1>4. TxOk(NoTx)
  BY <1>3 DEF TxOk
<1>5. \A c \in Callers : TxOk(tx[c])
  BY <1>2, <1>4 DEF TxOk, Asked
<1>6. \A o \in DOMAIN ledger : EntryOk(o, ledger[o])
  BY <1>2 DEF EntryOk
<1>7. RecordTypeOK
  <2>1. ledger \in [Kinds \X CommandKeys ->
          [request : Requests, row : DOMAIN rows, bytes : {"object", None}] \cup {NoEntry}]
    BY <1>2
  <2>. QED  BY <1>1, <1>2, <1>3, <2>1, RecordAssumption DEF RecordTypeOK, RecordAssumption
<1>. QED  BY <1>1, <1>5, <1>6, <1>7 DEF RecordInv

LEMMA RecordStep ==
  ASSUME RecordInv, [RecordNext]_recordVars
  PROVE  RecordInv'
<1>1. ASSUME NEW c \in Callers, NEW key \in CommandKeys, NEW request \in Requests,
             BeginCreate(c, key, request)
      PROVE  RecordInv'
  BY <1>1, BeginKeeps
<1>2. ASSUME NEW c \in Callers, ReadLedger(c)
      PROVE  RecordInv'
  BY <1>2, ReadLedgerKeeps
<1>3. ASSUME NEW c \in Callers, MatchDomain(c)
      PROVE  RecordInv'
  BY <1>3, MatchDomainKeeps
<1>4. ASSUME NEW c \in Callers, ResolveIdentity(c)
      PROVE  RecordInv'
  BY <1>4, ResolveIdentityKeeps
<1>5. ASSUME NEW c \in Callers, FindByHash(c)
      PROVE  RecordInv'
  BY <1>5, FindByHashKeeps
<1>6. ASSUME NEW c \in Callers, CommitLink(c)
      PROVE  RecordInv'
  BY <1>6, CommitLinkKeeps
<1>7. ASSUME NEW c \in Callers, CommitInsert(c)
      PROVE  RecordInv'
  BY <1>7, CommitInsertKeeps
<1>8. ASSUME NEW c \in Callers, Rollback(c)
      PROVE  RecordInv'
  BY <1>8, EndKeeps DEF Rollback
<1>9. CASE UNCHANGED recordVars
  <2>1. UNCHANGED rows /\ UNCHANGED ledger /\ UNCHANGED tx
    BY <1>9 DEF recordVars
  <2>2. RecordTypeOK'
    BY <2>1 DEF RecordInv, RecordTypeOK
  <2>3. \A c \in Callers : TxOk(tx[c])'
    BY <2>1 DEF RecordInv, TxOk, Asked, Row, SimilarityTo
  <2>4. \A r \in DOMAIN rows' : RowOk(r)'
    BY <2>1 DEF RecordInv, RowOk, Row
  <2>5. \A o \in DOMAIN ledger' : EntryOk(o, ledger[o])'
    BY <2>1 DEF RecordInv, EntryOk, Row
  <2>6. \A r, s \in DOMAIN rows' : r < s => PairOk(r, s)'
    BY <2>1 DEF RecordInv, PairOk, Row, SimilarityTo
  <2>. QED  BY <2>2, <2>3, <2>4, <2>5, <2>6 DEF RecordInv
<1>. QED  BY <1>1, <1>2, <1>3, <1>4, <1>5, <1>6, <1>7, <1>8, <1>9 DEF RecordNext

LEMMA RecordInvariant == RecordSpec => []RecordInv
BY RecordStart, RecordStep, PTL DEF RecordSpec

LEMMA NamedAndUnique ==
  ASSUME RecordInv
  PROVE  RecordsAreNamedAndUnique
<1>1. ASSUME NEW r \in DOMAIN rows
      PROVE  ledger[<<Row(r).kind, rows[r].key>>].row = r
  BY DEF RecordInv, RowOk
<1>2. ASSUME NEW o \in DOMAIN ledger, ledger[o] # NoEntry
      PROVE  LET row == Row(ledger[o].row)
                 asked == Payloads[ledger[o].request] IN
             /\ row.kind = o[1] /\ asked.kind = o[1]
             /\ o[1] = "COMPANY" => row = asked \/ SameCompany(asked, row)
             /\ o[1] # "COMPANY" => row.of = asked.of /\ Row(row.of).kind = Belongs[o[1]]
  <2> DEFINE row == Row(ledger[o].row)
             asked == Payloads[ledger[o].request]
  <2>1. /\ ledger[o].row \in DOMAIN rows /\ asked.kind = o[1]
        /\ row = asked \/ Answers(asked, row)
    BY <1>2 DEF RecordInv, EntryOk
  <2>2. row.kind = o[1]
    BY <2>1 DEF Answers
  <2>3. o[1] = "COMPANY" => row = asked \/ SameCompany(asked, row)
    BY <2>1 DEF Answers
  <2>4. o[1] # "COMPANY" => row.of = asked.of
    BY <2>1, <2>2 DEF Answers
  <2>5. o[1] # "COMPANY" => Row(row.of).kind = Belongs[o[1]]
    BY <2>1, <2>2 DEF RecordInv, RowOk
  <2>. QED  BY <2>1, <2>2, <2>3, <2>4, <2>5
<1>3. ASSUME NEW r \in DOMAIN rows, NEW s \in DOMAIN rows, r < s, Row(r).kind = Row(s).kind
      PROVE  LET a == Row(r)
                 b == Row(s) IN
             /\ a.kind = "COMPANY" =>
                  /\ SameDomain(a, b) => r > rows[s].began
                  /\ a.country # None /\ a.country = b.country =>
                       /\ Similarity[<<b.name, a.name>>] >= 60 /\ rows[s].identity # "AMBIGUOUS"
                          => r > rows[s].began
                       /\ a.legal # None => a.legal # b.legal
             /\ a.kind = "CONTACT_POINT" => a.value # b.value
  BY <1>3 DEF RecordInv, PairOk, SimilarityTo
<1>. QED  BY <1>1, <1>2, <1>3 DEF RecordsAreNamedAndUnique

-----------------------------------------------------------------------------

\* Rows, ledger and transactions keep their types: an entry names a row that is
\* there, a row was begun before it was created, and what a transaction found is a row.
THEOREM RecordTypeCorrect == RecordSpec => []RecordTypeOK
<1>1. RecordInv => RecordTypeOK
  BY DEF RecordInv
<1>. QED  BY <1>1, RecordInvariant, PTL

\* However the requests that create companies, contacts, opportunities and contact
\* points overlap, repeat or fail, keys and rows name each other and no two rows stand
\* for one thing, but for transactions that overlapped.
THEOREM RecordsStayNamed == RecordSpec => []RecordsAreNamedAndUnique
BY RecordInvariant, NamedAndUnique, PTL

-----------------------------------------------------------------------------
(* The files of a tenant.                                                  *)

Event == [about : RecordIds, org : Tenants]
FileType ==
  [org : Tenants \cup {"none"}, company : RecordIds \cup {0},
   left : SUBSET {"contacts", "opportunities", "events"},
   contacts : SUBSET StoredRow, opportunities : SUBSET StoredRow, events : SUBSET Event,
   before : SUBSET StoredRow, seen : SUBSET StoredRow]

\* What a file has found is of its tenant and was committed; a query that has run
\* left nothing out of what was there when the file was asked for.
FileOk(f) ==
  /\ f.company \in RecordIds
  /\ f.before \subseteq committed /\ f.seen \subseteq committed
  /\ \E a \in committed : a.id = f.company /\ a.org = f.org
  /\ \A a \in f.contacts \cup f.opportunities : a \in committed /\ a.org = f.org
  /\ "contacts" \notin f.left =>
       \A a \in f.before : a.kind = "CONTACT" /\ a.org = f.org /\ a.of = f.company => a \in f.contacts
  /\ "opportunities" \notin f.left =>
       \A a \in f.before : a.kind = "OPPORTUNITY" /\ a.org = f.org /\ a.of = f.company => a \in f.opportunities
  /\ \A e \in f.events : e.org = f.org
  /\ "events" \notin f.left =>
       \A a \in f.seen : a.org = f.org => [about |-> a.id, org |-> f.org] \in f.events

\* A company belongs to nothing.
Parented(row) == row.kind = "COMPANY" => row.of = 0

Inserting(w) == creation[w].at # "idle"

\* Identifiers name one row, committed or not, and every committed row has its event.
TenantInv ==
  /\ TenantTypeOK /\ file \in [Readers -> FileType]
  /\ \A w \in Writers : Inserting(w) => creation[w].row \in StoredRow /\ Parented(creation[w].row)
  /\ \A a, b \in committed : a.id = b.id => a = b
  /\ \A w \in Writers : Inserting(w) => \A a \in committed : a.id # creation[w].row.id
  /\ \A v, w \in Writers : v # w /\ Inserting(v) /\ Inserting(w) => creation[v].row.id # creation[w].row.id
  /\ \A a \in committed : Parented(a) /\ [about |-> a.id, org |-> a.org] \in trail
  /\ \A r \in Readers : file[r] # NoFile => FileOk(file[r])

LEMMA TenantStart == TenantInit => TenantInv
<1>. SUFFICES ASSUME TenantInit PROVE TenantInv
  OBVIOUS
<1>1. NoFile \in FileType
  BY DEF NoFile, FileType
<1>2. TenantTypeOK
  BY DEF TenantInit, TenantTypeOK, NoCreation, NoFile
<1>3. file \in [Readers -> FileType] /\ \A r \in Readers : file[r] = NoFile
  BY <1>1 DEF TenantInit
<1>4. \A w \in Writers : ~Inserting(w)
  BY DEF TenantInit, Inserting, NoCreation
<1>5. committed = {}
  BY DEF TenantInit
<1>. QED  BY <1>2, <1>3, <1>4, <1>5 DEF TenantInv

LEMMA TenantTyped ==
  ASSUME TenantInv
  PROVE  /\ committed \subseteq StoredRow /\ trail \subseteq Event
         /\ creation \in [Writers -> [at : {"idle", "audit", "commit"}, row : StoredRow \cup {NoRow}]]
         /\ file \in [Readers -> FileType]
BY DEF TenantInv, TenantTypeOK, Event

\* A row that is inserted takes an identifier that no other row has.
LEMMA NewRowIsNew ==
  ASSUME TenantInv, FreshIds # {}, NEW kind \in TenantKinds, NEW org \in Tenants,
         NEW of \in RecordIds \cup {0}
  PROVE  /\ NewTenantRow(kind, org, of) \in StoredRow
         /\ NewTenantRow(kind, org, of).kind = kind /\ NewTenantRow(kind, org, of).of = of
         /\ NewTenantRow(kind, org, of).id \in FreshIds
<1> DEFINE n == CHOOSE m \in FreshIds : \A k \in FreshIds : m <= k
<1>1. FreshIds \in SUBSET Nat /\ FreshIds \subseteq RecordIds
  BY TenantAssumption DEF FreshIds, TenantAssumption
<1>2. \E m \in FreshIds : \A k \in FreshIds : m <= k
  BY <1>1, MinIsLeast
<1>3. n \in FreshIds
  BY <1>2
<1> HIDE DEF n
<1>4. NewTenantRow(kind, org, of) = [id |-> n, kind |-> kind, org |-> org, of |-> of]
  BY DEF NewTenantRow, n
<1>. QED  BY <1>1, <1>3, <1>4 DEF StoredRow

\* Files do not change when rows are added.
LEMMA FilesKeep ==
  ASSUME committed \subseteq committed', NEW f, FileOk(f)
  PROVE  FileOk(f)'
BY DEF FileOk

\* A step of one file.
LEMMA FileKeeps ==
  ASSUME TenantInv, NEW r \in Readers, NEW f \in FileType, f # NoFile => FileOk(f),
         file' = [file EXCEPT ![r] = f], UNCHANGED <<committed, trail, creation>>
  PROVE  TenantInv'
<1>1. file' \in [Readers -> FileType] /\ \A q \in Readers : file'[q] = IF q = r THEN f ELSE file[q]
  BY TenantTyped
<1>2. TenantTypeOK'
  BY <1>1 DEF TenantInv, TenantTypeOK, FileType
<1>3. \A g : FileOk(g)' = FileOk(g)
  BY DEF FileOk
<1>4. \A q \in Readers : file'[q] # NoFile => FileOk(file'[q])
  BY <1>1 DEF TenantInv
<1>5. \A w \in Writers : Inserting(w)' = Inserting(w)
  BY DEF Inserting
<1>6. committed' = committed /\ trail' = trail /\ creation' = creation
  OBVIOUS
<1>. QED  BY <1>1, <1>2, <1>3, <1>4, <1>5, <1>6 DEF TenantInv

LEMMA TenantStep == TenantInv /\ [TenantNext]_tenantVars => TenantInv'
<1>. SUFFICES ASSUME TenantInv, [TenantNext]_tenantVars PROVE TenantInv'
  OBVIOUS
<1>1. /\ committed \subseteq StoredRow /\ trail \subseteq Event
      /\ creation \in [Writers -> [at : {"idle", "audit", "commit"}, row : StoredRow \cup {NoRow}]]
      /\ file \in [Readers -> FileType]
  BY TenantTyped
<1>2. ASSUME NEW w \in Writers, FreshIds # {}, NEW kind \in TenantKinds, NEW org \in Tenants,
             NEW of \in RecordIds \cup {0}, InsertRow(w, NewTenantRow(kind, org, of))
      PROVE  TenantInv'
  <2>1. PICK row : row = NewTenantRow(kind, org, of)
    OBVIOUS
  <2>2. row \in StoredRow /\ row.id \in FreshIds /\ row.kind = kind /\ row.of = of
    BY <1>2, <2>1, NewRowIsNew
  <2>3. /\ creation[w].at = "idle" /\ ParentExists(row.kind, row.of)
        /\ creation' = [creation EXCEPT ![w] = [at |-> "audit", row |-> row]]
        /\ committed' = committed /\ trail' = trail /\ file' = file
    BY <1>2, <2>1 DEF InsertRow
  <2>4. Parented(row)
    BY <2>3 DEF ParentExists, Parented
  <2>5. /\ \A a \in committed : a.id # row.id
        /\ \A v \in Writers : creation[v].row.id # row.id
    BY <2>2 DEF FreshIds
  <2>6. /\ creation' \in [Writers -> [at : {"idle", "audit", "commit"}, row : StoredRow \cup {NoRow}]]
        /\ creation'[w] = [at |-> "audit", row |-> row]
        /\ \A v \in Writers : v # w => creation'[v] = creation[v]
    BY <1>1, <2>2, <2>3
  <2>7. \A v \in Writers : v # w => (Inserting(v)' = Inserting(v))
    BY <2>6 DEF Inserting
  <2>8. TenantTypeOK'
    BY <2>3, <2>6 DEF TenantInv, TenantTypeOK
  <2>9. \A v \in Writers : Inserting(v)' => creation'[v].row \in StoredRow /\ Parented(creation'[v].row)
    BY <2>2, <2>4, <2>6, <2>7 DEF TenantInv
  <2>10. \A v \in Writers : Inserting(v)' => \A a \in committed' : a.id # creation'[v].row.id
    BY <2>3, <2>5, <2>6, <2>7 DEF TenantInv
  <2>11. \A u, v \in Writers : u # v /\ Inserting(u)' /\ Inserting(v)' => creation'[u].row.id # creation'[v].row.id
    BY <2>5, <2>6, <2>7 DEF TenantInv
  <2>12. \A g : FileOk(g)' = FileOk(g)
    BY <2>3 DEF FileOk
  <2>. QED  BY <2>3, <2>8, <2>9, <2>10, <2>11, <2>12 DEF TenantInv
<1>3. ASSUME NEW w \in Writers, AppendEvent(w) PROVE TenantInv'
  <2>1. /\ creation[w].at = "audit" /\ creation' = [creation EXCEPT ![w].at = "commit"]
        /\ committed' = committed /\ trail' = trail /\ file' = file
    BY <1>3 DEF AppendEvent
  <2>2. /\ creation' \in [Writers -> [at : {"idle", "audit", "commit"}, row : StoredRow \cup {NoRow}]]
        /\ \A v \in Writers : creation'[v].row = creation[v].row
        /\ \A v \in Writers : Inserting(v)' = Inserting(v)
    BY <1>1, <2>1 DEF Inserting
  <2>3. TenantTypeOK'
    BY <2>1, <2>2 DEF TenantInv, TenantTypeOK
  <2>4. \A g : FileOk(g)' = FileOk(g)
    BY <2>1 DEF FileOk
  <2>. QED  BY <2>1, <2>2, <2>3, <2>4 DEF TenantInv
<1>4. ASSUME NEW w \in Writers, CommitCreation(w) PROVE TenantInv'
  <2>1. PICK row : row = creation[w].row
    OBVIOUS
  <2>2. /\ creation[w].at = "commit" /\ committed' = committed \cup {row}
        /\ trail' = trail \cup {[about |-> row.id, org |-> row.org]}
        /\ creation' = [creation EXCEPT ![w] = NoCreation] /\ file' = file
    BY <1>4, <2>1 DEF CommitCreation
  <2>3. /\ row \in StoredRow /\ Parented(row) /\ \A a \in committed : a.id # row.id
        /\ \A v \in Writers : v # w /\ Inserting(v) => creation[v].row.id # row.id
    BY <2>1, <2>2 DEF TenantInv, Inserting
  <2>4. /\ creation' \in [Writers -> [at : {"idle", "audit", "commit"}, row : StoredRow \cup {NoRow}]]
        /\ ~Inserting(w)'
        /\ \A v \in Writers : v # w => creation'[v] = creation[v] /\ (Inserting(v)' = Inserting(v))
    BY <1>1, <2>2 DEF Inserting, NoCreation
  <2>5. TenantTypeOK'
    <3>1. [about |-> row.id, org |-> row.org] \in Event
      BY <2>3 DEF Event, StoredRow
    <3>. QED  BY <1>1, <2>2, <2>3, <2>4, <3>1 DEF TenantInv, TenantTypeOK, Event
  <2>6. \A v \in Writers : Inserting(v)' => /\ creation'[v].row \in StoredRow /\ Parented(creation'[v].row)
                                            /\ \A a \in committed' : a.id # creation'[v].row.id
    BY <2>2, <2>3, <2>4 DEF TenantInv
  <2>7. \A u, v \in Writers : u # v /\ Inserting(u)' /\ Inserting(v)' => creation'[u].row.id # creation'[v].row.id
    BY <2>4 DEF TenantInv
  <2>8. \A a, b \in committed' : a.id = b.id => a = b
    BY <2>2, <2>3 DEF TenantInv
  <2>9. \A a \in committed' : Parented(a) /\ [about |-> a.id, org |-> a.org] \in trail'
    BY <2>2, <2>3 DEF TenantInv
  <2>10. \A r \in Readers : file'[r] # NoFile => FileOk(file[r])'
    BY <2>2, FilesKeep DEF TenantInv
  <2>. QED  BY <2>2, <2>5, <2>6, <2>7, <2>8, <2>9, <2>10 DEF TenantInv
<1>5. ASSUME NEW w \in Writers, RollbackCreation(w) PROVE TenantInv'
  <2>1. /\ creation' = [creation EXCEPT ![w] = NoCreation]
        /\ committed' = committed /\ trail' = trail /\ file' = file
    BY <1>5 DEF RollbackCreation
  <2>2. /\ creation' \in [Writers -> [at : {"idle", "audit", "commit"}, row : StoredRow \cup {NoRow}]]
        /\ ~Inserting(w)'
        /\ \A v \in Writers : v # w => creation'[v] = creation[v] /\ (Inserting(v)' = Inserting(v))
    BY <1>1, <2>1 DEF Inserting, NoCreation
  <2>3. TenantTypeOK'
    BY <2>1, <2>2 DEF TenantInv, TenantTypeOK
  <2>4. \A g : FileOk(g)' = FileOk(g)
    BY <2>1 DEF FileOk
  <2>. QED  BY <2>1, <2>2, <2>3, <2>4 DEF TenantInv
<1>6. ASSUME NEW r \in Readers, NEW org \in Tenants, NEW company \in RecordIds, OpenFile(r, org, company)
      PROVE  TenantInv'
  <2>1. PICK f : f = [NoFile EXCEPT !.org = org, !.company = company, !.before = committed,
                                    !.left = {"contacts", "opportunities", "events"}]
    OBVIOUS
  <2>2. /\ f \in FileType /\ f.org = org /\ f.company = company /\ f.before = committed
        /\ f.left = {"contacts", "opportunities", "events"}
        /\ f.contacts = {} /\ f.opportunities = {} /\ f.events = {} /\ f.seen = {}
    BY <1>1, <2>1 DEF NoFile, FileType
  <2>3. /\ file' = [file EXCEPT ![r] = f] /\ UNCHANGED <<committed, trail, creation>>
        /\ \E a \in committed : a.id = company /\ a.org = org
    BY <1>6, <2>1 DEF OpenFile, ListedCompanies
  <2>4. FileOk(f)
    BY <2>2, <2>3 DEF FileOk
  <2>. QED  BY <2>2, <2>3, <2>4, FileKeeps
<1>7. ASSUME NEW r \in Readers, ReadContacts(r) PROVE TenantInv'
  <2>1. PICK old : old = file[r]
    OBVIOUS
  <2>2. PICK found : found = {a \in committed : a.kind = "CONTACT" /\ a.org = old.org /\ a.of = old.company}
    OBVIOUS
  <2>3. PICK f : f = [old EXCEPT !.left = old.left \ {"contacts"}, !.contacts = found]
    OBVIOUS
  <2>4. old \in FileType /\ "contacts" \in old.left /\ FileOk(old)
    <3>1. old # NoFile
      BY <1>7, <2>1 DEF ReadContacts, NoFile
    <3>. QED  BY <1>1, <1>7, <2>1, <3>1 DEF ReadContacts, TenantInv
  <2>5. file' = [file EXCEPT ![r] = f] /\ UNCHANGED <<committed, trail, creation>>
    <3>1. {row \in ListedContacts(file[r].org) : row.of = file[r].company} = found
      BY <2>1, <2>2 DEF ListedContacts
    <3>. QED  BY <1>1, <1>7, <2>1, <2>3, <3>1 DEF ReadContacts, FileType
  <2>6. /\ f \in FileType /\ f.org = old.org /\ f.company = old.company /\ f.before = old.before
        /\ f.left = old.left \ {"contacts"} /\ f.contacts = found
        /\ f.opportunities = old.opportunities /\ f.events = old.events /\ f.seen = old.seen
    BY <1>1, <2>2, <2>3, <2>4 DEF FileType
  <2>7. FileOk(f)
    BY <2>2, <2>4, <2>6 DEF FileOk
  <2>. QED  BY <2>5, <2>6, <2>7, FileKeeps
<1>8. ASSUME NEW r \in Readers, ReadOpportunities(r) PROVE TenantInv'
  <2>1. PICK old : old = file[r]
    OBVIOUS
  <2>2. PICK found : found = {a \in committed : a.kind = "OPPORTUNITY" /\ a.org = old.org /\ a.of = old.company}
    OBVIOUS
  <2>3. PICK f : f = [old EXCEPT !.left = old.left \ {"opportunities"}, !.opportunities = found]
    OBVIOUS
  <2>4. old \in FileType /\ "opportunities" \in old.left /\ FileOk(old)
    <3>1. old # NoFile
      BY <1>8, <2>1 DEF ReadOpportunities, NoFile
    <3>. QED  BY <1>1, <1>8, <2>1, <3>1 DEF ReadOpportunities, TenantInv
  <2>5. file' = [file EXCEPT ![r] = f] /\ UNCHANGED <<committed, trail, creation>>
    <3>1. {row \in ListedOpportunities(file[r].org) : row.of = file[r].company} = found
      BY <2>1, <2>2 DEF ListedOpportunities
    <3>. QED  BY <1>1, <1>8, <2>1, <2>3, <3>1 DEF ReadOpportunities, FileType
  <2>6. /\ f \in FileType /\ f.org = old.org /\ f.company = old.company /\ f.before = old.before
        /\ f.left = old.left \ {"opportunities"} /\ f.opportunities = found
        /\ f.contacts = old.contacts /\ f.events = old.events /\ f.seen = old.seen
    BY <1>1, <2>2, <2>3, <2>4 DEF FileType
  <2>7. FileOk(f)
    BY <2>2, <2>4, <2>6 DEF FileOk
  <2>. QED  BY <2>5, <2>6, <2>7, FileKeeps
<1>9. ASSUME NEW r \in Readers, ReadEvents(r) PROVE TenantInv'
  <2>1. PICK old : old = file[r]
    OBVIOUS
  <2>2. PICK found : found = {e \in trail : e.org = old.org}
    OBVIOUS
  <2>3. PICK f : f = [old EXCEPT !.left = old.left \ {"events"}, !.events = found, !.seen = committed]
    OBVIOUS
  <2>4. old \in FileType /\ "events" \in old.left /\ FileOk(old)
    <3>1. old # NoFile
      BY <1>9, <2>1 DEF ReadEvents, NoFile
    <3>. QED  BY <1>1, <1>9, <2>1, <3>1 DEF ReadEvents, TenantInv
  <2>5. file' = [file EXCEPT ![r] = f] /\ UNCHANGED <<committed, trail, creation>>
    <3>1. ListedEvents(file[r].org) = found
      BY <2>1, <2>2 DEF ListedEvents
    <3>. QED  BY <1>1, <1>9, <2>1, <2>3, <3>1 DEF ReadEvents, FileType
  <2>6. /\ f \in FileType /\ f.org = old.org /\ f.company = old.company /\ f.before = old.before
        /\ f.left = old.left \ {"events"} /\ f.contacts = old.contacts
        /\ f.opportunities = old.opportunities /\ f.events = found /\ f.seen = committed
    BY <1>1, <2>2, <2>3, <2>4 DEF FileType
  <2>7. \A a \in committed : a.org = f.org => [about |-> a.id, org |-> f.org] \in found
    BY <2>2, <2>6 DEF TenantInv
  <2>8. FileOk(f)
    BY <2>2, <2>4, <2>6, <2>7 DEF FileOk
  <2>. QED  BY <2>5, <2>6, <2>8, FileKeeps
<1>10. ASSUME NEW r \in Readers, CloseFile(r) PROVE TenantInv'
  <2>1. file' = [file EXCEPT ![r] = NoFile] /\ UNCHANGED <<committed, trail, creation>>
    BY <1>10 DEF CloseFile
  <2>2. NoFile \in FileType
    BY DEF NoFile, FileType
  <2>. QED  BY <2>1, <2>2, FileKeeps
<1>11. CASE UNCHANGED tenantVars
  BY <1>11 DEF tenantVars, TenantInv, TenantTypeOK, Inserting, FileOk
<1>. QED
  BY <1>2, <1>3, <1>4, <1>5, <1>6, <1>7, <1>8, <1>9, <1>10, <1>11 DEF TenantNext

LEMMA FilesAreWhole == TenantInv => FilesAreOwnAndWhole
<1>. SUFFICES ASSUME TenantInv, NEW r \in Readers, Complete(file[r])
              PROVE  LET f == file[r] IN
                     /\ \A row \in f.contacts \cup f.opportunities : row.org = f.org
                     /\ \A event \in Timeline(f) : event.org = f.org
                     /\ \A row \in f.before : row.org = f.org /\ row.of = f.company => row.id \in ShownIn(f)
                     /\ \A row \in f.seen : row.id \in ShownIn(f) => \E event \in Timeline(f) : event.about = row.id
  BY DEF FilesAreOwnAndWhole
<1>1. PICK f : f = file[r]
  OBVIOUS
<1>2. f \in FileType /\ FileOk(f) /\ f.left = {}
  BY <1>1, TenantTyped DEF Complete, TenantInv
<1>3. /\ committed \subseteq StoredRow /\ \A a, b \in committed : a.id = b.id => a = b
      /\ \A a \in committed : Parented(a)
  BY TenantTyped DEF TenantInv
<1>4. \A event \in Timeline(f) : event.org = f.org
  BY <1>2 DEF Timeline, FileOk
<1>5. ASSUME NEW row \in f.before, row.org = f.org, row.of = f.company PROVE row.id \in ShownIn(f)
  <2>1. row \in committed /\ row \in StoredRow /\ f.company # 0
    BY <1>2, <1>3, TenantAssumption DEF FileOk, TenantAssumption
  <2>2. row.kind = "CONTACT" \/ row.kind = "OPPORTUNITY"
    BY <1>3, <1>5, <2>1 DEF StoredRow, TenantKinds, Parented
  <2>3. row \in f.contacts \cup f.opportunities
    BY <1>2, <1>5, <2>2 DEF FileOk
  <2>. QED  BY <2>3 DEF ShownIn
<1>6. ASSUME NEW row \in f.seen, row.id \in ShownIn(f) PROVE \E event \in Timeline(f) : event.about = row.id
  <2>1. row \in committed
    BY <1>2 DEF FileOk
  <2>2. \E a \in committed : a.id = row.id /\ a.org = f.org
    BY <1>2, <1>6 DEF FileOk, ShownIn
  <2>3. row.org = f.org
    BY <1>3, <2>1, <2>2
  <2>4. [about |-> row.id, org |-> f.org] \in f.events
    BY <1>2, <2>3 DEF FileOk
  <2>. QED  BY <1>6, <2>4 DEF Timeline
<1>. QED  BY <1>1, <1>2, <1>4, <1>5, <1>6 DEF FileOk

-----------------------------------------------------------------------------
(* The page of the rules.                                                  *)

By(s) == ruleCalls[s].by
Loading(s) == ruleCalls[s].kind = "load"

\* One row's handler at a time, marked as pending; nothing else is awaited beside the
\* page's own load, and nothing is shown before it.
HandlersOk ==
  /\ \A s \in RuleSlots : By(s) = "page" =>
       /\ Loading(s) /\ ruleShown = {}
       /\ \A t \in RuleSlots : t # s => By(t) \in {"none", "nobody"}
  /\ \A s \in RuleSlots : By(s) = "row" =>
       pendingRule # 0 /\ \A t \in RuleSlots : By(t) = "row" => t = s
  /\ \A s \in RuleSlots : ruleCalls[s].at = "failed" => ~Loading(s)
  /\ \A s \in RuleSlots : ruleCalls[s].kind = "put" =>
       \A row \in ruleCalls[s].data : row.id = ruleCalls[s].rule

\* While nothing clouds the page, one handler at most is under way, and what it has
\* loaded, or has shown in the end, is what the server has.
ClearOk ==
  /\ \A s, t \in OnTheirWay : s = t
  /\ \A s \in RuleSlots : By(s) # "nobody"
  /\ \A s \in RuleSlots : Loading(s) /\ ruleCalls[s].at = "done" => ruleCalls[s].data = ruleStore
  /\ OnTheirWay = {} => ruleShown = ruleStore

RuleInv == RuleTypeOK /\ HandlersOk /\ (~clouded => ClearOk)

LEMMA RuleStart == RuleInit => RuleInv
<1>. SUFFICES ASSUME RuleInit PROVE RuleInv
  OBVIOUS
<1>1. /\ ruleCalls = [s \in RuleSlots |-> NoRuleCall] /\ clouded = TRUE /\ ruleShown = {}
      /\ pendingRule = 0 /\ ruleIds \subseteq Rules /\ ruleStore = [id : ruleIds, active : {TRUE}]
  BY DEF RuleInit
<1>2. ruleStore \subseteq Rule /\ StoredIds \subseteq ruleIds
  BY <1>1 DEF Rule, StoredIds
<1>3. RuleTypeOK
  BY <1>1, <1>2 DEF RuleTypeOK
<1>4. HandlersOk
  BY <1>1 DEF HandlersOk, By, Loading, NoRuleCall
<1>. QED  BY <1>1, <1>3, <1>4 DEF RuleInv

LEMMA RuleTyped ==
  ASSUME RuleInv
  PROVE  /\ ruleStore \subseteq Rule /\ ruleShown \subseteq Rule /\ ruleIds \subseteq Rules
         /\ StoredIds \subseteq ruleIds /\ pendingRule \in Rules \cup {0}
         /\ ruleCalls \in [RuleSlots -> RuleCall \cup {NoRuleCall}]
         /\ \A s \in RuleSlots : \/ ruleCalls[s] = NoRuleCall /\ By(s) = "none" /\ ~Loading(s)
                                    /\ ruleCalls[s].at = "none"
                                 \/ ruleCalls[s] # NoRuleCall /\ ruleCalls[s] \in RuleCall
                                    /\ By(s) \in {"page", "row", "form", "nobody"}
         /\ \A s \in RuleSlots : s \in OnTheirWay <=> ruleCalls[s] # NoRuleCall
BY DEF RuleInv, RuleTypeOK, RuleCall, NoRuleCall, By, Loading, OnTheirWay

\* A call that is sent.
LEMMA NewCall ==
  ASSUME NEW kind \in {"load", "put", "delete", "post"}, NEW by \in {"page", "row", "form"},
         NEW rule \in Rules \cup {0}, NEW data \in SUBSET Rule
  PROVE  \E c \in RuleCall :
           /\ c = NewRuleCall(kind, by, rule, data) /\ c # NoRuleCall
           /\ c.kind = kind /\ c.by = by /\ c.at = "sent" /\ c.rule = rule /\ c.data = data
<1> DEFINE c == NewRuleCall(kind, by, rule, data)
<1>1. /\ c \in RuleCall /\ c # NoRuleCall
      /\ c.kind = kind /\ c.by = by /\ c.at = "sent" /\ c.rule = rule /\ c.data = data
  BY DEF NewRuleCall, RuleCall, NoRuleCall
<1>. QED  BY <1>1

\* A call takes a place.
LEMMA CallsKeepType ==
  ASSUME RuleInv, NEW s \in RuleSlots, NEW c \in RuleCall \cup {NoRuleCall},
         ruleCalls' = [ruleCalls EXCEPT ![s] = c]
  PROVE  /\ ruleCalls' \in [RuleSlots -> RuleCall \cup {NoRuleCall}]
         /\ ruleCalls'[s] = c /\ \A t \in RuleSlots : t # s => ruleCalls'[t] = ruleCalls[t]
         /\ c # NoRuleCall => OnTheirWay' = (OnTheirWay \ {s}) \cup {s}
<1>1. /\ ruleCalls' \in [RuleSlots -> RuleCall \cup {NoRuleCall}]
      /\ ruleCalls'[s] = c /\ \A t \in RuleSlots : t # s => ruleCalls'[t] = ruleCalls[t]
  BY RuleTyped
<1>. QED  BY <1>1 DEF OnTheirWay

\* When the page is clear after a call was sent, the call is a load that runs alone, or
\* the page was clear before and neither the form's call nor nobody's was under way.
LEMMA ClearAfterSending ==
  ASSUME NEW others, NEW kind, NEW by, Sending(others, kind, by), ~clouded'
  PROVE  \/ others = {} /\ (kind = "load" \/ ~clouded)
         \/ ~clouded /\ by # "form" /\ \A t \in others : By(t) \notin {"form", "nobody"}
BY DEF Sending, By

\* A handler of a row begins when none is under way.
LEMMA RowBegins ==
  ASSUME RuleInv, NEW s \in RuleSlots, NEW kind \in {"put", "delete"}, NEW rule \in ruleShown,
         NEW data \in SUBSET Rule, \A row \in data : row.id = rule.id,
         pendingRule = 0, pendingRule' = rule.id,
         SendRule(s, kind, "row", rule.id, data), UNCHANGED <<ruleStore, ruleIds, ruleShown>>
  PROVE  RuleInv'
<1>1. rule \in Rule /\ rule.id \in Rules /\ rule.id # 0
  BY RuleTyped, RuleAssumption DEF Rule, RuleAssumption
<1>2. PICK c \in RuleCall :
        /\ c = NewRuleCall(kind, "row", rule.id, data) /\ c # NoRuleCall /\ c.kind = kind
        /\ c.by = "row" /\ c.at = "sent" /\ c.rule = rule.id /\ c.data = data
  BY <1>1, NewCall
<1>3. /\ ruleCalls' \in [RuleSlots -> RuleCall \cup {NoRuleCall}]
      /\ ruleCalls'[s].kind = kind /\ ruleCalls'[s].by = "row" /\ ruleCalls'[s].at = "sent"
      /\ ruleCalls'[s].rule = rule.id /\ ruleCalls'[s].data = data
      /\ \A t \in RuleSlots : t # s => ruleCalls'[t] = ruleCalls[t]
      /\ OnTheirWay' = OnTheirWay \cup {s}
      /\ ~clouded' => OnTheirWay = {} \/ \A t \in OnTheirWay : By(t) \notin {"form", "nobody"}
      /\ ~clouded' => ~clouded
  <2>1. /\ ruleCalls[s] = NoRuleCall /\ OnTheirWay \ {s} = OnTheirWay
        /\ ruleCalls' = [ruleCalls EXCEPT ![s] = c]
        /\ Sending(OnTheirWay, kind, "row")
    BY <1>2 DEF SendRule, OnTheirWay
  <2>2. /\ ruleCalls' \in [RuleSlots -> RuleCall \cup {NoRuleCall}] /\ ruleCalls'[s] = c
        /\ \A t \in RuleSlots : t # s => ruleCalls'[t] = ruleCalls[t]
        /\ OnTheirWay' = OnTheirWay \cup {s}
    BY <1>2, <2>1, CallsKeepType
  <2>3. kind # "load"
    OBVIOUS
  <2>. QED  BY <1>2, <2>1, <2>2, <2>3, ClearAfterSending
<1>4. \A t \in RuleSlots : By(t) \notin {"page", "row"}
  BY <1>1 DEF RuleInv, HandlersOk
<1>5. RuleTypeOK'
  BY <1>1, <1>3, RuleTyped DEF RuleTypeOK, StoredIds
<1>6. HandlersOk'
  BY <1>1, <1>3, <1>4 DEF RuleInv, HandlersOk, By, Loading
<1>7. ASSUME ~clouded' PROVE ClearOk'
  <2>1. OnTheirWay = {} /\ ~clouded
    BY <1>3, <1>4, <1>7, RuleTyped DEF OnTheirWay
  <2>2. ClearOk /\ OnTheirWay' = {s}
    BY <1>3, <2>1 DEF RuleInv
  <2>. QED  BY <1>3, <2>2 DEF ClearOk, By, Loading
<1>. QED  BY <1>5, <1>6, <1>7 DEF RuleInv

LEMMA CallIsAnswered ==
  ASSUME RuleInv, NEW s \in RuleSlots, ruleCalls[s] \in RuleCall,
         NEW answer \in {"done", "failed"}, NEW data \in SUBSET Rule, AnswerRule(s, answer, data)
  PROVE  /\ ruleCalls' \in [RuleSlots -> RuleCall \cup {NoRuleCall}] /\ ruleCalls'[s] \in RuleCall
         /\ ruleCalls'[s].kind = ruleCalls[s].kind /\ ruleCalls'[s].by = ruleCalls[s].by
         /\ ruleCalls'[s].rule = ruleCalls[s].rule
         /\ ruleCalls'[s].at = answer /\ ruleCalls'[s].data = data
         /\ \A t \in RuleSlots : t # s => ruleCalls'[t] = ruleCalls[t]
<1>1. PICK call : call = ruleCalls[s]
  OBVIOUS
<1>2. PICK c : c = [call EXCEPT !.at = answer, !.data = data]
  OBVIOUS
<1>3. /\ c \in RuleCall /\ c.kind = call.kind /\ c.by = call.by /\ c.rule = call.rule
      /\ c.at = answer /\ c.data = data
  BY <1>1, <1>2 DEF RuleCall
<1>4. ruleCalls' = [ruleCalls EXCEPT ![s] = c]
  BY <1>1, <1>2, RuleTyped DEF AnswerRule, RuleCall
<1>5. ruleCalls' \in [RuleSlots -> RuleCall \cup {NoRuleCall}] /\ ruleCalls'[s] = c
      /\ \A t \in RuleSlots : t # s => ruleCalls'[t] = ruleCalls[t]
  BY <1>3, <1>4, CallsKeepType
<1>. QED  BY <1>1, <1>3, <1>5

LEMMA RuleStep == RuleInv /\ [RuleNext]_ruleVars => RuleInv'
<1>. SUFFICES ASSUME RuleInv, [RuleNext]_ruleVars PROVE RuleInv'
  OBVIOUS
<1>1. NoRuleCall.kind = "none" /\ NoRuleCall.by = "none" /\ NoRuleCall.at = "none" /\ NoRuleCall.data = {}
  BY DEF NoRuleCall
<1>2. ASSUME NEW s \in RuleSlots, MountRules(s) PROVE RuleInv'
  <2>1. PICK c : c = NewRuleCall("load", "page", 0, {})
    OBVIOUS
  <2>2. c \in RuleCall /\ c.kind = "load" /\ c.by = "page" /\ c.at = "sent" /\ c # NoRuleCall
    BY <1>1, <2>1 DEF NewRuleCall, RuleCall
  <2>3. /\ ruleCalls' = [OrphanedCalls EXCEPT ![s] = c] /\ ruleCalls[s] = NoRuleCall
        /\ clouded' = (OnTheirWay # {}) /\ ruleShown' = {} /\ pendingRule' = 0
        /\ ruleStore' = ruleStore /\ ruleIds' = ruleIds
    BY <1>2, <2>1 DEF MountRules
  <2>4. \A t \in RuleSlots : /\ OrphanedCalls[t] \in RuleCall \cup {NoRuleCall}
                             /\ OrphanedCalls[t].by \in {"none", "nobody"}
                             /\ OrphanedCalls[t].kind = ruleCalls[t].kind
                             /\ OrphanedCalls[t].at = ruleCalls[t].at
                             /\ ruleCalls[t] = NoRuleCall => OrphanedCalls[t] = NoRuleCall
    BY <1>1, RuleTyped DEF OrphanedCalls, RuleCall
  <2>5. /\ ruleCalls' \in [RuleSlots -> RuleCall \cup {NoRuleCall}] /\ ruleCalls'[s] = c
        /\ \A t \in RuleSlots : t # s => ruleCalls'[t] = OrphanedCalls[t]
    <3>1. OrphanedCalls \in [RuleSlots -> RuleCall \cup {NoRuleCall}]
      BY <2>4 DEF OrphanedCalls
    <3>. QED  BY <2>2, <2>3, <3>1
  <2>6. RuleTypeOK'
    BY <2>3, <2>5, RuleTyped DEF RuleTypeOK, StoredIds
  <2>7. HandlersOk'
    <3>1. \A t \in RuleSlots : t # s => ruleCalls'[t].by \in {"none", "nobody"}
      BY <2>4, <2>5
    <3>2. \A t \in RuleSlots : ruleCalls'[t].at = "failed" => ruleCalls'[t].kind # "load"
      BY <2>2, <2>4, <2>5 DEF RuleInv, HandlersOk, Loading
    <3>3. \A t \in RuleSlots : ruleCalls'[t].kind = "put" =>
            \A row \in ruleCalls'[t].data : row.id = ruleCalls'[t].rule
      <4>1. \A t \in RuleSlots : /\ OrphanedCalls[t].data = ruleCalls[t].data
                                 /\ OrphanedCalls[t].rule = ruleCalls[t].rule
        BY <1>1, RuleTyped DEF OrphanedCalls, RuleCall
      <4>. QED  BY <2>2, <2>4, <2>5, <4>1 DEF RuleInv, HandlersOk
    <3>. QED  BY <2>2, <2>3, <2>5, <3>1, <3>2, <3>3 DEF HandlersOk, By, Loading
  <2>8. ASSUME ~clouded' PROVE ClearOk'
    <3>1. \A t \in RuleSlots : t # s => ruleCalls'[t] = NoRuleCall
      BY <2>3, <2>4, <2>5, <2>8, RuleTyped
    <3>. QED  BY <1>1, <2>2, <2>5, <3>1 DEF ClearOk, OnTheirWay, By, Loading
  <2>. QED  BY <2>6, <2>7, <2>8 DEF RuleInv
<1>3. ASSUME NEW s \in RuleSlots, HandleCreateRule(s) PROVE RuleInv'
  <2>1. /\ Mounted /\ ruleCalls[s] = NoRuleCall /\ OnTheirWay \ {s} = OnTheirWay
        /\ ruleCalls' = [ruleCalls EXCEPT ![s] = NewRuleCall("post", "form", 0, {})]
        /\ Sending(OnTheirWay, "post", "form")
        /\ ruleStore' = ruleStore /\ ruleIds' = ruleIds /\ ruleShown' = ruleShown /\ pendingRule' = pendingRule
    BY <1>3 DEF HandleCreateRule, FormOffered, SendRule, OnTheirWay
  <2>2. /\ ruleCalls' \in [RuleSlots -> RuleCall \cup {NoRuleCall}]
        /\ ruleCalls'[s].kind = "post" /\ ruleCalls'[s].by = "form" /\ ruleCalls'[s].at = "sent"
        /\ \A t \in RuleSlots : t # s => ruleCalls'[t] = ruleCalls[t]
        /\ OnTheirWay' = OnTheirWay \cup {s}
        /\ ~clouded' => OnTheirWay = {} /\ ~clouded
    <3>1. PICK c \in RuleCall :
            /\ c = NewRuleCall("post", "form", 0, {}) /\ c # NoRuleCall
            /\ c.kind = "post" /\ c.by = "form" /\ c.at = "sent"
      BY NewCall
    <3>2. /\ ruleCalls' \in [RuleSlots -> RuleCall \cup {NoRuleCall}] /\ ruleCalls'[s] = c
          /\ \A t \in RuleSlots : t # s => ruleCalls'[t] = ruleCalls[t]
          /\ OnTheirWay' = (OnTheirWay \ {s}) \cup {s}
      BY <2>1, <3>1, CallsKeepType
    <3>3. ~clouded' => OnTheirWay = {} /\ ~clouded
      BY <2>1, ClearAfterSending
    <3>. QED  BY <2>1, <3>1, <3>2, <3>3
  <2>3. RuleTypeOK'
    BY <2>1, <2>2, RuleTyped DEF RuleTypeOK, StoredIds
  <2>4. HandlersOk'
    BY <2>1, <2>2 DEF RuleInv, HandlersOk, By, Loading, Mounted
  <2>5. ASSUME ~clouded' PROVE ClearOk'
    <3>1. ClearOk /\ OnTheirWay' = {s}
      BY <2>2, <2>5 DEF RuleInv
    <3>. QED  BY <2>1, <2>2, <3>1 DEF ClearOk, By, Loading
  <2>. QED  BY <2>3, <2>4, <2>5 DEF RuleInv
<1>4. ASSUME NEW s \in RuleSlots, NEW rule \in Rule, HandleToggleRule(s, rule) PROVE RuleInv'
  <2>1. /\ {[rule EXCEPT !.active = ~@]} \in SUBSET Rule
        /\ \A row \in {[rule EXCEPT !.active = ~@]} : row.id = rule.id
    BY DEF Rule
  <2>. QED  BY <1>4, <2>1, RowBegins DEF HandleToggleRule, RuleButtons
<1>5. ASSUME NEW s \in RuleSlots, NEW rule \in Rule, HandleDeleteRule(s, rule) PROVE RuleInv'
  BY <1>5, RowBegins DEF HandleDeleteRule, RuleButtons
<1>6. ASSUME NEW s \in RuleSlots, ServeRule(s) PROVE RuleInv'
  <2>1. PICK call : call = ruleCalls[s]
    OBVIOUS
  <2>2. call.at = "sent" /\ ruleShown' = ruleShown /\ pendingRule' = pendingRule /\ clouded' = clouded
    BY <1>6, <2>1 DEF ServeRule
  <2>3. call \in RuleCall
    BY <1>1, <2>1, <2>2, RuleTyped
  <2>4. PICK answer \in {"done", "failed"}, data \in SUBSET Rule :
          /\ AnswerRule(s, answer, data)
          /\ answer = "failed" => call.kind # "load"
          /\ call.kind = "load" => data = ruleStore /\ ruleStore' = ruleStore
          /\ ruleStore' \subseteq Rule /\ ruleIds' \subseteq Rules /\ StoredIds' \subseteq ruleIds'
          /\ call.kind = "put" => data = {}
    <3> DEFINE Holds(answer, data) ==
          /\ AnswerRule(s, answer, data)
          /\ answer = "failed" => call.kind # "load"
          /\ call.kind = "load" => data = ruleStore /\ ruleStore' = ruleStore
          /\ ruleStore' \subseteq Rule /\ ruleIds' \subseteq Rules /\ StoredIds' \subseteq ruleIds'
          /\ call.kind = "put" => data = {}
    <3>1. ruleStore \subseteq Rule /\ ruleIds \subseteq Rules /\ StoredIds \subseteq ruleIds
      BY RuleTyped
    <3>2. CASE call.kind = "load" /\ AnswerRule(s, "done", ruleStore) /\ UNCHANGED <<ruleStore, ruleIds>>
      <4>1. Holds("done", ruleStore)
        BY <3>1, <3>2 DEF StoredIds
      <4>. QED  BY <3>1, <4>1
    <3>3. CASE /\ call.kind = "put" /\ AnswerRule(s, "done", {}) /\ ruleIds' = ruleIds
               /\ call.rule \in StoredIds /\ ruleStore' = WithoutRule(call.rule) \cup call.data
      <4>1. \A row \in call.data : row.id \in StoredIds /\ row \in Rule
        BY <2>1, <2>3, <3>3 DEF RuleInv, HandlersOk, RuleCall
      <4>2. ruleStore' \subseteq Rule /\ StoredIds' \subseteq StoredIds
        BY <3>1, <3>3, <4>1 DEF StoredIds, WithoutRule
      <4>3. Holds("done", {})
        BY <3>1, <3>3, <4>2
      <4>. QED  BY <4>3
    <3>4. CASE /\ call.kind = "delete" /\ AnswerRule(s, "done", {}) /\ ruleIds' = ruleIds
               /\ ruleStore' = WithoutRule(call.rule)
      <4>1. ruleStore' \subseteq Rule /\ StoredIds' \subseteq StoredIds
        BY <3>1, <3>4 DEF StoredIds, WithoutRule
      <4>2. Holds("done", {})
        BY <3>1, <3>4, <4>1
      <4>. QED  BY <4>2
    <3>5. CASE /\ call.kind # "load" /\ AnswerRule(s, "failed", {}) /\ UNCHANGED <<ruleStore, ruleIds>>
      <4>1. Holds("failed", {})
        BY <3>1, <3>5 DEF StoredIds
      <4>. QED  BY <4>1
    <3>6. CASE \E new \in Rules \ ruleIds, active \in BOOLEAN :
                 /\ call.kind = "post" /\ ruleStore' = ruleStore \cup {[id |-> new, active |-> active]}
                 /\ ruleIds' = ruleIds \cup {new} /\ AnswerRule(s, "done", {})
      <4>1. ruleStore' \subseteq Rule /\ ruleIds' \subseteq Rules /\ StoredIds' \subseteq ruleIds'
        BY <3>1, <3>6 DEF StoredIds, Rule
      <4>2. Holds("done", {})
        BY <3>6, <4>1
      <4>. QED  BY <4>2
    <3>7. call.kind = "post" => call.kind # "load"
      OBVIOUS
    <3> HIDE DEF Holds
    <3>. QED  BY <1>6, <2>1, <3>2, <3>3, <3>4, <3>5, <3>6, <3>7 DEF ServeRule
  <2>5. PICK c : c = ruleCalls'[s]
    OBVIOUS
  <2>6. /\ c \in RuleCall /\ c.kind = call.kind /\ c.by = call.by /\ c.at = answer /\ c.data = data
        /\ c.rule = call.rule
    BY <2>1, <2>3, <2>4, <2>5, CallIsAnswered
  <2>8. /\ ruleCalls' \in [RuleSlots -> RuleCall \cup {NoRuleCall}] /\ ruleCalls'[s] = c
        /\ \A t \in RuleSlots : t # s => ruleCalls'[t] = ruleCalls[t]
    BY <2>1, <2>3, <2>4, <2>5, CallIsAnswered
  <2>9. RuleTypeOK'
    BY <2>2, <2>4, <2>8, RuleTyped DEF RuleTypeOK
  <2>10. HandlersOk'
    <3>1. \A t \in RuleSlots : ruleCalls'[t].by = By(t) /\ ruleCalls'[t].kind = ruleCalls[t].kind
      BY <2>1, <2>6, <2>8 DEF By
    <3>2. \A t \in RuleSlots : ruleCalls'[t].at = "failed" => ruleCalls'[t].kind # "load"
      BY <2>4, <2>6, <2>8 DEF RuleInv, HandlersOk, Loading
    <3>3. \A t \in RuleSlots : ruleCalls'[t].kind = "put" =>
            \A row \in ruleCalls'[t].data : row.id = ruleCalls'[t].rule
      BY <2>4, <2>6, <2>8 DEF RuleInv, HandlersOk
    <3>. QED  BY <2>2, <3>1, <3>2, <3>3 DEF RuleInv, HandlersOk, By, Loading
  <2>11. ASSUME ~clouded' PROVE ClearOk'
    <3>1. ClearOk /\ OnTheirWay' = OnTheirWay /\ s \in OnTheirWay
      BY <1>1, <2>1, <2>2, <2>3, <2>6, <2>8, <2>11 DEF RuleInv, OnTheirWay, RuleCall
    <3>2. \A t \in RuleSlots : t # s => ruleCalls'[t].kind = "none"
      BY <1>1, <2>8, <3>1, RuleTyped DEF ClearOk
    <3>3. \A t \in RuleSlots : Loading(t)' /\ ruleCalls'[t].at = "done" => ruleCalls'[t].data = ruleStore'
      BY <2>4, <2>6, <2>8, <3>2 DEF Loading
    <3>. QED  BY <2>1, <2>6, <2>8, <3>1, <3>3 DEF ClearOk, By
  <2>. QED  BY <2>9, <2>10, <2>11 DEF RuleInv
<1>7. ASSUME NEW s \in RuleSlots, WriteWentWell(s) PROVE RuleInv'
  <2>1. /\ ruleCalls[s].at = "done" /\ ruleCalls[s].kind # "load" /\ By(s) # "nobody"
        /\ ruleCalls' = [ruleCalls EXCEPT ![s] = NewRuleCall("load", @.by, 0, {})]
        /\ Sending(OnTheirWay \ {s}, "load", By(s))
        /\ ruleStore' = ruleStore /\ ruleIds' = ruleIds /\ ruleShown' = ruleShown /\ pendingRule' = pendingRule
    BY <1>7 DEF WriteWentWell, By
  <2>2. By(s) \in {"row", "form"}
    BY <2>1, RuleTyped DEF RuleInv, HandlersOk, Loading
  <2>3. /\ ruleCalls' \in [RuleSlots -> RuleCall \cup {NoRuleCall}]
        /\ ruleCalls'[s].kind = "load" /\ ruleCalls'[s].by = By(s) /\ ruleCalls'[s].at = "sent"
        /\ \A t \in RuleSlots : t # s => ruleCalls'[t] = ruleCalls[t]
        /\ OnTheirWay' = (OnTheirWay \ {s}) \cup {s}
        /\ ~clouded' => OnTheirWay \ {s} = {} \/ ~clouded
    <3>1. PICK c \in RuleCall :
            /\ c = NewRuleCall("load", By(s), 0, {}) /\ c # NoRuleCall
            /\ c.kind = "load" /\ c.by = By(s) /\ c.at = "sent"
      BY <2>2, NewCall
    <3>2. ruleCalls' = [ruleCalls EXCEPT ![s] = c]
      BY <2>1, <3>1, RuleTyped DEF By
    <3>3. /\ ruleCalls' \in [RuleSlots -> RuleCall \cup {NoRuleCall}] /\ ruleCalls'[s] = c
          /\ \A t \in RuleSlots : t # s => ruleCalls'[t] = ruleCalls[t]
          /\ OnTheirWay' = (OnTheirWay \ {s}) \cup {s}
      BY <3>1, <3>2, CallsKeepType
    <3>4. ~clouded' => OnTheirWay \ {s} = {} \/ ~clouded
      BY <2>1, ClearAfterSending
    <3>. QED  BY <3>1, <3>3, <3>4
  <2>4. RuleTypeOK'
    BY <2>1, <2>3, RuleTyped DEF RuleTypeOK, StoredIds
  <2>5. HandlersOk'
    BY <2>1, <2>2, <2>3 DEF RuleInv, HandlersOk, By, Loading
  <2>6. ASSUME ~clouded' PROVE ClearOk'
    <3>1. s \in OnTheirWay
      BY <1>1, <2>1 DEF OnTheirWay
    <3>2. OnTheirWay = {s}
      BY <2>3, <2>6, <3>1 DEF RuleInv, ClearOk
    <3>3. OnTheirWay' = {s}
      BY <2>3, <3>2
    <3>4. \A t \in RuleSlots : t # s => ruleCalls'[t].by = "none" /\ ruleCalls'[t].kind = "none"
      BY <1>1, <2>3, <3>2, RuleTyped
    <3>. QED  BY <2>2, <2>3, <3>3, <3>4 DEF ClearOk, By, Loading
  <2>. QED  BY <2>4, <2>5, <2>6 DEF RuleInv
<1>8. ASSUME NEW s \in RuleSlots, WriteFailed(s) PROVE RuleInv'
  <2>1. /\ ruleCalls[s].at = "failed" /\ By(s) # "nobody"
        /\ ruleCalls' = [ruleCalls EXCEPT ![s] = NoRuleCall]
        /\ pendingRule' = IF By(s) = "form" THEN pendingRule ELSE 0
        /\ ruleStore' = ruleStore /\ ruleIds' = ruleIds /\ ruleShown' = ruleShown /\ clouded'
    BY <1>8 DEF WriteFailed, By
  <2>2. By(s) \in {"row", "form"}
    BY <1>1, <2>1, RuleTyped DEF RuleInv, HandlersOk
  <2>3. /\ ruleCalls' \in [RuleSlots -> RuleCall \cup {NoRuleCall}] /\ ruleCalls'[s] = NoRuleCall
        /\ \A t \in RuleSlots : t # s => ruleCalls'[t] = ruleCalls[t]
    BY <2>1, CallsKeepType
  <2>4. RuleTypeOK'
    BY <2>1, <2>3, RuleTyped DEF RuleTypeOK, StoredIds
  <2>5. HandlersOk'
    BY <1>1, <2>1, <2>2, <2>3 DEF RuleInv, HandlersOk, By, Loading
  <2>. QED  BY <2>1, <2>4, <2>5 DEF RuleInv
<1>9. ASSUME NEW s \in RuleSlots, Loaded(s) PROVE RuleInv'
  <2>1. /\ ruleCalls[s].at = "done" /\ Loading(s) /\ By(s) # "nobody"
        /\ ruleCalls' = [ruleCalls EXCEPT ![s] = NoRuleCall]
        /\ pendingRule' = IF By(s) = "row" THEN 0 ELSE pendingRule
        /\ ruleStore' = ruleStore /\ ruleIds' = ruleIds /\ ruleShown' = ruleCalls[s].data /\ clouded' = clouded
    BY <1>9 DEF Loaded, HandlerEnds, By, Loading
  <2>2. /\ By(s) \in {"page", "row", "form"} /\ ruleCalls[s] # NoRuleCall /\ ruleCalls[s].data \subseteq Rule
    BY <1>1, <2>1, RuleTyped DEF RuleCall, Loading
  <2>3. /\ ruleCalls' \in [RuleSlots -> RuleCall \cup {NoRuleCall}] /\ ruleCalls'[s] = NoRuleCall
        /\ \A t \in RuleSlots : t # s => ruleCalls'[t] = ruleCalls[t]
    BY <2>1, CallsKeepType
  <2>4. RuleTypeOK'
    BY <2>1, <2>2, <2>3, RuleTyped DEF RuleTypeOK, StoredIds
  <2>5. HandlersOk'
    BY <1>1, <2>1, <2>2, <2>3 DEF RuleInv, HandlersOk, By, Loading
  <2>6. ASSUME ~clouded' PROVE ClearOk'
    <3>1. ClearOk /\ s \in OnTheirWay
      BY <2>1, <2>2, <2>6 DEF RuleInv, OnTheirWay
    <3>2. \A t \in RuleSlots : ruleCalls'[t] = NoRuleCall
      BY <2>3, <3>1, RuleTyped DEF ClearOk
    <3>3. ruleShown' = ruleStore'
      BY <2>1, <3>1 DEF ClearOk
    <3>. QED  BY <1>1, <3>2, <3>3 DEF ClearOk, OnTheirWay, By, Loading
  <2>. QED  BY <2>4, <2>5, <2>6 DEF RuleInv
<1>10. ASSUME NEW s \in RuleSlots, NobodyHears(s) PROVE RuleInv'
  <2>1. /\ By(s) = "nobody" /\ ruleCalls' = [ruleCalls EXCEPT ![s] = NoRuleCall]
        /\ ruleStore' = ruleStore /\ ruleIds' = ruleIds /\ ruleShown' = ruleShown
        /\ pendingRule' = pendingRule /\ clouded' = clouded
    BY <1>10 DEF NobodyHears, By
  <2>2. /\ ruleCalls' \in [RuleSlots -> RuleCall \cup {NoRuleCall}] /\ ruleCalls'[s] = NoRuleCall
        /\ \A t \in RuleSlots : t # s => ruleCalls'[t] = ruleCalls[t]
    BY <2>1, CallsKeepType
  <2>3. RuleTypeOK'
    BY <2>1, <2>2, RuleTyped DEF RuleTypeOK, StoredIds
  <2>4. HandlersOk'
    BY <1>1, <2>1, <2>2 DEF RuleInv, HandlersOk, By, Loading
  <2>5. clouded'
    BY <2>1 DEF RuleInv, ClearOk
  <2>. QED  BY <2>3, <2>4, <2>5 DEF RuleInv
<1>11. ASSUME NEW s \in RuleSlots, LoseRuleCall(s) PROVE RuleInv'
  <2>1. PICK c : c = IF ruleCalls[s].at = "sent" THEN [ruleCalls[s] EXCEPT !.by = "nobody"] ELSE NoRuleCall
    OBVIOUS
  <2>2. /\ ruleCalls[s].at \in {"sent", "done"} /\ By(s) # "nobody"
        /\ ruleCalls' = [ruleCalls EXCEPT ![s] = c]
        /\ ruleStore' = ruleStore /\ ruleIds' = ruleIds /\ ruleShown' = ruleShown /\ clouded'
        /\ pendingRule' = IF By(s) = "row" \/ (~Loading(s) /\ By(s) # "form") THEN 0 ELSE pendingRule
    BY <1>11, <2>1, RuleTyped DEF LoseRuleCall, HandlerEnds, By, Loading
  <2>3. ruleCalls[s] \in RuleCall /\ By(s) \in {"page", "row", "form"}
    BY <1>1, <2>2, RuleTyped
  <2>4. /\ c \in RuleCall \cup {NoRuleCall} /\ c.by \in {"none", "nobody"}
        /\ c.at = "failed" => c.kind # "load"
        /\ c.kind = "put" => \A row \in c.data : row.id = c.rule
    BY <1>1, <2>1, <2>3 DEF RuleCall, RuleInv, HandlersOk
  <2>5. /\ ruleCalls' \in [RuleSlots -> RuleCall \cup {NoRuleCall}] /\ ruleCalls'[s] = c
        /\ \A t \in RuleSlots : t # s => ruleCalls'[t] = ruleCalls[t]
    BY <2>2, <2>4, CallsKeepType
  <2>6. pendingRule' = IF By(s) = "row" THEN 0 ELSE pendingRule
    BY <2>2, <2>3 DEF RuleInv, HandlersOk
  <2>7. RuleTypeOK'
    BY <2>2, <2>5, <2>6, RuleTyped DEF RuleTypeOK, StoredIds
  <2>8. HandlersOk'
    BY <2>2, <2>3, <2>4, <2>5, <2>6 DEF RuleInv, HandlersOk, By, Loading
  <2>. QED  BY <2>2, <2>7, <2>8 DEF RuleInv
<1>12. CASE UNCHANGED ruleVars
  BY <1>12 DEF ruleVars, RuleInv, RuleTypeOK, HandlersOk, ClearOk, OnTheirWay, StoredIds, By, Loading
<1>. QED
  BY <1>2, <1>3, <1>4, <1>5, <1>6, <1>7, <1>8, <1>9, <1>10, <1>11, <1>12 DEF RuleNext

LEMMA ShownIsStored == RuleInv => RulesShownAreStored
BY DEF RuleInv, ClearOk, RulesShownAreStored

-----------------------------------------------------------------------------
(* The pages of the leads.                                                 *)

\* The rows have every note that was reported saved for their lead, or for this one.
Shows(these) == \A row \in these, k \in kept : k[1] = row.id => k[2] \in row.notes
Carries(these, l) == \A row \in these, k \in kept : k[1] = l => k[2] \in row.notes

Detail == [lead : Leads \cup {0}, copy : SUBSET LeadRow, busy : {"no", "status", "note"},
           jumped : BOOLEAN]
Loop == [kind : {"none", "put", "delete"}, status : LeadStatuses \cup {"none"},
         left : SUBSET Leads, copies : SUBSET LeadRow, mounted : BOOLEAN]
LoopTyped == loop \in Loop /\ (loop.kind = "put" => loop.status \in LeadStatuses)

\* Only the list page has copies in sight, and a loop ends with it for the screen.
InSight ==
  /\ shown # {} => page = "list"
  /\ loop.mounted => page = "list"

\* No copy that may be shown or written lacks a note that was reported saved.
CopiesOk ==
  /\ \A k \in kept : k[1] \in given
  /\ Shows(stored) /\ Shows(shown)
  /\ \A row \in loop.copies : row.id \in loop.left => Carries({row}, row.id)
  /\ ~detail.jumped => Carries(detail.copy, detail.lead)

Writing(c) == c.from \in {"status", "note"}

\* What a call may be, by who awaits it.
CallSound(c) ==
  /\ Writing(c) \/ c.from = "get" => page = "lead"
  /\ c.from = "list" => page = "list" /\ c.kind \in {"list", "delete"} /\ Shows(c.data)
  /\ c.from = "loop" => c.kind \in {"put", "delete"}
  /\ c.from = "new" => c.kind = "post"
  /\ c.at = "failed" => c.data = {}
  /\ c.kind = "put" => Carries(c.data, c.lead) /\ \A a, b \in c.data : a = b
  /\ c.kind = "put" /\ c.at = "done" => c.lead \in given /\ \A row \in c.data : row.id = c.lead
  /\ Writing(c) => /\ c.kind = "put" /\ detail.busy # "no"
                   /\ ~detail.jumped => c.lead = detail.lead
  /\ c.from = "note" =>
       /\ c.lead \notin loop.left
       /\ c.at = "done" => \A d \in c.data, row \in stored : row.id = c.lead => d.notes \subseteq row.notes
  /\ c.from = "get" =>
       /\ c.kind = "get"
       /\ ~detail.jumped => /\ detail.copy = {} /\ detail.busy = "no" /\ c.lead = detail.lead
                            /\ Carries(c.data, c.lead)

\* The page has one write under way, a page that did not jump one reading, and beside
\* a promised note nothing writes to its lead.
Apart(c, d) ==
  /\ Writing(c) => ~Writing(d)
  /\ c.from = "get" /\ ~detail.jumped => d.from # "get"
  /\ c.from = "note" /\ d.kind = "put" => c.lead # d.lead
CallsApart == \A s, t \in Slots : s # t => Apart(calls[s], calls[t])

LeadInv ==
  /\ LeadTypeOK /\ signedIn \in BOOLEAN /\ detail \in Detail /\ LoopTyped
  /\ InSight /\ CopiesOk
  /\ \A s \in Slots : CallSound(calls[s])
  /\ CallsApart

-----------------------------------------------------------------------------

\* The nothing that a place is free for.
LEMMA NoCallIsSound ==
  /\ NoCall.kind = "none" /\ NoCall.from = "none" /\ NoCall.at = "none" /\ NoCall.data = {}
  /\ CallSound(NoCall)
<1>1. NoCall.kind = "none" /\ NoCall.from = "none" /\ NoCall.at = "none" /\ NoCall.data = {}
  BY DEF NoCall
<1>. QED  BY <1>1 DEF CallSound, Writing

LEMMA Nothing ==
  /\ NoDetail \in Detail /\ NoDetail.lead = 0 /\ NoDetail.copy = {} /\ NoDetail.busy = "no"
  /\ NoDetail.jumped = FALSE
  /\ NoLoop \in Loop /\ NoLoop.kind = "none" /\ NoLoop.left = {} /\ NoLoop.copies = {}
  /\ NoLoop.mounted = FALSE
BY DEF NoDetail, NoLoop, Detail, Loop

LEMMA LeadFacts ==
  ASSUME LeadInv
  PROVE  /\ stored \subseteq LeadRow /\ shown \subseteq LeadRow
         /\ Ids(stored) \subseteq given /\ given \subseteq Leads
         /\ page \in Pages /\ selected \subseteq Leads /\ kept \subseteq Leads \X Notes
         /\ detail \in Detail /\ loop \in Loop
         /\ calls \in [Slots -> Call \cup {NoCall}]
         /\ \A s \in Slots : CallSound(calls[s])
         /\ \A s \in Slots : calls[s].at # "none" => calls[s] \in Call
BY NoCallIsSound DEF LeadInv, LeadTypeOK, LoopTyped

LEMMA LeadStart == LeadInit => LeadInv
<1>. SUFFICES ASSUME LeadInit PROVE LeadInv
  OBVIOUS
<1>1. /\ signedIn = FALSE /\ given \subseteq Leads /\ stored = {[id |-> l, status |-> FirstStatus, notes |-> {}] : l \in given}
      /\ page = "login" /\ shown = {} /\ selected = {} /\ detail = NoDetail /\ loop = NoLoop
      /\ calls = [s \in Slots |-> NoCall] /\ kept = {}
  BY DEF LeadInit
<1>2. stored \subseteq LeadRow /\ Ids(stored) \subseteq given
  BY <1>1, LeadAssumption DEF LeadAssumption, LeadRow, Ids
<1>3. LeadTypeOK
  BY <1>1, <1>2, Nothing DEF LeadTypeOK, Detail, Pages
<1>4. CopiesOk /\ InSight /\ detail \in Detail /\ LoopTyped
  BY <1>1, Nothing DEF CopiesOk, InSight, LoopTyped, Shows, Carries
<1>5. \A s \in Slots : calls[s] = NoCall
  BY <1>1
<1>6. \A s \in Slots : CallSound(calls[s])
  BY <1>5, NoCallIsSound
<1>7. CallsApart
  BY <1>5, NoCallIsSound DEF CallsApart, Apart, Writing
<1>. QED  BY <1>1, <1>3, <1>4, <1>6, <1>7 DEF LeadInv

-----------------------------------------------------------------------------

\* A place that is taken, freed or written to.
LEMMA SlotMoves ==
  ASSUME LeadInv, NEW s \in Slots, NEW c \in Call \cup {NoCall}, calls' = [calls EXCEPT ![s] = c]
  PROVE  /\ calls' \in [Slots -> Call \cup {NoCall}] /\ calls'[s] = c
         /\ \A t \in Slots : t # s => calls'[t] = calls[t]
BY LeadFacts

\* What is sound of a call stays so while its page waits and notes are only taken back.
LEMMA CallStays ==
  ASSUME NEW c, CallSound(c), kept' \subseteq kept, given \subseteq given',
         Writing(c) \/ c.from = "get" => page' = "lead" /\ detail' = detail,
         c.from = "list" => page' = "list",
         c.from = "note" => c.lead \notin loop.left' /\ \A row \in stored' : row.id = c.lead => row \in stored
  PROVE  CallSound(c)'
BY DEF CallSound, Writing, Shows, Carries

\* A call in the place of another gives no more than that one did, or nothing.
Within(c, d) ==
  \/ c.kind # "put" /\ ~Writing(c) /\ c.from # "get"
  \/ c.kind = d.kind /\ c.lead = d.lead /\ (c.from = d.from \/ c.from = "nobody")

LEMMA WithinIsApart ==
  ASSUME NEW b, NEW c, NEW d, Within(c, d), Apart(b, d), Apart(d, b), CallSound(b)
  PROVE  Apart(b, c) /\ Apart(c, b)
BY DEF Within, Apart, Writing, CallSound

\* The step of one call in which the page stays as it is, but for what the list shows
\* and for the leads that a loop has still to see to.
LEMMA CallKeeps ==
  ASSUME LeadInv, NEW s \in Slots, NEW c \in Call \cup {NoCall}, calls' = [calls EXCEPT ![s] = c],
         UNCHANGED <<stored, given, signedIn, page, selected, detail, kept>>,
         shown' \subseteq LeadRow, Shows(shown'), shown' # {} => page = "list",
         loop' \in Loop, loop'.left \subseteq loop.left, loop'.copies = loop.copies,
         loop'.kind = loop.kind, loop'.status = loop.status, loop'.mounted = loop.mounted,
         CallSound(c),
         \A t \in Slots : t # s => Apart(calls[t], c) /\ Apart(c, calls[t])
  PROVE  LeadInv'
<1>1. /\ calls' \in [Slots -> Call \cup {NoCall}] /\ calls'[s] = c
      /\ \A t \in Slots : t # s => calls'[t] = calls[t]
  BY SlotMoves
<1>2. stored' = stored /\ given' = given /\ page' = page /\ selected' = selected /\ detail' = detail /\ kept' = kept
  OBVIOUS
<1>3. LeadTypeOK' /\ signedIn' \in BOOLEAN /\ detail' \in Detail /\ LoopTyped'
  BY <1>1, <1>2, LeadFacts DEF LeadInv, LeadTypeOK, LoopTyped, Ids
<1>4. InSight'
  BY <1>2 DEF LeadInv, InSight
<1>5. CopiesOk'
  BY <1>2 DEF LeadInv, CopiesOk, Shows, Carries
<1>6. \A t \in Slots : CallSound(calls'[t])
  BY <1>1 DEF LeadInv
<1>7. \A t \in Slots : CallSound(calls[t])'
  <2>. SUFFICES ASSUME NEW t \in Slots PROVE CallSound(calls[t])'
    OBVIOUS
  <2>1. PICK d : d = calls'[t] /\ CallSound(d)
    BY <1>6
  <2>2. d.from = "note" => d.lead \notin loop'.left
    BY <2>1 DEF CallSound
  <2>3. CallSound(d)'
    BY <1>2, <2>1, <2>2 DEF CallSound, Writing, Shows, Carries
  <2>. QED  BY <2>1, <2>3 DEF CallSound, Writing
<1>8. CallsApart'
  <2>1. \A t, u \in Slots : t # u => Apart(calls'[t], calls'[u])
    BY <1>1 DEF LeadInv, CallsApart
  <2>. QED  BY <1>2, <2>1 DEF CallsApart, Apart, Writing
<1>. QED  BY <1>3, <1>4, <1>5, <1>7, <1>8 DEF LeadInv

\* The same where nothing but the call changes.
LEMMA OnlyTheCall ==
  ASSUME LeadInv, NEW s \in Slots, NEW c \in Call \cup {NoCall}, calls' = [calls EXCEPT ![s] = c],
         UNCHANGED <<stored, given, signedIn, page, shown, selected, detail, loop, kept>>,
         CallSound(c), Within(c, calls[s])
  PROVE  LeadInv'
<1>1. \A t \in Slots : t # s => Apart(calls[t], c) /\ Apart(c, calls[t])
  BY WithinIsApart, LeadFacts DEF LeadInv, CallsApart
<1>2. /\ shown' \subseteq LeadRow /\ Shows(shown') /\ (shown' # {} => page = "list")
      /\ loop' \in Loop /\ loop' = loop
  BY LeadFacts DEF LeadInv, CopiesOk, InSight
<1>. QED  BY <1>1, <1>2, CallKeeps

\* A step of the selection or of a loop that sends nothing.
LEMMA LoopKeeps ==
  ASSUME LeadInv, UNCHANGED <<stored, given, signedIn, page, shown, detail, calls, kept>>,
         selected' \subseteq Leads, LoopTyped', loop'.mounted => page = "list",
         \A row \in loop'.copies : row.id \in loop'.left => Carries({row}, row.id),
         \A t \in Slots : calls[t].from = "note" => calls[t].lead \notin loop'.left
  PROVE  LeadInv'
<1>1. /\ stored' = stored /\ given' = given /\ page' = page /\ shown' = shown /\ detail' = detail
      /\ calls' = calls /\ kept' = kept
  OBVIOUS
<1>2. LeadTypeOK' /\ signedIn' \in BOOLEAN /\ detail' \in Detail
  BY <1>1, LeadFacts DEF LeadInv, LeadTypeOK, Ids
<1>3. InSight' /\ CopiesOk'
  BY <1>1 DEF LeadInv, InSight, CopiesOk, Shows, Carries
<1>4. \A t \in Slots : CallSound(calls[t])'
  BY <1>1, LeadFacts DEF CallSound, Writing, Shows, Carries
<1>5. CallsApart'
  BY <1>1 DEF LeadInv, CallsApart, Apart, Writing
<1>. QED  BY <1>2, <1>3, <1>4, <1>5 DEF LeadInv

\* The calls of a page that is left are nobody's, those of a loop go on.
LEMMA OrphanedIsSound ==
  ASSUME LeadInv, NEW t \in Slots
  PROVE  /\ Orphaned[t] \in Call \cup {NoCall} /\ Orphaned[t].from \in {"none", "loop", "nobody"}
         /\ Orphaned[t].kind = calls[t].kind /\ Orphaned[t].lead = calls[t].lead
         /\ Orphaned[t].at = calls[t].at /\ Orphaned[t].data = calls[t].data
         /\ Orphaned[t].from = "loop" => calls[t].from = "loop"
<1>1. calls[t] \in Call \/ calls[t] = NoCall
  BY LeadFacts
<1>2. PICK o : o = Orphaned[t]
  OBVIOUS
<1>3. CASE calls[t] \in Call
  <2>1. PICK c \in Call : c = calls[t]
    BY <1>3
  <2>2. o = IF c.from \in {"list", "status", "note", "get", "new"} THEN [c EXCEPT !.from = "nobody"] ELSE c
    BY <1>2, <2>1 DEF Orphaned
  <2>3. /\ o \in Call /\ o.from \in {"loop", "nobody"}
        /\ o.kind = c.kind /\ o.lead = c.lead /\ o.at = c.at /\ o.data = c.data
        /\ o.from = "loop" => c.from = "loop"
    BY <2>2 DEF Call
  <2>. QED  BY <1>2, <2>1, <2>3
<1>4. CASE calls[t] = NoCall
  BY <1>4, NoCallIsSound DEF Orphaned
<1>. QED  BY <1>1, <1>3, <1>4

\* A page takes the place of another, and may begin with a call of its own.
Begun(c, target, d) ==
  \/ c.kind = "list" /\ c.from = "list" /\ c.data = {} /\ c.at = "sent" /\ target = "list"
  \/ c.kind = "get" /\ c.from = "get" /\ c.data = {} /\ c.at = "sent" /\ target = "lead" /\ c.lead = d.lead
LEMMA MountKeeps ==
  ASSUME LeadInv, NEW target \in Pages, NEW d \in Detail, d.copy = {}, d.busy = "no", d.jumped = FALSE,
         Mount(target, d), signedIn' \in BOOLEAN, UNCHANGED <<stored, given, kept>>,
         calls' \in [Slots -> Call \cup {NoCall}],
         \A t \in Slots : calls'[t] = Orphaned[t] \/ Begun(calls'[t], target, d),
         \A t, u \in Slots : calls'[t].from = "get" /\ calls'[u].from = "get" => t = u
  PROVE  LeadInv'
<1>1. /\ stored' = stored /\ given' = given /\ kept' = kept
      /\ page' = target /\ shown' = {} /\ selected' = {} /\ detail' = d
      /\ loop' = [loop EXCEPT !.mounted = FALSE]
  BY DEF Mount
<1>2. /\ loop' \in Loop /\ loop'.kind = loop.kind /\ loop'.status = loop.status
      /\ loop'.left = loop.left /\ loop'.copies = loop.copies /\ loop'.mounted = FALSE
  BY <1>1, LeadFacts DEF Loop
<1>3. LeadTypeOK' /\ detail' \in Detail /\ LoopTyped' /\ InSight'
  BY <1>1, <1>2, LeadFacts DEF LeadInv, LeadTypeOK, LoopTyped, Ids, Detail, InSight
<1>4. CopiesOk'
  BY <1>1, <1>2 DEF LeadInv, CopiesOk, Shows, Carries
<1>5. ASSUME NEW t \in Slots PROVE CallSound(calls[t])'
  <2>1. PICK c : c = calls'[t]
    OBVIOUS
  <2>2. CASE c = Orphaned[t]
    <3>1. /\ c.from \in {"none", "loop", "nobody"}
          /\ c.kind = calls[t].kind /\ c.lead = calls[t].lead
          /\ c.at = calls[t].at /\ c.data = calls[t].data
          /\ c.from = "loop" => calls[t].from = "loop"
      BY <2>2, OrphanedIsSound
    <3>2. CallSound(calls[t])
      BY LeadFacts
    <3>3. CallSound(c)'
      BY <1>1, <3>1, <3>2 DEF CallSound, Writing, Carries
    <3>. QED  BY <2>1, <3>3 DEF CallSound, Writing
  <2>3. CASE Begun(c, target, d)
    <3>1. CallSound(c)'
      BY <1>1, <2>3 DEF Begun, CallSound, Writing, Shows, Carries
    <3>. QED  BY <2>1, <3>1 DEF CallSound, Writing
  <2>. QED  BY <2>1, <2>2, <2>3
<1>6. \A t \in Slots : ~Writing(calls'[t])
  BY OrphanedIsSound DEF Begun, Writing
<1>7. CallsApart'
  BY <1>6 DEF CallsApart, Apart, Writing
<1>. QED  BY <1>3, <1>4, <1>5, <1>7 DEF LeadInv

\* The tab loads anew: what it had sent may still be served.
LEMMA ResetKeeps ==
  ASSUME LeadInv, NEW target \in Pages, Reset(target), signedIn' \in BOOLEAN, UNCHANGED <<stored, given, kept>>,
         calls' = [t \in Slots |-> calls'[t]],
         \A t \in Slots : calls'[t] = Abandoned[t] \/ calls'[t] = NoCall
  PROVE  LeadInv'
<1>1. /\ stored' = stored /\ given' = given /\ kept' = kept
      /\ page' = target /\ shown' = {} /\ selected' = {} /\ detail' = NoDetail /\ loop' = NoLoop
  BY DEF Reset
<1>2. ASSUME NEW t \in Slots
      PROVE  \/ Abandoned[t] = NoCall
             \/ /\ Abandoned[t] \in Call /\ Abandoned[t].from = "nobody" /\ Abandoned[t].at = "sent"
                /\ Abandoned[t].kind = calls[t].kind /\ Abandoned[t].lead = calls[t].lead
                /\ Abandoned[t].data = calls[t].data
  <2>1. CASE calls[t].at = "sent"
    <3>1. calls[t].at # "none"
      BY <2>1
    <3>2. PICK c \in Call : c = calls[t]
      BY <3>1, LeadFacts
    <3>3. PICK o : o = [c EXCEPT !.from = "nobody"]
      OBVIOUS
    <3>4. o \in Call /\ o.from = "nobody" /\ o.at = c.at /\ o.kind = c.kind /\ o.lead = c.lead /\ o.data = c.data
      BY <3>3 DEF Call
    <3>5. Abandoned[t] = o
      BY <2>1, <3>2, <3>3 DEF Abandoned
    <3>. QED  BY <2>1, <3>2, <3>4, <3>5
  <2>2. CASE calls[t].at # "sent"
    BY <2>2 DEF Abandoned
  <2>. QED  BY <2>1, <2>2
<1>3. calls' \in [Slots -> Call \cup {NoCall}]
  <2>1. \A t \in Slots : calls'[t] \in Call \cup {NoCall}
    BY <1>2
  <2>. QED  BY <2>1
<1>4. LeadTypeOK' /\ detail' \in Detail /\ LoopTyped' /\ InSight'
  BY <1>1, <1>3, Nothing, LeadFacts DEF LeadInv, LeadTypeOK, LoopTyped, Ids, Detail, InSight
<1>5. CopiesOk'
  BY <1>1, Nothing DEF LeadInv, CopiesOk, Shows, Carries
<1>6. ASSUME NEW t \in Slots PROVE CallSound(calls[t])'
  <2>1. PICK c : c = calls'[t]
    OBVIOUS
  <2>2. CASE c = NoCall
    BY <2>1, <2>2, NoCallIsSound DEF CallSound, Writing
  <2>3. CASE /\ c.from = "nobody" /\ c.at = "sent" /\ c.kind = calls[t].kind
             /\ c.lead = calls[t].lead /\ c.data = calls[t].data
    <3>1. CallSound(calls[t])
      BY LeadFacts
    <3>2. CallSound(c)'
      BY <1>1, <2>3, <3>1 DEF CallSound, Writing, Carries
    <3>. QED  BY <2>1, <3>2 DEF CallSound, Writing
  <2>. QED  BY <1>2, <2>1, <2>2, <2>3
<1>7. \A t \in Slots : calls'[t].from \in {"none", "nobody"}
  BY <1>2, NoCallIsSound
<1>8. CallsApart'
  BY <1>7 DEF CallsApart, Apart, Writing
<1>. QED  BY <1>4, <1>5, <1>6, <1>8 DEF LeadInv

\* A call that sets out.
LEMMA OutgoingIsACall ==
  ASSUME LeadInv,
         NEW kind \in {"list", "get", "put", "delete", "post"}, NEW l \in Leads \cup {0},
         NEW data \in SUBSET LeadRow, NEW from \in {"list", "status", "note", "get", "loop", "new"}
  PROVE  \E c \in Call : /\ c = Outgoing(kind, l, data, from) /\ c.kind = kind /\ c.lead = l
                         /\ c.data = data /\ c.from = from /\ c.at = "sent"
<1>. DEFINE c == Outgoing(kind, l, data, from)
<1>1. /\ c \in Call /\ c.kind = kind /\ c.lead = l /\ c.data = data /\ c.from = from /\ c.at = "sent"
  BY DEF Outgoing, Call, LeadInv
<1>. QED  BY <1>1

-----------------------------------------------------------------------------

LEMMA LoginKeeps == ASSUME LeadInv, Login PROVE LeadInv'
<1>1. /\ page = "login" /\ page' = "home" /\ signedIn' = TRUE /\ stored' = stored /\ given' = given
      /\ shown' = shown /\ selected' = selected /\ detail' = detail /\ loop' = loop
      /\ calls' = calls /\ kept' = kept
  BY DEF Login
<1>2. /\ LeadTypeOK' /\ signedIn' \in BOOLEAN /\ detail' \in Detail /\ LoopTyped' /\ InSight' /\ CopiesOk'
  BY <1>1 DEF LeadInv, LeadTypeOK, Ids, LoopTyped, InSight, CopiesOk, Shows, Carries, Pages
<1>3. ASSUME NEW t \in Slots PROVE CallSound(calls[t])'
  <2>1. PICK c : c = calls[t] /\ CallSound(c)
    BY LeadFacts
  <2>2. CallSound(c)'
    BY <1>1, <2>1 DEF CallSound, Writing, Shows, Carries
  <2>. QED  BY <1>1, <2>1, <2>2 DEF CallSound, Writing
<1>4. CallsApart'
  BY <1>1 DEF LeadInv, CallsApart, Apart, Writing
<1>. QED  BY <1>2, <1>3, <1>4 DEF LeadInv

LEMMA LogoutKeeps == ASSUME LeadInv, Logout PROVE LeadInv'
<1>1. /\ signedIn' \in BOOLEAN /\ Mount("login", NoDetail) /\ calls' = Orphaned
      /\ UNCHANGED <<stored, given, kept>>
  BY DEF Logout
<1>2. \A t \in Slots : Orphaned[t] \in Call \cup {NoCall} /\ Orphaned[t].from # "get"
  BY OrphanedIsSound
<1>3. calls' \in [Slots -> Call \cup {NoCall}]
  BY <1>1, <1>2 DEF Orphaned
<1>4. "login" \in Pages
  BY DEF Pages
<1>. QED  BY <1>1, <1>2, <1>3, <1>4, Nothing, MountKeeps

LEMMA OpenHomeKeeps == ASSUME LeadInv, OpenHome PROVE LeadInv'
<1>1. /\ signedIn' \in BOOLEAN /\ Mount("home", NoDetail) /\ calls' = Orphaned
      /\ UNCHANGED <<stored, given, kept>>
  BY DEF OpenHome, LeadInv
<1>2. \A t \in Slots : Orphaned[t] \in Call \cup {NoCall} /\ Orphaned[t].from # "get"
  BY OrphanedIsSound
<1>3. calls' \in [Slots -> Call \cup {NoCall}]
  BY <1>1, <1>2 DEF Orphaned
<1>4. "home" \in Pages
  BY DEF Pages
<1>. QED  BY <1>1, <1>2, <1>3, <1>4, Nothing, MountKeeps

LEMMA OpenNewKeeps == ASSUME LeadInv, OpenNew PROVE LeadInv'
<1>1. /\ signedIn' \in BOOLEAN /\ Mount("new", NoDetail) /\ calls' = Orphaned
      /\ UNCHANGED <<stored, given, kept>>
  BY DEF OpenNew, LeadInv
<1>2. \A t \in Slots : Orphaned[t] \in Call \cup {NoCall} /\ Orphaned[t].from # "get"
  BY OrphanedIsSound
<1>3. calls' \in [Slots -> Call \cup {NoCall}]
  BY <1>1, <1>2 DEF Orphaned
<1>4. "new" \in Pages
  BY DEF Pages
<1>. QED  BY <1>1, <1>2, <1>3, <1>4, Nothing, MountKeeps

\* The page that is mounted sends a call in a place of its own.
LEMMA BegunWith ==
  ASSUME LeadInv, NEW s \in Slots, NEW c \in Call, NEW target, NEW d,
         calls' = [Orphaned EXCEPT ![s] = c], Begun(c, target, d)
  PROVE  /\ calls' \in [Slots -> Call \cup {NoCall}]
         /\ \A t \in Slots : calls'[t] = Orphaned[t] \/ Begun(calls'[t], target, d)
         /\ \A t, u \in Slots : calls'[t].from = "get" /\ calls'[u].from = "get" => t = u
<1>1. \A t \in Slots : Orphaned[t] \in Call \cup {NoCall} /\ Orphaned[t].from # "get"
  BY OrphanedIsSound
<1>2. Orphaned \in [Slots -> Call \cup {NoCall}]
  BY <1>1 DEF Orphaned
<1>3. calls' \in [Slots -> Call \cup {NoCall}] /\ calls'[s] = c
      /\ \A t \in Slots : t # s => calls'[t] = Orphaned[t]
  BY <1>2
<1>. QED  BY <1>1, <1>3

LEMMA OpenListKeeps ==
  ASSUME LeadInv, NEW s \in Slots, Mount("list", NoDetail), UNCHANGED <<stored, given, signedIn, kept>>,
         calls' = [Orphaned EXCEPT ![s] = Outgoing("list", 0, {}, "list")]
  PROVE  LeadInv'
<1>1. PICK c \in Call : /\ c = Outgoing("list", 0, {}, "list") /\ c.kind = "list"
                        /\ c.data = {} /\ c.from = "list" /\ c.at = "sent"
  BY OutgoingIsACall
<1>2. Begun(c, "list", NoDetail)
  BY <1>1 DEF Begun
<1>3. /\ calls' \in [Slots -> Call \cup {NoCall}]
      /\ \A t \in Slots : calls'[t] = Orphaned[t] \/ Begun(calls'[t], "list", NoDetail)
      /\ \A t, u \in Slots : calls'[t].from = "get" /\ calls'[u].from = "get" => t = u
  BY <1>1, <1>2, BegunWith
<1>4. "list" \in Pages /\ signedIn' \in BOOLEAN
  BY DEF Pages, LeadInv
<1>. QED  BY <1>3, <1>4, Nothing, MountKeeps

LEMMA OpenLeadKeeps == ASSUME LeadInv, NEW s \in Slots, NEW l \in Leads, OpenLead(s, l) PROVE LeadInv'
<1>1. PICK c \in Call : /\ c = Outgoing("get", l, {}, "get") /\ c.kind = "get" /\ c.lead = l
                        /\ c.data = {} /\ c.from = "get" /\ c.at = "sent"
  BY OutgoingIsACall
<1>2. PICK d : d = [NoDetail EXCEPT !.lead = l]
  OBVIOUS
<1>3. d \in Detail /\ d.lead = l /\ d.copy = {} /\ d.busy = "no" /\ d.jumped = FALSE
  BY <1>2, Nothing DEF Detail
<1>4. Begun(c, "lead", d)
  BY <1>1, <1>3 DEF Begun
<1>5. /\ Mount("lead", d) /\ UNCHANGED <<stored, given, kept>> /\ signedIn' \in BOOLEAN
      /\ calls' = [Orphaned EXCEPT ![s] = c] /\ "lead" \in Pages
  BY <1>1, <1>2 DEF OpenLead, LeadInv, Pages
<1>6. /\ calls' \in [Slots -> Call \cup {NoCall}]
      /\ \A t \in Slots : calls'[t] = Orphaned[t] \/ Begun(calls'[t], "lead", d)
      /\ \A t, u \in Slots : calls'[t].from = "get" /\ calls'[u].from = "get" => t = u
  BY <1>4, <1>5, BegunWith
<1>. QED  BY <1>3, <1>5, <1>6, MountKeeps

LEMMA ReloadKeeps == ASSUME LeadInv, Reload PROVE LeadInv'
<1>1. PICK target : target = IF signedIn THEN "home" ELSE "login"
  OBVIOUS
<1>2. /\ target \in Pages /\ Reset(target) /\ signedIn' \in BOOLEAN /\ calls' = Abandoned
      /\ UNCHANGED <<stored, given, kept>>
  BY <1>1 DEF Reload, Pages, LeadInv
<1>3. calls' = [t \in Slots |-> calls'[t]]
  BY <1>2 DEF Abandoned
<1>4. \A t \in Slots : calls'[t] = Abandoned[t] \/ calls'[t] = NoCall
  BY <1>2
<1>. QED  BY <1>2, <1>3, <1>4, ResetKeeps

LEMMA DeniedKeeps == ASSUME LeadInv, NEW s \in Slots, Denied(s) PROVE LeadInv'
<1>1. /\ "login" \in Pages /\ Reset("login") /\ signedIn' \in BOOLEAN
      /\ calls' = [Abandoned EXCEPT ![s] = NoCall] /\ UNCHANGED <<stored, given, kept>>
  BY DEF Denied, Pages
<1>2. /\ calls' = [t \in Slots |-> calls'[t]]
      /\ \A t \in Slots : calls'[t] = Abandoned[t] \/ calls'[t] = NoCall
  BY <1>1 DEF Abandoned
<1>. QED  BY <1>1, <1>2, ResetKeeps

-----------------------------------------------------------------------------

\* The selection and the loops over it.
LEMMA SelectionKeeps ==
  ASSUME LeadInv, selected' \subseteq Leads,
         UNCHANGED <<stored, given, signedIn, page, shown, detail, loop, calls, kept>>
  PROVE  LeadInv'
<1>1. /\ LoopTyped' /\ (loop'.mounted => page = "list")
      /\ \A row \in loop'.copies : row.id \in loop'.left => Carries({row}, row.id)
  BY DEF LeadInv, LoopTyped, InSight, CopiesOk
<1>2. \A t \in Slots : calls[t].from = "note" => calls[t].lead \notin loop'.left
  BY DEF LeadInv, CallSound
<1>. QED  BY <1>1, <1>2, LoopKeeps

LEMMA SelectLeadKeeps == ASSUME LeadInv, NEW l \in Leads, SelectLead(l) PROVE LeadInv'
<1>1. selected' \subseteq Leads
  BY LeadFacts DEF SelectLead
<1>. QED  BY <1>1, SelectionKeeps DEF SelectLead

LEMMA SelectAllKeeps == ASSUME LeadInv, SelectAll PROVE LeadInv'
<1>1. selected' \subseteq Leads
  BY LeadFacts DEF SelectAll, Ids, LeadRow
<1>. QED  BY <1>1, SelectionKeeps DEF SelectAll

LEMMA ClearSelectionKeeps == ASSUME LeadInv, ClearSelection PROVE LeadInv'
BY SelectionKeeps DEF ClearSelection

LEMMA StartLoopKeeps ==
  ASSUME LeadInv, NEW kind \in {"put", "delete"}, NEW status,
         kind = "put" => status \in LeadStatuses, kind = "delete" => status = "none",
         StartLoop(kind, status)
  PROVE  LeadInv'
<1>1. /\ page = "list" /\ selected' = selected
      /\ loop' = [kind |-> kind, status |-> status, left |-> selected, copies |-> shown, mounted |-> TRUE]
      /\ UNCHANGED <<stored, given, signedIn, page, shown, detail, calls, kept>>
  BY DEF StartLoop, BulkBar
<1>2. /\ LoopTyped' /\ loop'.copies = shown
  BY <1>1, LeadFacts DEF LoopTyped, Loop
<1>3. \A row \in loop'.copies : row.id \in loop'.left => Carries({row}, row.id)
  BY <1>2 DEF LeadInv, CopiesOk, Shows, Carries
<1>4. \A t \in Slots : calls[t].from # "note"
  BY <1>1 DEF LeadInv, CallSound, Writing
<1>. QED  BY <1>1, <1>2, <1>3, <1>4, LeadFacts, LoopKeeps

LEMMA LoopSkipKeeps == ASSUME LeadInv, NEW l \in Leads, LoopSkip(l) PROVE LeadInv'
<1>1. /\ loop' = [loop EXCEPT !.left = @ \ {l}] /\ selected' = selected
      /\ UNCHANGED <<stored, given, signedIn, page, shown, detail, calls, kept>>
  BY DEF LoopSkip
<1>2. /\ loop' \in Loop /\ loop'.left = loop.left \ {l} /\ loop'.copies = loop.copies
      /\ loop'.kind = loop.kind /\ loop'.status = loop.status /\ loop'.mounted = loop.mounted
  BY <1>1, LeadFacts DEF Loop
<1>3. /\ LoopTyped' /\ (loop'.mounted => page = "list")
      /\ \A row \in loop'.copies : row.id \in loop'.left => Carries({row}, row.id)
  BY <1>2 DEF LeadInv, LoopTyped, InSight, CopiesOk
<1>4. \A t \in Slots : calls[t].from = "note" => calls[t].lead \notin loop'.left
  BY <1>2 DEF LeadInv, CallSound
<1>. QED  BY <1>1, <1>3, <1>4, LeadFacts, LoopKeeps

LEMMA LoopEndKeeps == ASSUME LeadInv, LoopEnd PROVE LeadInv'
<1>1. /\ loop' = NoLoop /\ selected' \subseteq Leads
      /\ UNCHANGED <<stored, given, signedIn, page, shown, detail, calls, kept>>
  BY LeadFacts DEF LoopEnd
<1>2. LoopTyped' /\ loop'.mounted = FALSE /\ loop'.copies = {} /\ loop'.left = {}
  BY <1>1, Nothing DEF LoopTyped
<1>. QED  BY <1>1, <1>2, LoopKeeps

-----------------------------------------------------------------------------

\* A call of the list page or of the form, which writes no row of its own.
LEMMA PlainCallKeeps ==
  ASSUME LeadInv, NEW s \in Slots, NEW kind \in {"list", "delete", "post"}, NEW l \in Leads \cup {0},
         NEW from \in {"list", "new"}, from = "list" => page = "list" /\ kind \in {"list", "delete"},
         from = "new" => kind = "post",
         Send(s, Outgoing(kind, l, {}, from)),
         UNCHANGED <<stored, given, signedIn, page, shown, selected, detail, loop, kept>>
  PROVE  LeadInv'
<1>1. PICK c \in Call : /\ c = Outgoing(kind, l, {}, from) /\ c.kind = kind /\ c.lead = l
                        /\ c.data = {} /\ c.from = from /\ c.at = "sent"
  BY OutgoingIsACall
<1>2. calls' = [calls EXCEPT ![s] = c]
  BY <1>1 DEF Send
<1>3. CallSound(c) /\ Within(c, calls[s])
  BY <1>1 DEF CallSound, Writing, Within, Shows
<1>. QED  BY <1>1, <1>2, <1>3, OnlyTheCall

LEMMA FilterListKeeps == ASSUME LeadInv, NEW s \in Slots, FilterList(s) PROVE LeadInv'
BY PlainCallKeeps DEF FilterList, ListTools
LEMMA DeleteLeadKeeps == ASSUME LeadInv, NEW s \in Slots, NEW l \in Leads, DeleteLead(s, l) PROVE LeadInv'
BY PlainCallKeeps DEF DeleteLead, InTable
LEMMA CreateLeadKeeps == ASSUME LeadInv, NEW s \in Slots, CreateLead(s) PROVE LeadInv'
BY PlainCallKeeps DEF CreateLead, FormOpen

\* An answer that nobody hears, or one that changes nothing on the screen.
LEMMA FreeKeeps ==
  ASSUME LeadInv, NEW s \in Slots, Free(s),
         UNCHANGED <<stored, given, signedIn, page, shown, selected, detail, loop, kept>>
  PROVE  LeadInv'
<1>1. CallSound(NoCall) /\ Within(NoCall, calls[s]) /\ NoCall \in Call \cup {NoCall}
  BY NoCallIsSound DEF Within, Writing
<1>. QED  BY <1>1, OnlyTheCall DEF Free

LEMMA DenyKeeps == ASSUME LeadInv, NEW s \in Slots, Deny(s) PROVE LeadInv'
<1>1. PICK d \in Call : d = calls[s] /\ CallSound(d) /\ d.at = "sent"
  BY LeadFacts DEF Deny
<1>2. PICK c : c = [d EXCEPT !.at = "denied"]
  OBVIOUS
<1>3. /\ c \in Call /\ c.at = "denied" /\ c.kind = d.kind /\ c.lead = d.lead /\ c.data = d.data
      /\ c.from = d.from
  BY <1>2 DEF Call
<1>4. calls' = [calls EXCEPT ![s] = c]
  BY <1>1, <1>2 DEF Deny
<1>5. CallSound(c) /\ Within(c, calls[s])
  BY <1>1, <1>3 DEF CallSound, Writing, Within
<1>. QED  BY <1>3, <1>4, <1>5, OnlyTheCall DEF Deny

-----------------------------------------------------------------------------

\* The list shows what was asked for, or no longer what was deleted.
LEMMA ListAnsweredKeeps == ASSUME LeadInv, NEW s \in Slots, ListAnswered(s) PROVE LeadInv'
<1>1. PICK d : d = calls[s]
  OBVIOUS
<1>2. /\ d.from = "list" /\ d.at \in {"done", "failed"}
      /\ calls' = [calls EXCEPT ![s] = NoCall]
      /\ UNCHANGED <<stored, given, signedIn, page, selected, detail, loop, kept>>
  BY <1>1 DEF ListAnswered, Answered, Free
<1>3. d \in Call /\ CallSound(d)
  BY <1>1, <1>2, LeadFacts
<1>4. page = "list" /\ Shows(d.data) /\ d.data \subseteq LeadRow
  BY <1>2, <1>3 DEF CallSound, Call
<1>5. shown' \subseteq d.data \/ shown' \subseteq shown
  BY <1>1 DEF ListAnswered, Without
<1>6. shown' \subseteq LeadRow /\ Shows(shown')
  BY <1>4, <1>5, LeadFacts DEF LeadInv, CopiesOk, Shows
<1>7. /\ CallSound(NoCall) /\ Within(NoCall, calls[s]) /\ NoCall \in Call \cup {NoCall}
      /\ \A t \in Slots : t # s => Apart(calls[t], NoCall) /\ Apart(NoCall, calls[t])
  BY NoCallIsSound, WithinIsApart, LeadFacts DEF Within, Writing, LeadInv, CallsApart
<1>. QED  BY <1>2, <1>4, <1>6, <1>7, LeadFacts, CallKeeps

LEMMA LoopAnsweredKeeps == ASSUME LeadInv, NEW s \in Slots, LoopAnswered(s) PROVE LeadInv'
<1>1. PICK d : d = calls[s]
  OBVIOUS
<1>2. /\ d.from = "loop" /\ d.at \in {"done", "failed"}
      /\ calls' = [calls EXCEPT ![s] = NoCall]
      /\ UNCHANGED <<stored, given, signedIn, page, selected, detail, loop, kept>>
  BY <1>1 DEF LoopAnswered, Answered, Free
<1>3. d \in Call /\ CallSound(d)
  BY <1>1, <1>2, LeadFacts
<1>4. /\ shown' = shown \/ (loop.mounted /\ shown' \subseteq shown)
         \/ (loop.mounted /\ d.at = "done" /\ d.kind = "put" /\ shown' \subseteq shown \cup d.data)
  BY <1>1, <1>2 DEF LoopAnswered, Without
<1>5. d.at = "done" /\ d.kind = "put" => Shows(d.data)
  BY <1>3 DEF CallSound, Carries, Shows
<1>6. shown' \subseteq LeadRow /\ Shows(shown') /\ (shown' # {} => page = "list")
  BY <1>3, <1>4, <1>5, LeadFacts DEF LeadInv, CopiesOk, InSight, Shows, Call
<1>7. /\ CallSound(NoCall) /\ Within(NoCall, calls[s]) /\ NoCall \in Call \cup {NoCall}
      /\ \A t \in Slots : t # s => Apart(calls[t], NoCall) /\ Apart(NoCall, calls[t])
  BY NoCallIsSound, WithinIsApart, LeadFacts DEF Within, Writing, LeadInv, CallsApart
<1>. QED  BY <1>2, <1>6, <1>7, LeadFacts, CallKeeps

\* A loop writes the copy it took, which no promised note has outdated.
LEMMA LoopSendKeeps == ASSUME LeadInv, NEW s \in Slots, NEW l \in Leads, LoopSend(s, l) PROVE LeadInv'
<1>1. /\ l \in loop.left /\ loop' = [loop EXCEPT !.left = @ \ {l}]
      /\ UNCHANGED <<stored, given, signedIn, page, shown, selected, detail, kept>>
  BY DEF LoopSend
<1>2. /\ loop' \in Loop /\ loop'.left = loop.left \ {l} /\ loop'.copies = loop.copies
      /\ loop'.kind = loop.kind /\ loop'.status = loop.status /\ loop'.mounted = loop.mounted
  BY <1>1, LeadFacts DEF Loop
<1>3. PICK c \in Call : /\ calls' = [calls EXCEPT ![s] = c] /\ c.from = "loop" /\ c.at = "sent"
                        /\ c.lead = l /\ c.kind \in {"put", "delete"}
                        /\ c.kind = "put" => Carries(c.data, l) /\ \A a, b \in c.data : a = b
  <2>1. CASE Send(s, Outgoing("delete", l, {}, "loop"))
    <3>1. PICK c \in Call : /\ c = Outgoing("delete", l, {}, "loop") /\ c.kind = "delete" /\ c.lead = l
                            /\ c.data = {} /\ c.from = "loop" /\ c.at = "sent"
      BY OutgoingIsACall
    <3>. QED  BY <2>1, <3>1 DEF Send
  <2>2. ASSUME NEW row \in RowsFor(loop.copies, {l}), loop.kind = "put",
               Send(s, Outgoing("put", l, {[row EXCEPT !.status = loop.status]}, "loop"))
        PROVE  \E c \in Call : /\ calls' = [calls EXCEPT ![s] = c] /\ c.from = "loop" /\ c.at = "sent"
                               /\ c.lead = l /\ c.kind \in {"put", "delete"}
                               /\ c.kind = "put" => Carries(c.data, l) /\ \A a, b \in c.data : a = b
    <3>1. row \in LeadRow /\ row \in loop.copies /\ row.id = l /\ loop.status \in LeadStatuses
      BY <2>2, LeadFacts DEF RowsFor, Loop, LeadInv, LoopTyped
    <3>2. PICK new : new = [row EXCEPT !.status = loop.status]
      OBVIOUS
    <3>3. new \in LeadRow /\ new.notes = row.notes
      BY <3>1, <3>2 DEF LeadRow
    <3>4. PICK c \in Call : /\ c = Outgoing("put", l, {new}, "loop") /\ c.kind = "put" /\ c.lead = l
                            /\ c.data = {new} /\ c.from = "loop" /\ c.at = "sent"
      BY <3>3, OutgoingIsACall
    <3>5. Carries({new}, l)
      BY <1>1, <3>1, <3>3 DEF LeadInv, CopiesOk, Carries
    <3>. QED  BY <2>2, <3>2, <3>4, <3>5 DEF Send
  <2>. QED  BY <2>1, <2>2 DEF LoopSend
<1>4. CallSound(c)
  BY <1>3 DEF CallSound, Writing
<1>5. \A t \in Slots : t # s => Apart(calls[t], c) /\ Apart(c, calls[t])
  BY <1>1, <1>3, LeadFacts DEF Apart, Writing, CallSound
<1>6. shown' \subseteq LeadRow /\ Shows(shown') /\ (shown' # {} => page = "list")
  BY <1>1, LeadFacts DEF LeadInv, CopiesOk, InSight
<1>. QED  BY <1>1, <1>2, <1>3, <1>4, <1>5, <1>6, CallKeeps

-----------------------------------------------------------------------------
(* The page of one lead.                                                   *)

LEMMA JumpKeeps == ASSUME LeadInv, NEW s \in Slots, NEW l \in Leads, JumpToLead(s, l) PROVE LeadInv'
<1>1. PICK c \in Call : /\ c = Outgoing("get", l, {}, "get") /\ c.kind = "get" /\ c.lead = l
                        /\ c.data = {} /\ c.from = "get" /\ c.at = "sent"
  BY OutgoingIsACall
<1>2. /\ page = "lead" /\ detail' = [detail EXCEPT !.lead = l, !.jumped = TRUE]
      /\ calls' = [calls EXCEPT ![s] = c]
      /\ stored' = stored /\ given' = given /\ signedIn' = signedIn /\ page' = page /\ shown' = shown
      /\ selected' = selected /\ loop' = loop /\ kept' = kept
  BY <1>1 DEF JumpToLead, Send
<1>3. detail' \in Detail /\ detail'.jumped = TRUE /\ detail'.copy = detail.copy /\ detail'.busy = detail.busy
  BY <1>2, LeadFacts DEF Detail
<1>4. /\ calls' \in [Slots -> Call \cup {NoCall}] /\ calls'[s] = c
      /\ \A t \in Slots : t # s => calls'[t] = calls[t]
  BY <1>1, <1>2, SlotMoves
<1>5. /\ LeadTypeOK' /\ signedIn' \in BOOLEAN /\ LoopTyped' /\ InSight' /\ CopiesOk'
  BY <1>2, <1>3, <1>4 DEF LeadInv, LeadTypeOK, Ids, LoopTyped, InSight, CopiesOk, Shows, Carries, Detail
<1>6. CallSound(c)'
  BY <1>1, <1>2, <1>3 DEF CallSound, Writing
<1>7. ASSUME NEW t \in Slots PROVE CallSound(calls[t])'
  <2>1. CASE t = s
    BY <1>4, <1>6, <2>1 DEF CallSound, Writing
  <2>2. CASE t # s
    <3>1. PICK d : d = calls[t] /\ CallSound(d)
      BY LeadFacts
    <3>2. CallSound(d)'
      BY <1>2, <1>3, <3>1 DEF CallSound, Writing, Shows, Carries
    <3>. QED  BY <1>4, <2>2, <3>1, <3>2 DEF CallSound, Writing
  <2>. QED  BY <2>1, <2>2
<1>8. CallsApart'
  BY <1>1, <1>3, <1>4 DEF LeadInv, CallsApart, Apart, Writing
<1>. QED  BY <1>3, <1>5, <1>7, <1>8 DEF LeadInv

\* The page writes its copy: a page that jumped takes back what it may write over.
LEMMA WriteKeeps ==
  ASSUME LeadInv, NEW s \in Slots, page = "lead", detail.busy = "no", NEW row \in detail.copy,
         NEW new \in LeadRow, row.notes \subseteq new.notes, NEW busy \in {"status", "note"},
         NEW from \in {"status", "note"}, from = "note" => Promised,
         WriteLead(s, new, busy, from)
  PROVE  LeadInv'
<1>1. PICK c \in Call : /\ c = Outgoing("put", detail.lead, {new}, from) /\ c.kind = "put"
                        /\ c.lead = detail.lead /\ c.data = {new} /\ c.from = from /\ c.at = "sent"
  <2>1. detail.lead \in Leads \cup {0}
    BY LeadFacts DEF Detail
  <2>. QED  BY <2>1, OutgoingIsACall
<1>2. /\ detail' = [detail EXCEPT !.busy = busy] /\ kept' = KeptOnWrite
      /\ calls' = [calls EXCEPT ![s] = c] /\ calls[s] = NoCall
      /\ stored' = stored /\ given' = given /\ signedIn' = signedIn /\ page' = page /\ shown' = shown
      /\ selected' = selected /\ loop' = loop
  BY <1>1 DEF WriteLead, Send
<1>3. /\ detail' \in Detail /\ detail'.jumped = detail.jumped /\ detail'.copy = detail.copy
      /\ detail'.lead = detail.lead /\ detail'.busy # "no"
  BY <1>2, LeadFacts DEF Detail
<1>4. /\ calls' \in [Slots -> Call \cup {NoCall}] /\ calls'[s] = c
      /\ \A t \in Slots : t # s => calls'[t] = calls[t]
  BY <1>1, <1>2, SlotMoves
<1>5. /\ kept' \subseteq kept
      /\ detail.jumped => \A k \in kept' : k[1] # detail.lead
  BY <1>2 DEF KeptOnWrite
<1>6. /\ LeadTypeOK' /\ signedIn' \in BOOLEAN /\ LoopTyped' /\ InSight' /\ CopiesOk'
  BY <1>2, <1>3, <1>4, <1>5, LeadFacts DEF LeadInv, LeadTypeOK, Ids, LoopTyped, InSight, CopiesOk, Shows, Carries, Detail
<1>7. \A t \in Slots : ~Writing(calls[t])
  BY LeadFacts DEF CallSound
<1>8. \A k \in kept' : k[1] = detail.lead => k[2] \in new.notes
  <2>. SUFFICES ASSUME NEW k \in kept', k[1] = detail.lead PROVE k[2] \in new.notes
    OBVIOUS
  <2>1. ~detail.jumped /\ k \in kept
    BY <1>5
  <2>. QED  BY <2>1 DEF LeadInv, CopiesOk, Carries
<1>9. from = "note" => ~detail.jumped /\ detail.lead \notin loop.left
                       /\ \A t \in Slots : calls[t].kind = "put" => calls[t].lead # detail.lead
  <2>1. from = "note" => /\ ~detail.jumped /\ detail.lead \notin loop.left
                         /\ \A t \in Slots : ~(calls[t].lead = detail.lead /\ calls[t].kind = "put"
                                               /\ calls[t].from \in {"loop", "nobody"})
    BY DEF Promised, Unattended
  <2>2. \A t \in Slots : calls[t].kind = "put" => calls[t].from \in {"loop", "nobody"}
    <3>. SUFFICES ASSUME NEW t \in Slots, calls[t].kind = "put" PROVE calls[t].from \in {"loop", "nobody"}
      OBVIOUS
    <3>1. calls[t] # NoCall
      BY NoCallIsSound
    <3>2. PICK d \in Call : d = calls[t] /\ CallSound(d) /\ ~Writing(d) /\ d.kind = "put"
      BY <1>7, <3>1, LeadFacts
    <3>3. d.from \in {"list", "status", "note", "get", "loop", "new", "nobody"}
      BY <3>2 DEF Call
    <3>. QED  BY <3>2, <3>3 DEF CallSound, Writing
  <2>. QED  BY <2>1, <2>2
<1>10. CallSound(c)'
  BY <1>1, <1>2, <1>3, <1>8, <1>9 DEF CallSound, Writing, Carries
<1>11. ASSUME NEW t \in Slots PROVE CallSound(calls[t])'
  <2>1. CASE t = s
    BY <1>4, <1>10, <2>1 DEF CallSound, Writing
  <2>2. CASE t # s
    <3>1. PICK d : d = calls[t] /\ CallSound(d) /\ ~Writing(d)
      BY <1>7, LeadFacts
    <3>2. d.from = "get" => detail.jumped \/ detail.copy = {}
      BY <3>1 DEF CallSound
    <3>3. detail.copy # {}
      OBVIOUS
    <3>4. CallSound(d)'
      BY <1>2, <1>3, <1>5, <3>1, <3>2, <3>3 DEF CallSound, Writing, Shows, Carries
    <3>. QED  BY <1>4, <2>2, <3>1, <3>4 DEF CallSound, Writing
  <2>. QED  BY <2>1, <2>2
<1>12. CallsApart'
  <2>1. \A t, u \in Slots : t # u => Apart(calls'[t], calls'[u])
    BY <1>1, <1>4, <1>7, <1>9 DEF LeadInv, CallsApart, Apart, Writing
  <2>. QED  BY <1>3, <2>1 DEF CallsApart, Apart, Writing
<1>. QED  BY <1>3, <1>6, <1>11, <1>12 DEF LeadInv

LEMMA ChangeStatusKeeps ==
  ASSUME LeadInv, NEW s \in Slots, NEW status \in LeadStatuses, ChangeStatus(s, status)
  PROVE  LeadInv'
<1>1. PICK row \in detail.copy :
        Offered(row) /\ WriteLead(s, [row EXCEPT !.status = status], "status", "status")
  BY DEF ChangeStatus
<1>2. row \in LeadRow
  BY LeadFacts DEF Detail
<1>3. PICK new : new = [row EXCEPT !.status = status]
  OBVIOUS
<1>4. new \in LeadRow /\ row.notes \subseteq new.notes
  BY <1>2, <1>3 DEF LeadRow
<1>5. page = "lead" /\ detail.busy = "no" /\ WriteLead(s, new, "status", "status")
  BY <1>1, <1>3 DEF Offered
<1>. QED  BY <1>4, <1>5, WriteKeeps

LEMMA AddNoteKeeps == ASSUME LeadInv, NEW s \in Slots, NEW n \in Notes, AddNote(s, n) PROVE LeadInv'
<1>1. PICK from : from = IF Promised THEN "note" ELSE "status"
  OBVIOUS
<1>2. PICK row \in detail.copy :
        Offered(row) /\ WriteLead(s, [row EXCEPT !.notes = @ \cup {n}], "note", from)
  BY <1>1 DEF AddNote
<1>3. row \in LeadRow
  BY LeadFacts DEF Detail
<1>4. PICK new : new = [row EXCEPT !.notes = @ \cup {n}]
  OBVIOUS
<1>5. new \in LeadRow /\ row.notes \subseteq new.notes
  BY <1>3, <1>4 DEF LeadRow
<1>6. page = "lead" /\ detail.busy = "no" /\ WriteLead(s, new, "note", from)
  BY <1>2, <1>4 DEF Offered
<1>7. from \in {"status", "note"} /\ (from = "note" => Promised)
  BY <1>1
<1>. QED  BY <1>5, <1>6, <1>7, WriteKeeps

\* What a reading brings is the page's copy, if it is still the page's own.
LEMMA GetAnsweredKeeps == ASSUME LeadInv, NEW s \in Slots, GetAnswered(s) PROVE LeadInv'
<1>1. PICK d : d = calls[s]
  OBVIOUS
<1>2. /\ d.from = "get" /\ d.at \in {"done", "failed"}
      /\ detail' = IF d.data # {} THEN [detail EXCEPT !.copy = d.data] ELSE detail
      /\ calls' = [calls EXCEPT ![s] = NoCall]
      /\ stored' = stored /\ given' = given /\ signedIn' = signedIn /\ page' = page /\ shown' = shown
      /\ selected' = selected /\ loop' = loop /\ kept' = kept
  BY <1>1 DEF GetAnswered, Answered, Free
<1>3. d \in Call /\ CallSound(d) /\ d.data \subseteq LeadRow
  <2>1. d \in Call /\ CallSound(d)
    BY <1>1, <1>2, LeadFacts
  <2>. QED  BY <2>1 DEF Call
<1>4. /\ detail' \in Detail /\ detail'.lead = detail.lead /\ detail'.busy = detail.busy
      /\ detail'.jumped = detail.jumped /\ (detail'.copy = d.data \/ detail'.copy = detail.copy)
  BY <1>2, <1>3, LeadFacts DEF Detail
<1>5. /\ calls' \in [Slots -> Call \cup {NoCall}] /\ calls'[s] = NoCall
      /\ \A t \in Slots : t # s => calls'[t] = calls[t]
  BY <1>2, SlotMoves
<1>6. /\ LeadTypeOK' /\ signedIn' \in BOOLEAN /\ LoopTyped' /\ InSight'
  BY <1>2, <1>4, <1>5 DEF LeadInv, LeadTypeOK, Ids, LoopTyped, InSight, Detail
<1>7. CopiesOk'
  <2>1. ~detail.jumped => Carries(detail.copy, detail.lead) /\ Carries(d.data, detail.lead)
    BY <1>2, <1>3 DEF LeadInv, CopiesOk, CallSound
  <2>. QED  BY <1>2, <1>4, <2>1 DEF LeadInv, CopiesOk, Shows, Carries
<1>8. ASSUME NEW t \in Slots PROVE CallSound(calls[t])'
  <2>1. CASE t = s
    BY <1>5, <2>1, NoCallIsSound DEF CallSound, Writing
  <2>2. CASE t # s
    <3>1. PICK b : b = calls[t] /\ CallSound(b)
      BY LeadFacts
    <3>2. b.from = "get" => detail.jumped
      BY <1>1, <1>2, <2>2, <3>1 DEF LeadInv, CallsApart, Apart
    <3>3. CallSound(b)'
      BY <1>2, <1>4, <3>1, <3>2 DEF CallSound, Writing, Shows, Carries
    <3>. QED  BY <1>5, <2>2, <3>1, <3>3 DEF CallSound, Writing
  <2>. QED  BY <2>1, <2>2
<1>9. CallsApart'
  <2>1. \A t, u \in Slots : t # u => Apart(calls'[t], calls'[u])
    BY <1>5, NoCallIsSound DEF LeadInv, CallsApart, Apart, Writing
  <2>. QED  BY <1>4, <2>1 DEF CallsApart, Apart, Writing
<1>. QED  BY <1>4, <1>6, <1>7, <1>8, <1>9 DEF LeadInv

\* The answer to the page's own write: its copy is what was stored.
LEMMA WriteAnsweredKeeps == ASSUME LeadInv, NEW s \in Slots, WriteAnswered(s) PROVE LeadInv'
<1>1. PICK d : d = calls[s]
  OBVIOUS
<1>2. /\ Writing(d) /\ d.at \in {"done", "failed"}
      /\ detail' = [detail EXCEPT !.busy = "no", !.copy = IF d.at = "done" THEN d.data ELSE @]
      /\ kept' = IF d.from = "note" THEN kept \cup Saved(d) ELSE kept
      /\ calls' = [calls EXCEPT ![s] = NoCall]
      /\ stored' = stored /\ given' = given /\ signedIn' = signedIn /\ page' = page /\ shown' = shown
      /\ selected' = selected /\ loop' = loop
  BY <1>1 DEF WriteAnswered, Answered, Free, Writing
<1>3. /\ d \in Call /\ CallSound(d) /\ d.data \subseteq LeadRow /\ page = "lead" /\ d.kind = "put"
  <2>1. d \in Call /\ CallSound(d)
    BY <1>1, <1>2, LeadFacts
  <2>. QED  BY <1>2, <2>1 DEF Call, CallSound
<1>4. /\ detail' \in Detail /\ detail'.lead = detail.lead /\ detail'.jumped = detail.jumped
      /\ detail'.copy = IF d.at = "done" THEN d.data ELSE detail.copy
  BY <1>2, <1>3, LeadFacts DEF Detail
<1>5. /\ calls' \in [Slots -> Call \cup {NoCall}] /\ calls'[s] = NoCall
      /\ \A t \in Slots : t # s => calls'[t] = calls[t]
  BY <1>2, SlotMoves
<1>6. ASSUME NEW k \in kept', k \notin kept
      PROVE  /\ d.from = "note" /\ d.at = "done" /\ k[1] = d.lead /\ d.lead \in given
             /\ \E row \in d.data : k[2] \in row.notes /\ k = <<d.lead, k[2]>>
  <2>1. d.from = "note" /\ k \in Saved(d)
    BY <1>2, <1>6
  <2>2. PICK row \in d.data : \E n \in row.notes : k = <<d.lead, n>>
    BY <2>1 DEF Saved
  <2>3. d.at = "done"
    BY <1>2, <1>3, <2>2 DEF CallSound
  <2>. QED  BY <1>3, <2>1, <2>2, <2>3 DEF CallSound
<1>7. kept' \subseteq Leads \X Notes /\ \A k \in kept' : k[1] \in given
  <2>. SUFFICES ASSUME NEW k \in kept' PROVE k \in Leads \X Notes /\ k[1] \in given
    OBVIOUS
  <2>1. CASE k \in kept
    BY <2>1, LeadFacts DEF LeadInv, CopiesOk
  <2>2. CASE k \notin kept
    BY <1>3, <1>6, <2>2, LeadFacts DEF LeadRow
  <2>. QED  BY <2>1, <2>2
<1>8. LeadTypeOK' /\ signedIn' \in BOOLEAN /\ LoopTyped' /\ InSight'
  BY <1>2, <1>4, <1>5, <1>7 DEF LeadInv, LeadTypeOK, Ids, LoopTyped, InSight, Detail
<1>9. \* Nothing that is shown, stored or under way is of the lead but what has the note.
      /\ shown = {} /\ \A t \in Slots : t # s => calls[t].from # "list"
      /\ d.from = "note" => /\ d.lead \notin loop.left
                            /\ \A t \in Slots : t # s /\ calls[t].kind = "put" => calls[t].lead # d.lead
  BY <1>1, <1>3, LeadFacts DEF LeadInv, InSight, CallSound, CallsApart, Apart
<1>10. \A row \in stored, k \in kept' : k[1] = row.id => k[2] \in row.notes
  <2>. SUFFICES ASSUME NEW row \in stored, NEW k \in kept', k[1] = row.id PROVE k[2] \in row.notes
    OBVIOUS
  <2>1. CASE k \in kept
    BY <2>1 DEF LeadInv, CopiesOk, Shows
  <2>2. CASE k \notin kept
    BY <1>3, <1>6, <2>2 DEF CallSound
  <2>. QED  BY <2>1, <2>2
<1>11. CopiesOk'
  <2>1. \A row \in loop.copies, k \in kept' : row.id \in loop.left /\ k[1] = row.id => k[2] \in row.notes
    BY <1>6, <1>9 DEF LeadInv, CopiesOk, Carries
  <2>2. ~detail.jumped => \A row \in detail'.copy, k \in kept' : k[1] = detail.lead => k[2] \in row.notes
    <3>. SUFFICES ASSUME ~detail.jumped, NEW row \in detail'.copy, NEW k \in kept', k[1] = detail.lead
                  PROVE  k[2] \in row.notes
      OBVIOUS
    <3>1. CASE k \in kept
      <4>1. Carries(d.data, detail.lead) /\ Carries(detail.copy, detail.lead)
        BY <1>2, <1>3 DEF LeadInv, CopiesOk, CallSound
      <4>. QED  BY <1>4, <3>1, <4>1 DEF Carries
    <3>2. CASE k \notin kept
      <4>1. d.at = "done" /\ \E new \in d.data : k[2] \in new.notes
        BY <1>6, <3>2
      <4>2. \A new \in d.data : new = row
        BY <1>3, <1>4, <4>1 DEF CallSound
      <4>. QED  BY <4>1, <4>2
    <3>. QED  BY <3>1, <3>2
  <2>. QED  BY <1>2, <1>4, <1>7, <1>9, <1>10, <2>1, <2>2 DEF CopiesOk, Shows, Carries
<1>12. ASSUME NEW t \in Slots PROVE CallSound(calls[t])'
  <2>1. CASE t = s
    BY <1>5, <2>1, NoCallIsSound DEF CallSound, Writing
  <2>2. CASE t # s
    <3>1. PICK b : b = calls[t] /\ CallSound(b) /\ ~Writing(b) /\ b.from # "list"
      BY <1>1, <1>2, <1>9, <2>2, LeadFacts DEF LeadInv, CallsApart, Apart
    <3>2. b.from = "get" => detail.jumped
      BY <1>2, <1>3, <3>1 DEF CallSound
    <3>3. b.kind = "put" => Carries(b.data, b.lead)'
      <4>. SUFFICES ASSUME b.kind = "put", NEW row \in b.data, NEW k \in kept', k[1] = b.lead
                    PROVE  k[2] \in row.notes
        BY DEF Carries
      <4>1. k \in kept
        BY <1>6, <1>9, <2>2, <3>1
      <4>. QED  BY <3>1, <4>1 DEF CallSound, Carries
    <3>4. CallSound(b)'
      BY <1>2, <1>4, <3>1, <3>2, <3>3 DEF CallSound, Writing
    <3>. QED  BY <1>5, <2>2, <3>1, <3>4 DEF CallSound, Writing
  <2>. QED  BY <2>1, <2>2
<1>13. CallsApart'
  <2>1. \A t, u \in Slots : t # u => Apart(calls'[t], calls'[u])
    BY <1>5, NoCallIsSound DEF LeadInv, CallsApart, Apart, Writing
  <2>. QED  BY <1>4, <2>1 DEF CallsApart, Apart, Writing
<1>. QED  BY <1>4, <1>8, <1>11, <1>12, <1>13 DEF LeadInv

\* A call is given up: when it was on its way the server may still carry it out.
LEMMA LoseCallKeeps == ASSUME LeadInv, NEW s \in Slots, LoseCall(s) PROVE LeadInv'
<1>1. PICK d \in Call : d = calls[s] /\ CallSound(d)
  BY LeadFacts DEF LoseCall
<1>2. PICK c : c = IF d.at = "sent" THEN [d EXCEPT !.from = "nobody"] ELSE NoCall
  OBVIOUS
<1>3. /\ calls' = [calls EXCEPT ![s] = c]
      /\ detail' = IF Writing(d) THEN [detail EXCEPT !.busy = "no"] ELSE detail
      /\ stored' = stored /\ given' = given /\ signedIn' = signedIn /\ page' = page /\ shown' = shown
      /\ selected' = selected /\ loop' = loop /\ kept' = kept
  <2>1. calls' = [calls EXCEPT ![s] = IF @.at = "sent" THEN [@ EXCEPT !.from = "nobody"] ELSE NoCall]
    BY DEF LoseCall
  <2>2. calls' = [calls EXCEPT ![s] = c]
    BY <1>1, <1>2, <2>1
  <2>. QED  BY <1>1, <2>2 DEF LoseCall, Writing
<1>4. /\ c \in Call \cup {NoCall} /\ c.from \in {"none", "nobody"}
      /\ \/ c = NoCall
         \/ c.kind = d.kind /\ c.lead = d.lead /\ c.data = d.data /\ c.at = d.at /\ c.from = "nobody"
  BY <1>2, NoCallIsSound DEF Call
<1>5. CallSound(c) /\ Within(c, d)
  <2>1. CASE c = NoCall
    BY <2>1, NoCallIsSound DEF Within, Writing
  <2>2. CASE c.kind = d.kind /\ c.lead = d.lead /\ c.data = d.data /\ c.at = d.at /\ c.from = "nobody"
    BY <1>1, <2>2 DEF CallSound, Writing, Within
  <2>. QED  BY <1>4, <2>1, <2>2
<1>6. /\ detail' \in Detail /\ detail'.lead = detail.lead /\ detail'.jumped = detail.jumped
      /\ detail'.copy = detail.copy /\ detail'.busy = IF Writing(d) THEN "no" ELSE detail.busy
  BY <1>3, LeadFacts DEF Detail
<1>7. /\ calls' \in [Slots -> Call \cup {NoCall}] /\ calls'[s] = c
      /\ \A t \in Slots : t # s => calls'[t] = calls[t]
  BY <1>3, <1>4, SlotMoves
<1>8. LeadTypeOK' /\ signedIn' \in BOOLEAN /\ LoopTyped' /\ InSight' /\ CopiesOk'
  BY <1>3, <1>6, <1>7 DEF LeadInv, LeadTypeOK, Ids, LoopTyped, InSight, CopiesOk, Shows, Carries, Detail
<1>9. ASSUME NEW t \in Slots PROVE CallSound(calls[t])'
  <2>1. PICK b : b = calls'[t] /\ CallSound(b)
    BY <1>5, <1>7, LeadFacts
  <2>2. Writing(d) => ~Writing(b)
    BY <1>1, <1>4, <1>7, <2>1 DEF LeadInv, CallsApart, Apart, Writing
  <2>3. CallSound(b)'
    BY <1>3, <1>6, <2>1, <2>2 DEF CallSound, Writing, Shows, Carries
  <2>. QED  BY <2>1, <2>3 DEF CallSound, Writing
<1>10. CallsApart'
  <2>1. \A t \in Slots : t # s => Apart(calls[t], c) /\ Apart(c, calls[t])
    BY <1>1, <1>5, WithinIsApart, LeadFacts DEF LeadInv, CallsApart
  <2>2. \A t, u \in Slots : t # u => Apart(calls'[t], calls'[u])
    BY <1>7, <2>1 DEF LeadInv, CallsApart
  <2>. QED  BY <1>6, <2>2 DEF CallsApart, Apart, Writing
<1>. QED  BY <1>6, <1>8, <1>9, <1>10 DEF LeadInv

-----------------------------------------------------------------------------
(* The server.                                                             *)

\* An answer is the call with what it brings.
LEMMA AnswerIsACall ==
  ASSUME LeadInv, NEW s \in Slots, NEW d \in Call, d = calls[s], NEW at \in {"done", "failed"},
         NEW data \in SUBSET LeadRow, Answer(s, at, data)
  PROVE  \E c \in Call : /\ calls' = [calls EXCEPT ![s] = c] /\ c.at = at /\ c.data = data
                         /\ c.kind = d.kind /\ c.lead = d.lead /\ c.from = d.from
<1>1. PICK c : c = [d EXCEPT !.at = at, !.data = data]
  OBVIOUS
<1>2. /\ c \in Call /\ c.at = at /\ c.data = data
      /\ c.kind = d.kind /\ c.lead = d.lead /\ c.from = d.from
  BY <1>1 DEF Call
<1>3. calls' = [calls EXCEPT ![s] = c]
  BY <1>1, LeadFacts DEF Answer, Call
<1>. QED  BY <1>2, <1>3

\* The server's rows change: they show what was reported, and where a promised note
\* was stored its row stays.
LEMMA ServedKeeps ==
  ASSUME LeadInv, NEW s \in Slots, NEW d \in Call, d = calls[s], NEW c \in Call,
         calls' = [calls EXCEPT ![s] = c], c.kind = d.kind, c.lead = d.lead, c.from = d.from,
         UNCHANGED <<signedIn, page, shown, selected, detail, loop, kept>>,
         given \subseteq given', given' \subseteq Leads,
         stored' \subseteq LeadRow, Ids(stored') \subseteq given', Shows(stored'), CallSound(c)',
         \A t \in Slots : t # s /\ calls[t].from = "note" /\ calls[t].at = "done" =>
           \A row \in stored' : row.id = calls[t].lead => row \in stored
  PROVE  LeadInv'
<1>1. /\ signedIn' = signedIn /\ page' = page /\ shown' = shown /\ selected' = selected
      /\ detail' = detail /\ loop' = loop /\ kept' = kept
  OBVIOUS
<1>2. /\ calls' \in [Slots -> Call \cup {NoCall}] /\ calls'[s] = c
      /\ \A t \in Slots : t # s => calls'[t] = calls[t]
  BY SlotMoves
<1>3. Ids(stored)' \subseteq given' /\ Shows(stored)'
  BY <1>1 DEF Ids, Shows
<1>4. LeadTypeOK' /\ signedIn' \in BOOLEAN /\ detail' \in Detail /\ LoopTyped' /\ InSight' /\ CopiesOk'
  <2>1. LeadTypeOK'
    BY <1>1, <1>2, <1>3 DEF LeadInv, LeadTypeOK
  <2>2. CopiesOk'
    BY <1>1, <1>3 DEF LeadInv, CopiesOk, Shows, Carries
  <2>. QED  BY <1>1, <2>1, <2>2 DEF LeadInv, LoopTyped, InSight
<1>5. ASSUME NEW t \in Slots PROVE CallSound(calls[t])'
  <2>1. CASE t = s
    BY <1>2, <2>1 DEF CallSound, Writing
  <2>2. CASE t # s
    <3>1. PICK b : b = calls[t] /\ CallSound(b)
      BY LeadFacts
    <3>2. b.from = "note" /\ b.at = "done" => \A row \in stored' : row.id = b.lead => row \in stored
      BY <2>2, <3>1
    <3>3. CallSound(b)'
      BY <1>1, <3>1, <3>2 DEF CallSound, Writing, Shows, Carries
    <3>. QED  BY <1>2, <2>2, <3>1, <3>3 DEF CallSound, Writing
  <2>. QED  BY <2>1, <2>2
<1>6. CallsApart'
  <2>1. \A t, u \in Slots : t # u => Apart(calls'[t], calls'[u])
    BY <1>2 DEF LeadInv, CallsApart, Apart, Writing
  <2>. QED  BY <1>1, <2>1 DEF CallsApart, Apart, Writing
<1>. QED  BY <1>4, <1>5, <1>6 DEF LeadInv

LEMMA ServeReadKeeps ==
  ASSUME LeadInv, NEW s \in Slots, calls[s].at = "sent", ServeRead(s),
         UNCHANGED <<signedIn, page, shown, selected, detail, loop, kept>>
  PROVE  LeadInv'
<1>1. PICK d \in Call : d = calls[s] /\ CallSound(d)
  BY LeadFacts
<1>2. PICK data \in SUBSET LeadRow :
        /\ Answer(s, "done", data) /\ data \subseteq stored
        /\ d.kind \in {"list", "get"}
        /\ d.kind = "get" => \A row \in data : row.id = d.lead
  <2>1. ASSUME NEW ids \in SUBSET Leads, d.kind = "list", Answer(s, "done", RowsFor(stored, ids))
        PROVE  \E data \in SUBSET LeadRow :
                 /\ Answer(s, "done", data) /\ data \subseteq stored
                 /\ d.kind \in {"list", "get"}
                 /\ d.kind = "get" => \A row \in data : row.id = d.lead
    <3>1. RowsFor(stored, ids) \in SUBSET LeadRow /\ RowsFor(stored, ids) \subseteq stored
      BY LeadFacts DEF RowsFor
    <3>. QED  BY <2>1, <3>1
  <2>2. CASE d.kind = "get" /\ Answer(s, "done", RowsFor(stored, {d.lead}))
    <3>1. /\ RowsFor(stored, {d.lead}) \in SUBSET LeadRow /\ RowsFor(stored, {d.lead}) \subseteq stored
          /\ \A row \in RowsFor(stored, {d.lead}) : row.id = d.lead
      BY LeadFacts DEF RowsFor
    <3>. QED  BY <2>2, <3>1
  <2>. QED  BY <1>1, <2>1, <2>2 DEF ServeRead
<1>3. PICK c \in Call : /\ calls' = [calls EXCEPT ![s] = c] /\ c.at = "done" /\ c.data = data
                        /\ c.kind = d.kind /\ c.lead = d.lead /\ c.from = d.from
  BY <1>1, <1>2, AnswerIsACall
<1>4. Shows(data) /\ (d.kind = "get" => Carries(data, d.lead))
  BY <1>2 DEF LeadInv, CopiesOk, Shows, Carries
<1>5. CallSound(c) /\ Within(c, calls[s])
  BY <1>1, <1>2, <1>3, <1>4 DEF CallSound, Writing, Within
<1>. QED  BY <1>3, <1>5, OnlyTheCall DEF ServeRead

LEMMA ServeWriteKeeps ==
  ASSUME LeadInv, NEW s \in Slots, calls[s].at = "sent", ServeWrite(s),
         UNCHANGED <<signedIn, page, shown, selected, detail, loop, kept>>
  PROVE  LeadInv'
<1>1. PICK d \in Call : d = calls[s] /\ CallSound(d)
  BY LeadFacts
<1>2. /\ page' = page /\ detail' = detail /\ loop' = loop /\ kept' = kept
      /\ {} \in SUBSET LeadRow
  OBVIOUS
<1>3. ASSUME NEW row \in d.data, d.kind = "put", d.lead \in Ids(stored),
             stored' = Replaced(stored, [row EXCEPT !.id = d.lead]),
             Answer(s, "done", {[row EXCEPT !.id = d.lead]}), given' = given
      PROVE  LeadInv'
  <2>1. PICK new : new = [row EXCEPT !.id = d.lead]
    OBVIOUS
  <2>2. d.lead \in given /\ d.lead \in Leads /\ row \in LeadRow
    BY <1>3, LeadFacts DEF Call
  <2>3. new \in LeadRow /\ new.id = d.lead /\ new.notes = row.notes
    BY <2>1, <2>2 DEF LeadRow
  <2>4. stored' = Without(stored, d.lead) \cup {new}
    BY <1>3, <2>1, <2>3 DEF Replaced
  <2>5. PICK c \in Call : /\ calls' = [calls EXCEPT ![s] = c] /\ c.at = "done" /\ c.data = {new}
                          /\ c.kind = d.kind /\ c.lead = d.lead /\ c.from = d.from
    BY <1>1, <1>3, <2>1, <2>3, AnswerIsACall
  <2>6. Carries({new}, d.lead)
    BY <1>1, <1>3, <2>3 DEF CallSound, Carries
  <2>7. /\ stored' \subseteq LeadRow /\ Ids(stored') \subseteq given' /\ Shows(stored')
    BY <1>3, <2>2, <2>3, <2>4, <2>6, LeadFacts DEF LeadInv, CopiesOk, Shows, Carries, Ids, Without
  <2>8. \A r \in stored' : r.id = d.lead => r = new
    BY <2>3, <2>4 DEF Without
  <2>9. CallSound(c)'
    BY <1>1, <1>2, <1>3, <2>2, <2>3, <2>5, <2>6, <2>8 DEF CallSound, Writing, Carries
  <2>10. \A t \in Slots : t # s /\ calls[t].from = "note" => calls[t].lead # d.lead
    BY <1>1, <1>3 DEF LeadInv, CallsApart, Apart
  <2>11. \A t \in Slots : t # s /\ calls[t].from = "note" /\ calls[t].at = "done" =>
           \A r \in stored' : r.id = calls[t].lead => r \in stored
    BY <2>3, <2>4, <2>10 DEF Without
  <2>. QED  BY <1>1, <1>3, <2>5, <2>7, <2>9, <2>11, LeadFacts, ServedKeeps
<1>4. CASE d.kind = "delete" /\ stored' = Without(stored, d.lead) /\ Answer(s, "done", {}) /\ given' = given
  <2>1. PICK c \in Call : /\ calls' = [calls EXCEPT ![s] = c] /\ c.at = "done" /\ c.data = {}
                          /\ c.kind = d.kind /\ c.lead = d.lead /\ c.from = d.from
    BY <1>1, <1>2, <1>4, AnswerIsACall
  <2>2. /\ stored' \subseteq stored /\ stored' \subseteq LeadRow /\ Ids(stored') \subseteq given' /\ Shows(stored')
    BY <1>4, LeadFacts DEF LeadInv, CopiesOk, Shows, Ids, Without
  <2>3. CallSound(c)'
    BY <1>1, <1>2, <1>4, <2>1 DEF CallSound, Writing, Shows, Carries
  <2>. QED  BY <1>1, <1>4, <2>1, <2>2, <2>3, LeadFacts, ServedKeeps
<1>5. ASSUME NEW new \in Leads \ given, d.kind = "post", stored' = stored \cup {NewLead(new)},
             given' = given \cup {new}, Answer(s, "done", {NewLead(new)})
      PROVE  LeadInv'
  <2>1. PICK row : row = NewLead(new)
    OBVIOUS
  <2>2. row \in LeadRow /\ row.id = new /\ stored' = stored \cup {row}
    BY <1>5, <2>1, LeadAssumption DEF NewLead, LeadRow, LeadAssumption
  <2>3. PICK c \in Call : /\ calls' = [calls EXCEPT ![s] = c] /\ c.at = "done" /\ c.data = {row}
                          /\ c.kind = d.kind /\ c.lead = d.lead /\ c.from = d.from
    BY <1>1, <1>5, <2>1, <2>2, AnswerIsACall
  <2>4. /\ stored' \subseteq LeadRow /\ Ids(stored') \subseteq given' /\ Shows(stored')
        /\ given \subseteq given' /\ given' \subseteq Leads
    BY <1>5, <2>2, LeadFacts DEF LeadInv, CopiesOk, Shows, Ids
  <2>5. CallSound(c)'
    BY <1>1, <1>2, <1>5, <2>3 DEF CallSound, Writing
  <2>6. ASSUME NEW t \in Slots, calls[t].from = "note", calls[t].at = "done"
        PROVE  calls[t].lead # new
    <3>1. CallSound(calls[t])
      BY LeadFacts
    <3>. QED  BY <2>6, <3>1 DEF CallSound, Writing
  <2>7. \A t \in Slots : t # s /\ calls[t].from = "note" /\ calls[t].at = "done" =>
          \A r \in stored' : r.id = calls[t].lead => r \in stored
    BY <2>2, <2>6
  <2>. QED  BY <1>1, <2>3, <2>4, <2>5, <2>7, ServedKeeps
<1>6. CASE Answer(s, "failed", {}) /\ stored' = stored /\ given' = given
  <2>1. PICK c \in Call : /\ calls' = [calls EXCEPT ![s] = c] /\ c.at = "failed" /\ c.data = {}
                          /\ c.kind = d.kind /\ c.lead = d.lead /\ c.from = d.from
    BY <1>1, <1>2, <1>6, AnswerIsACall
  <2>2. /\ stored' \subseteq LeadRow /\ Ids(stored') \subseteq given' /\ Shows(stored')
    BY <1>6, LeadFacts DEF LeadInv, CopiesOk
  <2>3. CallSound(c)'
    BY <1>1, <1>2, <1>6, <2>1 DEF CallSound, Writing, Shows, Carries
  <2>. QED  BY <1>1, <1>6, <2>1, <2>2, <2>3, LeadFacts, ServedKeeps
<1>. QED  BY <1>1, <1>3, <1>4, <1>5, <1>6 DEF ServeWrite

LEMMA ServeKeeps == ASSUME LeadInv, NEW s \in Slots, Serve(s) PROVE LeadInv'
BY ServeReadKeeps, ServeWriteKeeps DEF Serve

-----------------------------------------------------------------------------

LEMMA LeadStep == LeadInv /\ [LeadNext]_leadVars => LeadInv'
<1>. SUFFICES ASSUME LeadInv, [LeadNext]_leadVars PROVE LeadInv'
  OBVIOUS
<1>1. /\ Login \/ Logout \/ Reload \/ OpenHome \/ OpenNew => LeadInv'
      /\ SelectAll \/ ClearSelection \/ LoopEnd => LeadInv'
  BY LoginKeeps, LogoutKeeps, ReloadKeeps, OpenHomeKeeps, OpenNewKeeps, SelectAllKeeps,
     ClearSelectionKeeps, LoopEndKeeps
<1>2. \A l \in Leads : SelectLead(l) \/ LoopSkip(l) => LeadInv'
  BY SelectLeadKeeps, LoopSkipKeeps
<1>3. StartLoop("delete", "none") => LeadInv'
  BY StartLoopKeeps
<1>4. \A status \in LeadStatuses : StartLoop("put", status) => LeadInv'
  BY StartLoopKeeps
<1>5. ASSUME NEW s \in Slots
      PROVE  /\ OpenList(s) \/ FilterList(s) \/ CreateLead(s) => LeadInv'
             /\ \A l \in Leads : OpenLead(s, l) \/ JumpToLead(s, l) \/ DeleteLead(s, l) \/ LoopSend(s, l) => LeadInv'
             /\ \A status \in LeadStatuses : ChangeStatus(s, status) => LeadInv'
             /\ \A n \in Notes : AddNote(s, n) => LeadInv'
             /\ Serve(s) \/ Deny(s) \/ LoseCall(s) \/ Denied(s) => LeadInv'
             /\ ListAnswered(s) \/ GetAnswered(s) \/ WriteAnswered(s) \/ LoopAnswered(s) => LeadInv'
             /\ NewAnswered(s) \/ NewRefused(s) \/ NobodyAnswered(s) => LeadInv'
  <2>1. OpenList(s) \/ FilterList(s) \/ CreateLead(s) => LeadInv'
    BY OpenListKeeps, FilterListKeeps, CreateLeadKeeps DEF OpenList
  <2>2. \A l \in Leads : OpenLead(s, l) \/ JumpToLead(s, l) \/ DeleteLead(s, l) \/ LoopSend(s, l) => LeadInv'
    BY OpenLeadKeeps, JumpKeeps, DeleteLeadKeeps, LoopSendKeeps
  <2>3. \A status \in LeadStatuses : ChangeStatus(s, status) => LeadInv'
    BY ChangeStatusKeeps
  <2>4. \A n \in Notes : AddNote(s, n) => LeadInv'
    BY AddNoteKeeps
  <2>5. Serve(s) \/ Deny(s) \/ LoseCall(s) \/ Denied(s) => LeadInv'
    BY ServeKeeps, DenyKeeps, LoseCallKeeps, DeniedKeeps
  <2>6. ListAnswered(s) \/ GetAnswered(s) \/ WriteAnswered(s) \/ LoopAnswered(s) => LeadInv'
    BY ListAnsweredKeeps, GetAnsweredKeeps, WriteAnsweredKeeps, LoopAnsweredKeeps
  <2>7. NewAnswered(s) => LeadInv'
    BY OpenListKeeps DEF NewAnswered
  <2>8. NewRefused(s) \/ NobodyAnswered(s) => LeadInv'
    BY FreeKeeps DEF NewRefused, NobodyAnswered
  <2>. QED  BY <2>1, <2>2, <2>3, <2>4, <2>5, <2>6, <2>7, <2>8
<1>6. CASE UNCHANGED leadVars
  <2>1. /\ stored' = stored /\ given' = given /\ signedIn' = signedIn /\ page' = page /\ shown' = shown
        /\ selected' = selected /\ detail' = detail /\ loop' = loop /\ calls' = calls /\ kept' = kept
    BY <1>6 DEF leadVars
  <2>. QED  BY <2>1, SelectionKeeps, LeadFacts
<1>. QED  BY <1>1, <1>2, <1>3, <1>4, <1>5, <1>6 DEF LeadNext

-----------------------------------------------------------------------------

\* However creations overlap with the queries of a file, the file has rows of its own
\* tenant, committed ones, and all that were there when it was asked for.
THEOREM FilesStayWhole == TenantInit /\ [][TenantNext]_tenantVars => []FilesAreOwnAndWhole
BY TenantStart, TenantStep, FilesAreWhole, PTL

\* A note that the page of a lead, opened for it, has reported saved is lost to nothing
\* that the console sends, but to a write that was unattended before the note was sent.
THEOREM NotesStay == LeadInit /\ [][LeadNext]_leadVars => []SavedNotesStay
<1>1. LeadInv => SavedNotesStay
  BY DEF LeadInv, CopiesOk, Shows, SavedNotesStay
<1>. QED  BY <1>1, LeadStart, LeadStep, PTL

\* When nothing is on its way the page of the rules shows the rules the server has,
\* unless calls overlapped, failed or were lost since its last load that ran alone.
THEOREM RulesStayTrue == RuleInit /\ [][RuleNext]_ruleVars => []RulesShownAreStored
BY RuleStart, RuleStep, ShownIsStored, PTL

\* The CRM as the run composes it: state of its types, whole files, notes that stay and
\* rules as they are stored, whichever part a behaviour is of.
THEOREM PagesShow == SpecCrm => []PagesShowWhatIsStored
<1> DEFINE CrmInv == /\ part \in {"records", "files", "leads", "rules"}
                     /\ RecordInv /\ TenantInv /\ LeadInv /\ RuleInv
<1>1. InitCrm => CrmInv
  BY RecordStart, TenantStart, LeadStart, RuleStart DEF InitCrm
<1>2. CrmInv /\ [NextCrm]_crmVars => CrmInv'
  <2>1. [NextCrm]_crmVars =>
          /\ part' = part /\ [RecordNext]_recordVars /\ [TenantNext]_tenantVars
          /\ [LeadNext]_leadVars /\ [RuleNext]_ruleVars
    BY DEF NextCrm, Records, Files, LeadPages, RulePage, crmVars
  <2>. QED  BY <2>1, RecordStep, TenantStep, LeadStep, RuleStep
<1>3. CrmInv => PagesShowWhatIsStored
  <2>1. RecordInv => RecordTypeOK
    BY DEF RecordInv
  <2>2. TenantInv => TenantTypeOK /\ FilesAreOwnAndWhole
    BY FilesAreWhole DEF TenantInv
  <2>3. LeadInv => LeadTypeOK /\ SavedNotesStay
    BY DEF LeadInv, CopiesOk, Shows, SavedNotesStay
  <2>4. RuleInv => RuleTypeOK /\ RulesShownAreStored
    BY ShownIsStored DEF RuleInv
  <2>. QED  BY <2>1, <2>2, <2>3, <2>4 DEF PagesShowWhatIsStored
<1>. QED  BY <1>1, <1>2, <1>3, PTL DEF SpecCrm

=============================================================================

--------------------------- MODULE RecordCommands ---------------------------
(***************************************************************************)
(* CompanyGroupService.create, ContactService.create,                      *)
(* OpportunityService.create and ContactPointService.create over           *)
(* PostgresCorePersistence, for one organization.                          *)
(*                                                                         *)
(* Each runs in a READ COMMITTED transaction: every query sees what is     *)
(* committed when it runs.  Inserts and the COMMIT are one step, because a *)
(* second writer of a unique key waits for the first and fails when it     *)
(* commits.  Each step may instead fail and roll back.  The audit event,   *)
(* written with every new row, is left out, and so is authorize.           *)
(***************************************************************************)
EXTENDS Naturals, Sequences, FiniteSets

CONSTANTS
  Callers,      \* requests under way at the same time
  CommandKeys,  \* idempotency keys
  Payloads,     \* what is asked for: a sequence of payloads like AnyPayload
  Hostname,     \* by website, its host in lower case without www.
  Similarity,   \* by pair of names, nameSimilarity in hundredths; a name that
                \* normalizes to nothing is similar to none, itself included
  MaxRows       \* bound on the rows ever created

VARIABLES
  rows,         \* committed rows of the four tables, in commit order
  ledger,       \* core_idempotency: by operation and key
  tx            \* by caller, its transaction

recordVars == <<rows, ledger, tx>>

None == "none"
Kinds == {"COMPANY", "CONTACT", "OPPORTUNITY", "CONTACT_POINT"}

\* A request is known by its place in Payloads.
Requests == DOMAIN Payloads

\* country and legal stand for the location and legal identifier of the payload;
\* of is the row a contact, opportunity or contact point belongs to; value is the
\* hash of the contact point's normalized value.
AnyPayload == [kind |-> None, website |-> None, name |-> None, country |-> None,
               legal |-> None, of |-> 0, value |-> None]

ASSUME RecordAssumption ==
  /\ MaxRows \in Nat
  /\ \A p \in Requests : Payloads[p].kind \in Kinds
  /\ \A p, q \in {r \in Requests : Payloads[r].kind = "COMPANY"} :
       Similarity[<<Payloads[p].name, Payloads[q].name>>] \in Nat

\* identity is globalIdentityStatus; bytes tells a Buffer from the object that
\* JSON makes of it; key and began are history: the key the row was created
\* under and the rows that were there when its transaction began.
NoEntry == [request |-> 0, row |-> 0, bytes |-> None]
Identities == {"UNRESOLVED", "RESOLVED", "AMBIGUOUS"}
Transaction == [
  at : {"idle", "ledger", "domain", "resolve", "hash", "link", "insert", "throws"},
  key : CommandKeys \cup {None}, request : Requests \cup {0}, found : Nat,
  identity : Identities, began : Nat]
NoTx == [at |-> "idle", key |-> None, request |-> 0, found |-> 0,
         identity |-> "UNRESOLVED", began |-> 0]

RecordInit ==
  /\ rows = << >>
  /\ ledger = [o \in Kinds \X CommandKeys |-> NoEntry]
  /\ tx = [c \in Callers |-> NoTx]

-----------------------------------------------------------------------------

\* What a transaction was asked for, and what a row holds.
Asked(t) == Payloads[t.request]
Row(r) == Payloads[rows[r].request]
RowsOf(kind) == {r \in DOMAIN rows : Row(r).kind = kind}
EntryOf(t) == ledger[<<Asked(t).kind, t.key>>]

\* existingByDomain.
SameDomain(a, b) ==
  a.website # None /\ b.website # None /\ Hostname[a.website] = Hostname[b.website]
ByDomain(asked) == {r \in RowsOf("COMPANY") : SameDomain(Row(r), asked)}

\* loadKnownEntities: the companies that came with a location.
Known == {r \in RowsOf("COMPANY") : Row(r).country # None}

\* A legal identifier counts within its country, whatever the name; a name
\* within its country and from 0.60 on; a runner-up closer than 0.05 is a tie.
ByLegalIdentifier(asked) ==
  {r \in Known : asked.legal # None /\ Row(r).legal = asked.legal
                 /\ Row(r).country = asked.country}
SimilarityTo(asked, r) == Similarity[<<asked.name, Row(r).name>>]
Closest(asked) ==
  LET scored == {r \in Known : Row(r).country = asked.country} IN
  {r \in scored : /\ SimilarityTo(asked, r) >= 60
                  /\ \A s \in scored : SimilarityTo(asked, s) <= SimilarityTo(asked, r)}
Tied(asked) ==
  \E r \in Closest(asked), s \in Known :
    /\ s # r /\ Row(s).country = asked.country
    /\ SimilarityTo(asked, r) - SimilarityTo(asked, s) < 5

\* resolveCompanyEntity with one name and one location, which always has its
\* country: only a tie keeps a new company from being RESOLVED, and a company
\* with the legal identifier is taken even then.
ResolveCompanyEntity(asked) ==
  IF ByLegalIdentifier(asked) # {} THEN ByLegalIdentifier(asked)
  ELSE IF Tied(asked) THEN {} ELSE Closest(asked)
IdentityStatus(asked) == IF Tied(asked) THEN "AMBIGUOUS" ELSE "RESOLVED"

\* The constraints of migration 0001, some other key's row included.
Belongs == [CONTACT |-> "COMPANY", OPPORTUNITY |-> "COMPANY", CONTACT_POINT |-> "CONTACT"]
InsertSucceeds(asked) ==
  CASE asked.kind = "COMPANY" ->
         asked.country # None => ByLegalIdentifier(asked) = {}
    [] asked.kind = "CONTACT_POINT" ->
         /\ asked.of \in RowsOf("CONTACT")
         /\ \A r \in RowsOf("CONTACT_POINT") : Row(r).value # asked.value
    [] OTHER -> asked.of \in RowsOf("COMPANY")

-----------------------------------------------------------------------------

Step(c, place) == tx' = [tx EXCEPT ![c].at = place]

\* Answered, or failed and rolled back.
EndTx(c) == tx' = [tx EXCEPT ![c] = NoTx]

\* Where a create goes after the ledger, and after the search by domain.
AfterLedger(asked) ==
  CASE asked.kind = "COMPANY" -> IF asked.website # None THEN "domain" ELSE "resolve"
    [] asked.kind = "CONTACT_POINT" -> "hash"
    [] OTHER -> "insert"

BeginCreate(c, key, request) ==
  /\ tx[c].at = "idle"
  /\ tx' = [tx EXCEPT ![c] = [NoTx EXCEPT !.at = "ledger", !.key = key, !.request = request,
                                          !.began = Len(rows)]]
  /\ UNCHANGED <<rows, ledger>>

\* A key used for another payload is refused; for the same one the snapshot is
\* answered.  That of a contact point has its value deciphered first, which
\* throws when JSON has made an object of the Buffer: it has no subarray.
ReadLedger(c) ==
  LET t == tx[c]
      entry == EntryOf(t) IN
  /\ t.at = "ledger"
  /\ IF entry = NoEntry THEN Step(c, AfterLedger(Asked(t)))
     ELSE IF entry.request = t.request /\ entry.bytes = "object" THEN Step(c, "throws")
     ELSE EndTx(c)
  /\ UNCHANGED <<rows, ledger>>

\* The first by created_at, a time of the process that wrote it: any of them.
MatchDomain(c) ==
  LET matches == ByDomain(Asked(tx[c])) IN
  /\ tx[c].at = "domain"
  /\ \/ \E r \in matches : tx' = [tx EXCEPT ![c].at = "link", ![c].found = r]
     \/ matches = {} /\ Step(c, "resolve")
  /\ UNCHANGED <<rows, ledger>>

\* Without a location nothing is resolved.
ResolveIdentity(c) ==
  LET asked == Asked(tx[c])
      matches == ResolveCompanyEntity(asked) IN
  /\ tx[c].at = "resolve"
  /\ IF asked.country = None THEN Step(c, "insert")
     ELSE \/ \E r \in matches : tx' = [tx EXCEPT ![c].at = "link", ![c].found = r]
          \/ /\ matches = {}
             /\ tx' = [tx EXCEPT ![c].at = "insert", ![c].identity = IdentityStatus(asked)]
  /\ UNCHANGED <<rows, ledger>>

\* findByHash: of the same contact, though the index knows no contacts.
FindByHash(c) ==
  LET asked == Asked(tx[c])
      matches == {r \in RowsOf("CONTACT_POINT") :
                    Row(r).value = asked.value /\ Row(r).of = asked.of} IN
  /\ tx[c].at = "hash"
  /\ \/ \E r \in matches : tx' = [tx EXCEPT ![c].at = "link", ![c].found = r]
     \/ matches = {} /\ Step(c, "insert")
  /\ UNCHANGED <<rows, ledger>>

\* idempotency.put: the fingerprint and the row as JSON.
Put(t, r) ==
  [ledger EXCEPT ![<<Asked(t).kind, t.key>>] =
     [request |-> t.request, row |-> r,
      bytes |-> IF Asked(t).kind = "CONTACT_POINT" THEN "object" ELSE None]]

\* The key is recorded for the row that was found.
CommitLink(c) ==
  /\ tx[c].at = "link"
  /\ EntryOf(tx[c]) = NoEntry
  /\ ledger' = Put(tx[c], tx[c].found)
  /\ EndTx(c)
  /\ UNCHANGED rows

NewRow(t) == [request |-> t.request, identity |-> t.identity,
              key |-> t.key, began |-> t.began]

CommitInsert_asUpsert(c) ==
  LET t == tx[c] IN
  /\ t.at = "insert" /\ Len(rows) < MaxRows
  /\ InsertSucceeds(Asked(t))
  /\ rows' = Append(rows, NewRow(t))
  /\ ledger' = Put(t, Len(rows) + 1)
  /\ EndTx(c)
CommitInsert(c) ==
  LET t == tx[c] IN
  /\ t.at = "insert" /\ Len(rows) < MaxRows
  /\ InsertSucceeds(Asked(t))
  /\ EntryOf(t) = NoEntry
  /\ rows' = Append(rows, NewRow(t))
  /\ ledger' = Put(t, Len(rows) + 1)
  /\ EndTx(c)

\* A throw, a violated constraint, a lost connection, the end of the process.
Rollback(c) ==
  /\ tx[c].at # "idle"
  /\ EndTx(c)
  /\ UNCHANGED <<rows, ledger>>

RecordNext ==
  \E c \in Callers :
    \/ \E k \in CommandKeys, request \in Requests : BeginCreate(c, k, request)
    \/ ReadLedger(c) \/ MatchDomain(c) \/ ResolveIdentity(c) \/ FindByHash(c)
    \/ CommitLink(c) \/ CommitInsert(c) \/ Rollback(c)

RecordSpec == RecordInit /\ [][RecordNext]_recordVars

-----------------------------------------------------------------------------
(* Properties.                                                             *)

RecordTypeOK ==
  /\ rows \in Seq([request : Requests, identity : Identities, key : CommandKeys, began : Nat])
  /\ Len(rows) <= MaxRows /\ \A r \in DOMAIN rows : rows[r].began < r
  /\ ledger \in [Kinds \X CommandKeys ->
       [request : Requests, row : DOMAIN rows, bytes : {"object", None}] \cup {NoEntry}]
  /\ tx \in [Callers -> Transaction]
  /\ \A c \in Callers : tx[c].found \in DOMAIN rows \cup {0}

\* What a key was used for stays what it names, however its requests overlap,
\* repeat or fail: the row created under a key is the one its entry names, so a
\* key creates one row at most; an entry names a row of its operation that was
\* created for it or, for a company, has the domain or the identity that was asked
\* for and, for a contact point, hangs from the same contact; and a contact point
\* hangs from a contact, the others from a company.
\* Two companies with one domain, or located in one country under similar names
\* and the later not marked AMBIGUOUS, were created by transactions that
\* overlapped: a creation that begins after the other has committed finds it.
\* Two with one legal identifier in one country there are never, and no value of
\* a contact point is stored twice.
SameCompany(asked, row) ==
  \/ SameDomain(asked, row)
  \/ /\ asked.country = row.country
     /\ \/ asked.legal # None /\ asked.legal = row.legal
        \/ Similarity[<<asked.name, row.name>>] >= 60
RecordsAreNamedAndUnique ==
  /\ \A r \in DOMAIN rows : ledger[<<Row(r).kind, rows[r].key>>].row = r
  /\ \A o \in DOMAIN ledger : ledger[o] # NoEntry =>
       LET row == Row(ledger[o].row)
           asked == Payloads[ledger[o].request] IN
       /\ row.kind = o[1] /\ asked.kind = o[1]
       /\ o[1] = "COMPANY" => row = asked \/ SameCompany(asked, row)
       /\ o[1] # "COMPANY" => row.of = asked.of /\ Row(row.of).kind = Belongs[o[1]]
  /\ \A r, s \in DOMAIN rows : r < s /\ Row(r).kind = Row(s).kind =>
       LET a == Row(r)
           b == Row(s) IN
       /\ a.kind = "COMPANY" =>
            /\ SameDomain(a, b) => r > rows[s].began
            /\ a.country # None /\ a.country = b.country =>
                 /\ Similarity[<<b.name, a.name>>] >= 60 /\ rows[s].identity # "AMBIGUOUS"
                    => r > rows[s].began
                 /\ a.legal # None => a.legal # b.legal
       /\ a.kind = "CONTACT_POINT" => a.value # b.value

\* The ledger is there so that a command repeated under its key with its
\* payload is answered with its record: reading the entry does not throw.
RepeatsAreAnswered == \A c \in Callers : tx[c].at # "throws"
=============================================================================

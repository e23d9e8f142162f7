---------------------------- MODULE TenantRecords ---------------------------
(***************************************************************************)
(* What Core API reads of its CRM tables while they are written: the lists *)
(* of an organization and Company 360, the file of a company with its      *)
(* contacts, opportunities and timeline.                                   *)
(*                                                                         *)
(* A creation runs in a READ COMMITTED transaction: it inserts a row, then *)
(* its audit event, and both become visible at COMMIT.  Foreign keys name  *)
(* a row by its id alone, so a row may hang from one of another tenant.    *)
(* A file is no transaction: the company is read first, then three queries *)
(* run in parallel, each on its own connection and in any order, and what  *)
(* they find is put together.  Updates and deletions the API has none.     *)
(* The idempotency ledger is in RecordCommands; authorize is left out.     *)
(***************************************************************************)
EXTENDS Naturals, FiniteSets

CONSTANTS
  Tenants,     \* organizations
  Writers,     \* creations under way at the same time
  Readers,     \* files asked for at the same time
  RecordIds    \* what newId gives, 0 excluded

ASSUME TenantAssumption == RecordIds \subseteq Nat \ {0}

VARIABLES
  committed,      \* committed rows: [id, kind, org, of]
  trail,       \* rhia.audit_event: [about, org], one per creation
  creation,    \* by writer, where it is and the row it inserts
  file         \* by reader, what it asked and what its queries found

tenantVars == <<committed, trail, creation, file>>

TenantKinds == {"COMPANY", "CONTACT", "OPPORTUNITY"}
ParentKind == [CONTACT |-> "COMPANY", OPPORTUNITY |-> "COMPANY"]
StoredRow == [id : RecordIds, kind : TenantKinds, org : Tenants, of : RecordIds \cup {0}]

NoRow == [id |-> 0, kind |-> "none", org |-> "none", of |-> 0]
NoCreation == [at |-> "idle", row |-> NoRow]

\* left is the queries still to run; before and seen are history: what was
\* committed when the file was asked for and when its audit trail was read.
NoFile == [org |-> "none", company |-> 0, left |-> {}, contacts |-> {}, opportunities |-> {},
           events |-> {}, before |-> {}, seen |-> {}]

TenantInit ==
  /\ committed = {} /\ trail = {}
  /\ creation = [w \in Writers |-> NoCreation]
  /\ file = [r \in Readers |-> NoFile]

-----------------------------------------------------------------------------
(* Creations.                                                              *)

FreshIds ==
  RecordIds \ ({row.id : row \in committed} \cup {creation[w].row.id : w \in Writers})

\* What a foreign key demands: the parent is committed, whoever's it is.
ParentExists(kind, of) ==
  IF kind = "COMPANY" THEN of = 0
  ELSE \E row \in committed : row.id = of /\ row.kind = ParentKind[kind]

\* BEGIN and the INSERT of the row; a query outside execute would commit at once.
InsertRow_outsideTransaction(w, row) ==
  /\ creation[w].at = "idle"
  /\ ParentExists(row.kind, row.of)
  /\ creation' = [creation EXCEPT ![w] = [at |-> "audit", row |-> row]]
  /\ committed' = committed \cup {row}
  /\ UNCHANGED <<trail, file>>
InsertRow(w, row) ==
  /\ creation[w].at = "idle"
  /\ ParentExists(row.kind, row.of)
  /\ creation' = [creation EXCEPT ![w] = [at |-> "audit", row |-> row]]
  /\ UNCHANGED <<committed, trail, file>>

AppendEvent(w) ==
  /\ creation[w].at = "audit"
  /\ creation' = [creation EXCEPT ![w].at = "commit"]
  /\ UNCHANGED <<committed, trail, file>>

CommitCreation(w) ==
  LET row == creation[w].row IN
  /\ creation[w].at = "commit"
  /\ committed' = committed \cup {row}
  /\ trail' = trail \cup {[about |-> row.id, org |-> row.org]}
  /\ creation' = [creation EXCEPT ![w] = NoCreation]
  /\ UNCHANGED file

\* A violated constraint, a lost connection, the end of the process.
RollbackCreation(w) ==
  /\ creation[w].at # "idle"
  /\ creation' = [creation EXCEPT ![w] = NoCreation]
  /\ UNCHANGED <<committed, trail, file>>

-----------------------------------------------------------------------------
(* Reads.                                                                  *)

\* listByOrganization of each table.
ListedCompanies(org) == {row \in committed : row.kind = "COMPANY" /\ row.org = org}
ListedContacts(org) == {row \in committed : row.kind = "CONTACT" /\ row.org = org}
ListedOpportunities(org) == {row \in committed : row.kind = "OPPORTUNITY" /\ row.org = org}
ListedEvents(org) == {event \in trail : event.org = org}

\* findById of the tenant: without the company the answer is a 400.
OpenFile(r, org, company) ==
  /\ file[r] = NoFile
  /\ \E row \in ListedCompanies(org) : row.id = company
  /\ file' = [file EXCEPT ![r] =
       [NoFile EXCEPT !.org = org, !.company = company, !.before = committed,
                      !.left = {"contacts", "opportunities", "events"}]]
  /\ UNCHANGED <<committed, trail, creation>>

\* The three queries of Promise.all, with the filter by company.
ReadContacts(r) ==
  /\ "contacts" \in file[r].left
  /\ file' = [file EXCEPT ![r].left = @ \ {"contacts"},
       ![r].contacts = {row \in ListedContacts(file[r].org) : row.of = file[r].company}]
  /\ UNCHANGED <<committed, trail, creation>>
ReadOpportunities(r) ==
  /\ "opportunities" \in file[r].left
  /\ file' = [file EXCEPT ![r].left = @ \ {"opportunities"},
       ![r].opportunities = {row \in ListedOpportunities(file[r].org) : row.of = file[r].company}]
  /\ UNCHANGED <<committed, trail, creation>>
ReadEvents(r) ==
  /\ "events" \in file[r].left
  /\ file' = [file EXCEPT ![r].left = @ \ {"events"},
       ![r].events = ListedEvents(file[r].org), ![r].seen = committed]
  /\ UNCHANGED <<committed, trail, creation>>

\* The company and what of its contacts and opportunities was found.
ShownIn(f) == {f.company} \cup {row.id : row \in f.contacts \cup f.opportunities}
Timeline(f) == {event \in f.events : event.about \in ShownIn(f)}
Complete(f) == f # NoFile /\ f.left = {}

\* Answered, failed or left.
CloseFile(r) ==
  /\ file[r] # NoFile
  /\ file' = [file EXCEPT ![r] = NoFile]
  /\ UNCHANGED <<committed, trail, creation>>

\* Bound: new rows take the least identifier, so that they differ in nothing else.
NewTenantRow(kind, org, of) ==
  [id |-> CHOOSE n \in FreshIds : \A m \in FreshIds : n <= m, kind |-> kind, org |-> org, of |-> of]

TenantNext ==
  \/ \E w \in Writers :
       \/ /\ FreshIds # {}
          /\ \E kind \in TenantKinds, org \in Tenants, of \in RecordIds \cup {0} :
               InsertRow(w, NewTenantRow(kind, org, of))
       \/ AppendEvent(w) \/ CommitCreation(w) \/ RollbackCreation(w)
  \/ \E r \in Readers :
       \/ \E org \in Tenants, company \in RecordIds : OpenFile(r, org, company)
       \/ ReadContacts(r) \/ ReadOpportunities(r) \/ ReadEvents(r) \/ CloseFile(r)

-----------------------------------------------------------------------------
(* Properties.                                                             *)

TenantTypeOK ==
  /\ committed \subseteq StoredRow
  /\ trail \subseteq [about : RecordIds, org : Tenants]
  /\ creation \in [Writers -> [at : {"idle", "audit", "commit"}, row : StoredRow \cup {NoRow}]]
  /\ \A r \in Readers : file[r].left \subseteq {"contacts", "opportunities", "events"}

\* A Company 360 put together from queries that ran while others created rows
\* shows the asker's tenant only, although a foreign key lets a row hang from
\* another tenant's; it shows every contact and opportunity of the company that
\* was there when it was asked for; and only what was committed after its audit
\* trail was read can be in it without its creation in the timeline.
FilesAreOwnAndWhole ==
  \A r \in Readers : Complete(file[r]) =>
    LET f == file[r] IN
    /\ \A row \in f.contacts \cup f.opportunities : row.org = f.org
    /\ \A event \in Timeline(f) : event.org = f.org
    /\ \A row \in f.before :
         row.org = f.org /\ row.of = f.company => row.id \in ShownIn(f)
    /\ \A row \in f.seen : row.id \in ShownIn(f) => \E event \in Timeline(f) : event.about = row.id
=============================================================================

----------------------------- MODULE LeadConsole ----------------------------
(***************************************************************************)
(* The lead console of RHIA/frontend in one tab: the list of leads with    *)
(* its selection and its loops over it, the page of one lead, the page     *)
(* that creates one, and the session.  Its server is not in the            *)
(* repository: it stores rows, and takes a whole row in a PUT.             *)
(*                                                                         *)
(* A page that is left stays behind in the calls it sent and in the loops  *)
(* it runs: nothing cancels them, they only write to no screen any more.   *)
(* A call may be answered late, not at all, or be carried out although the *)
(* page was told that it failed.  A 401 reloads the page.                  *)
(***************************************************************************)
EXTENDS Naturals, FiniteSets

CONSTANTS
  Leads,        \* identifiers of leads
  LeadStatuses, \* of estado
  FirstStatus,  \* of a new lead
  Notes,        \* what the person writes, each once
  Slots         \* calls on their way: the bound on how many

\* A new lead has one of the states.
ASSUME LeadAssumption == FirstStatus \in LeadStatuses

VARIABLES
  stored,       \* the server's rows: [id, status, notes]
  given,        \* the identifiers it has given
  signedIn,     \* a token is stored
  page,         \* which page is mounted
  shown,        \* the list page's copies
  selected,     \* and its selection
  detail,       \* the lead page: the lead, its copy and what keeps it busy
  loop,         \* a loop over a selection: what is left and the copies it took
  calls,        \* by slot
  kept          \* history: the notes that were reported saved, see Promised

leadVars == <<stored, given, signedIn, page, shown, selected, detail, loop, calls, kept>>

LeadRow == [id : Leads, status : LeadStatuses, notes : SUBSET Notes]
Pages == {"login", "home", "list", "lead", "new"}

NoDetail == [lead |-> 0, copy |-> {}, busy |-> "no", jumped |-> FALSE]
NoLoop == [kind |-> "none", status |-> "none", left |-> {}, copies |-> {}, mounted |-> FALSE]
NoCall == [kind |-> "none", lead |-> 0, data |-> {}, from |-> "none", token |-> FALSE, at |-> "none"]

\* data is the row a PUT or POST carries, what a GET brought back, none or one,
\* or the leads a list asks for and brings back.
Call ==
  [kind : {"list", "get", "put", "delete", "post"}, lead : Leads \cup {0}, data : SUBSET LeadRow,
   from : {"list", "status", "note", "get", "loop", "new", "nobody"}, token : BOOLEAN,
   at : {"sent", "done", "failed", "denied"}]

LeadInit ==
  /\ given \in SUBSET Leads
  /\ stored = {[id |-> l, status |-> FirstStatus, notes |-> {}] : l \in given}
  /\ signedIn = FALSE /\ page = "login"
  /\ shown = {} /\ selected = {} /\ detail = NoDetail /\ loop = NoLoop
  /\ calls = [s \in Slots |-> NoCall]
  /\ kept = {}

-----------------------------------------------------------------------------
(* Helpers.                                                                *)

Ids(rows) == {row.id : row \in rows}
RowsFor(rows, ids) == {row \in rows : row.id \in ids}
Without(rows, id) == {row \in rows : row.id # id}

\* prev.map(l => l.id === id ? row : l)
Replaced(rows, row) == IF row.id \in Ids(rows) THEN Without(rows, row.id) \cup {row} ELSE rows

\* The interceptor adds the token that is stored when the call is sent.
Outgoing(kind, lead, data, from) ==
  [kind |-> kind, lead |-> lead, data |-> data, from |-> from, token |-> signedIn, at |-> "sent"]
Send(s, call) == calls[s] = NoCall /\ calls' = [calls EXCEPT ![s] = call]
Free(s) == calls' = [calls EXCEPT ![s] = NoCall]

\* The calls of the pages, which nobody awaits once their page is left.
Orphaned == [s \in Slots |->
  IF calls[s].from \in {"list", "status", "note", "get", "new"}
  THEN [calls[s] EXCEPT !.from = "nobody"] ELSE calls[s]]

\* A page is mounted in the place of another, a loop goes on without its own.
Mount(target, newDetail) ==
  /\ page' = target
  /\ shown' = {} /\ selected' = {}
  /\ detail' = newDetail
  /\ loop' = [loop EXCEPT !.mounted = FALSE]

\* The tab loads anew: what ran in it is gone, what it sent may still be served.
Abandoned == [s \in Slots |->
  IF calls[s].at = "sent" THEN [calls[s] EXCEPT !.from = "nobody"] ELSE NoCall]
Reset(target) ==
  /\ page' = target
  /\ shown' = {} /\ selected' = {} /\ detail' = NoDetail /\ loop' = NoLoop

-----------------------------------------------------------------------------
(* What the screens offer.                                                 *)

\* The bar above every page shows its links, and the way out, to a user.
Navigable == signedIn

\* The list page: its filters; a row of the table for each lead; and the bar of the
\* selection, which is there while something is selected.  What a loader hides
\* while the first leads are awaited is not told apart from what it shows then.
ListTools == page = "list"
InTable(l) == page = "list" /\ l \in Ids(shown)
BulkBar == page = "list" /\ selected # {}

\* The lead page replaces all it offers while it has no copy, and disables the
\* states and the note while it writes.
Offered(row) == page = "lead" /\ row \in detail.copy /\ detail.busy = "no"

\* Everything on the form is disabled until its call is answered.
FormOpen == page = "new" /\ \A t \in Slots : calls[t].from # "new"

-----------------------------------------------------------------------------
(* Session and navigation.                                                 *)

Login ==
  /\ page = "login"
  /\ signedIn' = TRUE
  /\ page' = "home"
  /\ UNCHANGED <<stored, given, shown, selected, detail, loop, calls, kept>>

\* logout clears token and user; ProtectedRoute turns to the login page.
Logout ==
  /\ Navigable
  /\ signedIn' = FALSE
  /\ Mount("login", NoDetail)
  /\ calls' = Orphaned
  /\ UNCHANGED <<stored, given, kept>>

\* App finds the token again, by way of the login page.
Reload ==
  /\ page # "login"
  /\ Reset(IF signedIn THEN "home" ELSE "login")
  /\ calls' = Abandoned
  /\ UNCHANGED <<stored, given, signedIn, kept>>

\* The home page stands for those that show no leads: the dashboard, the rules and
\* the reports.
OpenHome ==
  /\ Navigable /\ page # "home"
  /\ Mount("home", NoDetail)
  /\ calls' = Orphaned
  /\ UNCHANGED <<stored, given, signedIn, kept>>

\* The list page asks for its leads when it is mounted, and anew whenever its
\* filters or its page number change; it knows of no order of the answers.
OpenList(s) ==
  /\ Navigable /\ page # "list"
  /\ calls[s] = NoCall
  /\ Mount("list", NoDetail)
  /\ calls' = [Orphaned EXCEPT ![s] = Outgoing("list", 0, {}, "list")]
  /\ UNCHANGED <<stored, given, signedIn, kept>>
FilterList(s) ==
  /\ ListTools
  /\ Send(s, Outgoing("list", 0, {}, "list"))
  /\ UNCHANGED <<stored, given, signedIn, page, shown, selected, detail, loop, kept>>

OpenNew ==
  /\ page = "list"
  /\ Mount("new", NoDetail)
  /\ calls' = Orphaned
  /\ UNCHANGED <<stored, given, signedIn, kept>>

OpenLead(s, l) ==
  /\ InTable(l)
  /\ calls[s] = NoCall
  /\ Mount("lead", [NoDetail EXCEPT !.lead = l])
  /\ calls' = [Orphaned EXCEPT ![s] = Outgoing("get", l, {}, "get")]
  /\ UNCHANGED <<stored, given, signedIn, kept>>

\* The browser's history leads from one lead straight to another: the page stays
\* mounted, with the copy, the calls and the state of the one before.
JumpToLead(s, l) ==
  /\ page = "lead" /\ l # detail.lead
  /\ detail' = [detail EXCEPT !.lead = l, !.jumped = TRUE]
  /\ Send(s, Outgoing("get", l, {}, "get"))
  /\ UNCHANGED <<stored, given, signedIn, page, shown, selected, loop, kept>>

-----------------------------------------------------------------------------
(* What the person does.                                                   *)

SelectLead(l) ==
  /\ InTable(l)
  /\ selected' = IF l \in selected THEN selected \ {l} ELSE selected \cup {l}
  /\ UNCHANGED <<stored, given, signedIn, page, shown, detail, loop, calls, kept>>

\* All are taken for selected when the numbers agree.
SelectAll ==
  /\ page = "list"
  /\ selected' = IF Cardinality(selected) = Cardinality(shown) THEN {} ELSE Ids(shown)
  /\ UNCHANGED <<stored, given, signedIn, page, shown, detail, loop, calls, kept>>

\* "Cancelar": a loop that is on its way goes on with what it took.
ClearSelection ==
  /\ BulkBar
  /\ selected' = {}
  /\ UNCHANGED <<stored, given, signedIn, page, shown, detail, loop, calls, kept>>

DeleteLead(s, l) ==
  /\ InTable(l)
  /\ Send(s, Outgoing("delete", l, {}, "list"))
  /\ UNCHANGED <<stored, given, signedIn, page, shown, selected, detail, loop, kept>>

\* handleBulkStatusChange and handleBulkDelete: the list as it is now.
\* Bound: one loop at a time; nothing in the page keeps a second from starting.
StartLoop(kind, status) ==
  /\ BulkBar /\ loop = NoLoop
  /\ loop' = [kind |-> kind, status |-> status, left |-> selected, copies |-> shown, mounted |-> TRUE]
  /\ UNCHANGED <<stored, given, signedIn, page, shown, selected, detail, calls, kept>>

LoopIdle == loop # NoLoop /\ \A s \in Slots : calls[s].from # "loop"

\* A lead that was not in the list is passed over by a change of status.
LoopSkip(l) ==
  /\ LoopIdle /\ l \in loop.left
  /\ loop.kind = "put" /\ l \notin Ids(loop.copies)
  /\ loop' = [loop EXCEPT !.left = @ \ {l}]
  /\ UNCHANGED <<stored, given, signedIn, page, shown, selected, detail, calls, kept>>

LoopSend(s, l) ==
  /\ LoopIdle /\ l \in loop.left
  /\ \/ /\ loop.kind = "delete"
        /\ Send(s, Outgoing("delete", l, {}, "loop"))
     \/ /\ loop.kind = "put"
        /\ \E row \in RowsFor(loop.copies, {l}) :
             Send(s, Outgoing("put", l, {[row EXCEPT !.status = loop.status]}, "loop"))
  /\ loop' = [loop EXCEPT !.left = @ \ {l}]
  /\ UNCHANGED <<stored, given, signedIn, page, shown, selected, detail, kept>>

LoopEnd ==
  /\ LoopIdle /\ loop.left = {}
  /\ loop' = NoLoop
  /\ selected' = IF loop.mounted THEN {} ELSE selected
  /\ UNCHANGED <<stored, given, signedIn, page, shown, detail, calls, kept>>

\* The writes about a lead that the page in front does not wait for.
Unattended(l) ==
  \/ l \in loop.left
  \/ \E s \in Slots : calls[s].lead = l /\ calls[s].kind = "put" /\ calls[s].from \in {"loop", "nobody"}

\* A note is promised when its page was opened for its lead and nothing unattended
\* writes to it; a page that jumped takes back what it may write over.
Promised == ~detail.jumped /\ ~Unattended(detail.lead)
KeptOnWrite == IF detail.jumped THEN {k \in kept : k[1] # detail.lead} ELSE kept

\* The whole copy is sent, so the page has one of its writes under way at a time.
WriteLead(s, row, busy, from) ==
  /\ Send(s, Outgoing("put", detail.lead, {row}, from))
  /\ detail' = [detail EXCEPT !.busy = busy]
  /\ kept' = KeptOnWrite
  /\ UNCHANGED <<stored, given, signedIn, page, shown, selected, loop>>
ChangeStatus_whileBusy(s, status) ==
  /\ page = "lead"
  /\ \E row \in detail.copy :
       row.status # status /\ WriteLead(s, [row EXCEPT !.status = status], "status", "status")
ChangeStatus(s, status) ==
  \E row \in detail.copy :
    /\ Offered(row) /\ row.status # status
    /\ WriteLead(s, [row EXCEPT !.status = status], "status", "status")
AddNote(s, n) ==
  \E row \in detail.copy :
    /\ Offered(row) /\ n \notin row.notes
    /\ WriteLead(s, [row EXCEPT !.notes = @ \cup {n}], "note", IF Promised THEN "note" ELSE "status")

\* The form stays disabled until the answer, and is sent again after an error.
CreateLead(s) ==
  /\ FormOpen
  /\ Send(s, Outgoing("post", 0, {}, "new"))
  /\ UNCHANGED <<stored, given, signedIn, page, shown, selected, detail, loop, kept>>

-----------------------------------------------------------------------------
(* The server.                                                             *)

NewLead(l) == [id |-> l, status |-> FirstStatus, notes |-> {}]

\* A call without a token is refused, one with a token when that has expired.
Deny(s) ==
  /\ calls[s].at = "sent"
  /\ calls' = [calls EXCEPT ![s].at = "denied"]
  /\ UNCHANGED <<stored, given, signedIn, page, shown, selected, detail, loop, kept>>

Answer(s, at, data) == calls' = [calls EXCEPT ![s].at = at, ![s].data = data]

ServeRead(s) ==
  /\ \/ calls[s].kind = "list" /\ \E ids \in SUBSET Leads : Answer(s, "done", RowsFor(stored, ids))
     \/ calls[s].kind = "get" /\ Answer(s, "done", RowsFor(stored, {calls[s].lead}))
  /\ UNCHANGED <<stored, given>>

ServeWrite(s) ==
  LET l == calls[s].lead IN
  \/ /\ calls[s].kind = "put" /\ l \in Ids(stored)
     /\ \E row \in calls[s].data :
          /\ stored' = Replaced(stored, [row EXCEPT !.id = l])
          /\ Answer(s, "done", {[row EXCEPT !.id = l]})
     /\ UNCHANGED given
  \/ /\ calls[s].kind = "delete" /\ l \in Ids(stored)
     /\ stored' = Without(stored, l)
     /\ Answer(s, "done", {})
     /\ UNCHANGED given
  \/ /\ calls[s].kind = "post"
     /\ \E new \in Leads \ given :
          /\ stored' = stored \cup {NewLead(new)}
          /\ given' = given \cup {new}
          /\ Answer(s, "done", {NewLead(new)})
  \/ /\ \/ calls[s].kind \in {"put", "delete"} /\ l \notin Ids(stored)
        \/ calls[s].kind = "post"
     /\ Answer(s, "failed", {})
     /\ UNCHANGED <<stored, given>>

Serve(s) ==
  /\ calls[s].at = "sent" /\ calls[s].token
  /\ ServeRead(s) \/ ServeWrite(s)
  /\ UNCHANGED <<signedIn, page, shown, selected, detail, loop, kept>>

-----------------------------------------------------------------------------
(* Answers.                                                                *)

\* The notes that an answer to a promised note shows as saved.
Saved(call) == {<<call.lead, n>> : n \in UNION {row.notes : row \in call.data}}

Answered(s, from) == calls[s].at \in {"done", "failed"} /\ calls[s].from = from

ListAnswered(s) ==
  /\ Answered(s, "list")
  /\ shown' = IF calls[s].kind = "list" THEN calls[s].data
              ELSE IF calls[s].at = "done" THEN Without(shown, calls[s].lead) ELSE shown
  /\ Free(s)
  /\ UNCHANGED <<stored, given, signedIn, page, selected, detail, loop, kept>>

GetAnswered(s) ==
  /\ Answered(s, "get")
  /\ detail' = IF calls[s].data # {} THEN [detail EXCEPT !.copy = calls[s].data] ELSE detail
  /\ Free(s)
  /\ UNCHANGED <<stored, given, signedIn, page, shown, selected, loop, kept>>

\* The page is no longer busy, whatever became of its write.
WriteAnswered(s) ==
  /\ Answered(s, "status") \/ Answered(s, "note")
  /\ detail' = [detail EXCEPT !.busy = "no",
                              !.copy = IF calls[s].at = "done" THEN calls[s].data ELSE @]
  /\ kept' = IF calls[s].from = "note" THEN kept \cup Saved(calls[s]) ELSE kept
  /\ Free(s)
  /\ UNCHANGED <<stored, given, signedIn, page, shown, selected, loop>>

LoopAnswered(s) ==
  /\ Answered(s, "loop")
  /\ shown' =
       IF ~loop.mounted \/ calls[s].at = "failed" \/ calls[s].lead \notin Ids(shown) THEN shown
       ELSE Without(shown, calls[s].lead) \cup (IF calls[s].kind = "put" THEN calls[s].data ELSE {})
  /\ Free(s)
  /\ UNCHANGED <<stored, given, signedIn, page, selected, detail, loop, kept>>

\* From the form back to the list, or to an error that leaves it as it is.
NewRefused(s) ==
  /\ Answered(s, "new") /\ calls[s].at = "failed"
  /\ Free(s)
  /\ UNCHANGED <<stored, given, signedIn, page, shown, selected, detail, loop, kept>>
NewAnswered(s) ==
  /\ Answered(s, "new") /\ calls[s].at = "done"
  /\ Mount("list", NoDetail)
  /\ calls' = [Orphaned EXCEPT ![s] = Outgoing("list", 0, {}, "list")]
  /\ UNCHANGED <<stored, given, signedIn, kept>>

NobodyAnswered(s) ==
  /\ Answered(s, "nobody")
  /\ Free(s)
  /\ UNCHANGED <<stored, given, signedIn, page, shown, selected, detail, loop, kept>>

\* The interceptor's: whoever sent the call, token and page are gone.
Denied(s) ==
  /\ calls[s].at = "denied"
  /\ signedIn' = FALSE
  /\ Reset("login")
  /\ calls' = [Abandoned EXCEPT ![s] = NoCall]
  /\ UNCHANGED <<stored, given, kept>>

\* The timeout of axios or a lost connection: the page hears of a failure, the
\* server may still carry the call out.
LoseCall(s) ==
  /\ calls[s].at \in {"sent", "done", "failed"} /\ calls[s].from # "nobody"
  /\ calls' = [calls EXCEPT ![s] = IF @.at = "sent" THEN [@ EXCEPT !.from = "nobody"] ELSE NoCall]
  /\ detail' = IF calls[s].from \in {"status", "note"} THEN [detail EXCEPT !.busy = "no"] ELSE detail
  /\ UNCHANGED <<stored, given, signedIn, page, shown, selected, loop, kept>>

LeadNext ==
  \/ Login \/ Logout \/ Reload \/ OpenHome \/ OpenNew \/ SelectAll \/ ClearSelection \/ LoopEnd
  \/ \E l \in Leads : SelectLead(l) \/ LoopSkip(l)
  \/ StartLoop("delete", "none") \/ \E status \in LeadStatuses : StartLoop("put", status)
  \/ \E s \in Slots :
       \/ OpenList(s) \/ FilterList(s) \/ CreateLead(s)
       \/ \E l \in Leads : OpenLead(s, l) \/ JumpToLead(s, l) \/ DeleteLead(s, l) \/ LoopSend(s, l)
       \/ \E status \in LeadStatuses : ChangeStatus(s, status)
       \/ \E n \in Notes : AddNote(s, n)
       \/ Serve(s) \/ Deny(s) \/ LoseCall(s) \/ Denied(s)
       \/ ListAnswered(s) \/ GetAnswered(s) \/ WriteAnswered(s) \/ LoopAnswered(s)
       \/ NewAnswered(s) \/ NewRefused(s) \/ NobodyAnswered(s)

-----------------------------------------------------------------------------
(* Properties.                                                             *)

LeadTypeOK ==
  /\ stored \subseteq LeadRow /\ shown \subseteq LeadRow
  /\ Ids(stored) \subseteq given /\ given \subseteq Leads
  /\ page \in Pages /\ selected \subseteq Leads
  /\ detail.copy \subseteq LeadRow /\ detail.busy \in {"no", "status", "note"}
  /\ calls \in [Slots -> Call \cup {NoCall}]
  /\ kept \subseteq Leads \X Notes

\* "Ambas acciones envian el lead completo (PUT): si corrieran a la vez, la
\* segunda sobrescribiria el cambio de la primera con datos viejos": what the
\* page of a lead, opened for it, has reported saved in its notes is only lost
\* with the lead itself, or to a write that was unattended before the note was
\* sent: a loop over the list that went on after the list was left, a call of a
\* page that was left, or one that was given up for lost and arrives late.
SavedNotesStay ==
  \A k \in kept, row \in stored : row.id = k[1] => k[2] \in row.notes
=============================================================================

------------------------- MODULE OperationsConsole --------------------------
(***************************************************************************)
(* The operations center of apps/web, over the HTTP transport of core-api: *)
(* a person sees the jobs and approvals of a page, presses one of its      *)
(* buttons, and is redirected to the page again with a notice of how it    *)
(* went.  The page's three reads, the authentication of a command and the  *)
(* command are separate steps: roles and sessions (AccessControl), the     *)
(* runtime and other people's commands move in between, and any answer may *)
(* be lost.                                                                *)
(*                                                                         *)
(* One tab, one job and one approval of the many; core's handling of a     *)
(* command is one step, as the lock of its row makes it (CoreCommands has  *)
(* its steps).                                                             *)
(***************************************************************************)
EXTENDS AccessControl

CONSTANTS FirstRetries   \* retries the job has had

ASSUME ConsoleAssumption == FirstRetries \in 0..3

VARIABLES
  person,        \* whose tab it is
  section,       \* the page it is on: /jobs or /approvals
  job,           \* status and retries
  approval,      \* status, who requested it, when it expires, who decided it
  at,            \* what the tab waits for
  page,          \* the page it shows or puts together
  notice,        \* the result in its address
  form,          \* the last form sent, and what its page showed
  heard          \* history: whether core did it, and whether a refusal can be explained

tabVars == <<at, page, notice, form, heard>>
consoleVars == <<person, section, job, approval, tabVars>>

JobCommands == {"retry", "cancel"}
Verdicts == {"APPROVED", "REJECTED"}

\* Any failure of the load leaves a page without data or controls.  read are the
\* lists read so far, row the job or approval of its section.
Disconnected == [connected |-> FALSE, roles |-> {}, read |-> {}, row |-> <<>>]
NoForm == [command |-> "none"]
Unheard == [done |-> FALSE, explained |-> FALSE, retries |-> 0]

\* The people there are, some of them signed in before.
PeopleInit ==
  /\ today = 0
  /\ roles \in [Humans -> Assigned] /\ suspended = {}
  /\ sessionUntil \in [Humans -> 0..MaxAccessClock + 1]
  /\ capabilities \in [Services -> Granted]
  /\ deciders = {h \in Humans : CanDecide(roles[h])}
  /\ principal = [a \in Actors |-> NoPrincipal]
  /\ proofs = {} /\ performed = Nothing
  /\ registry = [t \in Tools |-> NoManifest] /\ toolHealth = [t \in Tools |-> "NONE"]

ConsoleInit ==
  /\ person \in Humans /\ section \in {"jobs", "approvals"}
  /\ \E s \in {"PENDING", "FAILED"} : job = [status |-> s, retries |-> FirstRetries]
  /\ \E by \in Actors, until \in {NoExpiry, 1} :
       approval = [status |-> "PENDING", requester |-> by, expiresAt |-> until, approver |-> "none"]
  /\ at = "READY" /\ page = Disconnected /\ notice = "none"
  /\ form = NoForm /\ heard = Unheard

-----------------------------------------------------------------------------
(* What the page offers.                                                   *)

May(keys, permission) == \E role \in keys : permission \in rolePermissions[role]

jobControls_whileRunning(keys, status) ==
  {command \in JobCommands :
     /\ May(keys, "jobs.execute")
     /\ \/ command = "retry" /\ status \in {"FAILED", "PARTIAL"}
        \/ command = "cancel" /\ status \in {"PENDING", "QUEUED", "RETRY_SCHEDULED", "RUNNING"}}
jobControls(keys, status) ==
  {command \in JobCommands :
     /\ May(keys, "jobs.execute")
     /\ \/ command = "retry" /\ status \in {"FAILED", "PARTIAL"}
        \/ command = "cancel" /\ status \in {"PENDING", "QUEUED", "RETRY_SCHEDULED"}}

\* The inbox shows the pending approvals.
approvalControls(keys, status) ==
  {verdict \in Verdicts : May(keys, "approvals.decide") /\ status = "PENDING"}

\* The tab sends one form of its page, and is done with that page.
Submit(command) ==
  /\ at = "READY" /\ page.connected
  /\ command \in IF section = "jobs" THEN jobControls(page.roles, page.row.status)
                 ELSE approvalControls(page.roles, page.row.status)
  /\ form' = [command |-> command, roles |-> page.roles, seen |-> page.row]
  /\ at' = "SENT" /\ page' = Disconnected /\ notice' = "none" /\ heard' = Unheard
  /\ UNCHANGED <<accessVars, person, section, job, approval>>

-----------------------------------------------------------------------------
(* The command.                                                            *)

\* A lost answer has no status: 0.
resultFor_conflictAsDone(status) ==
  CASE status \in {200, 409} -> "operation-complete"
    [] status = 401 -> "session-required"
    [] status = 403 -> "not-authorized"
    [] status = 404 -> "not-found"
    [] OTHER -> "operation-failed"
resultFor(status) ==
  CASE status = 200 -> "operation-complete"
    [] status = 401 -> "session-required"
    [] status = 403 -> "not-authorized"
    [] status = 404 -> "not-found"
    [] status = 409 -> "state-conflict"
    [] OTHER -> "operation-failed"

\* The server action ends in a redirect, and the page is loaded again.
Answer(status) ==
  /\ at' = "LOADING" /\ notice' = resultFor(status)
  /\ form' = [command |-> form.command]

\* createCoreHttpServer resolves the principal first; whatever goes wrong there,
\* a database that does not answer included, is a 401.
Authenticate ==
  /\ at = "SENT" /\ Begin(person)
  /\ at' = "KNOWN"
  /\ UNCHANGED <<person, section, job, approval, page, notice, form, heard>>
RefuseAuthentication ==
  /\ at = "SENT" /\ Answer(401)
  /\ UNCHANGED <<accessVars, person, section, job, approval, page, heard>>

\* What JobService and ApprovalService answer to a command as the row is.
JobRefusal(p, command) ==
  IF ~Permitted(p, "START_JOB") THEN 403
  ELSE IF \/ command = "retry" /\ (job.status \notin {"FAILED", "PARTIAL"} \/ job.retries >= 3)
          \/ command = "cancel" /\ job.status \notin {"PENDING", "QUEUED", "RETRY_SCHEDULED"}
       THEN 409 ELSE 200
DecisionRefusal(p) ==
  IF ~Permitted(p, "DECIDE_APPROVAL") \/ approval.requester = p.id THEN 403
  ELSE IF approval.status # "PENDING" \/ approval.expiresAt \in 0..today THEN 409 ELSE 200
StatusOf(p, command) == IF command \in JobCommands THEN JobRefusal(p, command) ELSE DecisionRefusal(p)

Carry(p, command) ==
  \/ command = "retry" /\ job' = [status |-> "RETRY_SCHEDULED", retries |-> job.retries + 1]
     /\ UNCHANGED approval
  \/ command = "cancel" /\ job' = [job EXCEPT !.status = "CANCELLED"] /\ UNCHANGED approval
  \/ command \in Verdicts /\ approval' = [approval EXCEPT !.status = command, !.approver = p.id]
     /\ UNCHANGED job

\* What moved since the page was read, or what it does not show: who requested, what
\* has expired, that three retries are spent.
Explained(p) ==
  LET row == IF section = "jobs" THEN job ELSE approval IN
  \/ row # form.seen \/ p.roles # form.roles
  \/ section = "approvals" /\ (approval.requester = p.id \/ approval.expiresAt \in 0..today)
  \/ form.command = "retry" /\ job.retries >= 3

\* It may break off before it commits (500), after it (500 as well), or its answer
\* may be lost: none of the three tells whether it was done.
Command ==
  LET p == principal[person]  status == StatusOf(p, form.command) IN
  /\ at = "KNOWN"
  /\ \/ /\ status = 200 /\ Carry(p, form.command)
        /\ \E told \in {200, 500, 0} : Answer(told)
        /\ heard' = [done |-> TRUE, explained |-> FALSE, retries |-> job.retries]
     \/ /\ \E told \in {500, 0} \cup ({status} \ {200}) : Answer(told)
        /\ heard' = [Unheard EXCEPT !.explained = Explained(p)]
        /\ UNCHANGED <<job, approval>>
  /\ Done(person) /\ performed' = Nothing
  /\ UNCHANGED <<today, accountVars, proofs, toolVars, person, section, page>>

-----------------------------------------------------------------------------
(* The page: its session, then both lists, in any order.                   *)

\* A visit of the address, with the result that is still in it or without.
Visit(result) ==
  /\ at = "READY"
  /\ at' = "LOADING" /\ page' = Disconnected /\ notice' = result
  /\ form' = IF result = "none" THEN NoForm ELSE form
  /\ heard' = IF result = "none" THEN Unheard ELSE heard
  /\ UNCHANGED <<accessVars, person, section, job, approval>>

Loads ==
  at = "LOADING" /\ UNCHANGED <<accessVars, person, section, job, approval, notice, form, heard>>

LoadSession ==
  /\ page.roles = {} /\ Resolvable(person)
  /\ page' = [page EXCEPT !.roles = roles[person]]
  /\ Loads /\ UNCHANGED at
LoadList(list, action, row) ==
  /\ page.roles # {} /\ list \notin page.read
  /\ Resolvable(person) /\ Permitted(Human(person, roles[person]), action)
  /\ page' = [page EXCEPT !.read = @ \cup {list}, !.row = IF section = list THEN row ELSE @]
  /\ Loads /\ UNCHANGED at
LoadJobs == LoadList("jobs", "READ_OPERATIONS", job)
LoadApprovals == LoadList("approvals", "READ_APPROVALS", approval)

\* Neither list is shown without the other: who may not read approvals sees no jobs
\* either, and is told of the session.
Render ==
  /\ page.read = {"jobs", "approvals"}
  /\ page' = [page EXCEPT !.connected = TRUE]
  /\ at' = "READY" /\ Loads
FailToLoad == page' = Disconnected /\ at' = "READY" /\ Loads

-----------------------------------------------------------------------------
(* What moves meanwhile.                                                   *)

\* The runtime and other executors (CoreCommands).
ExecutorMoves ==
  /\ \/ job.status \in {"PENDING", "QUEUED", "RETRY_SCHEDULED"} /\ job' = [job EXCEPT !.status = "RUNNING"]
     \/ /\ job.status = "RUNNING"
        /\ \E ending \in {"SUCCEEDED", "PARTIAL", "FAILED", "DEAD_LETTER"} : job' = [job EXCEPT !.status = ending]
     \/ /\ job.status = "RUNNING" /\ job.retries < 3
        /\ \E next \in {"RUNNING", "RETRY_SCHEDULED"} :
             job' = [status |-> next, retries |-> job.retries + 1]
  /\ UNCHANGED <<accessVars, person, section, approval, tabVars>>

\* The same commands from other tabs, of this person too, and other clients.
OthersCommand(h, command) ==
  /\ Resolvable(h) /\ StatusOf(Human(h, roles[h]), command) = 200
  /\ Carry(Human(h, roles[h]), command)
  /\ UNCHANGED <<accessVars, person, section, tabVars>>

\* A session that ends or a suspension shows as a lost one: RefuseAuthentication and
\* FailToLoad are always possible.
AccountMoves ==
  /\ AccessClockTicks \/ \E h \in Humans, keys \in Assigned : AssignRoles(h, keys)
  /\ UNCHANGED consoleVars

ConsoleNext ==
  \/ \E command \in JobCommands \cup Verdicts :
       Submit(command) \/ \E h \in Humans : OthersCommand(h, command)
  \/ Authenticate \/ RefuseAuthentication \/ Command
  \/ \E result \in {"none", notice} : Visit(result)
  \/ LoadSession \/ LoadJobs \/ LoadApprovals \/ Render \/ FailToLoad
  \/ ExecutorMoves \/ AccountMoves
ConsoleSpec == PeopleInit /\ ConsoleInit /\ [][ConsoleNext]_<<accessVars, consoleVars>>

-----------------------------------------------------------------------------

ConsoleTypeOK ==
  /\ person \in Humans /\ section \in {"jobs", "approvals"}
  /\ job \in [status : {"PENDING", "QUEUED", "RUNNING", "RETRY_SCHEDULED", "SUCCEEDED",
                        "PARTIAL", "FAILED", "DEAD_LETTER", "CANCELLED"}, retries : 0..3]
  /\ approval \in [status : {"PENDING"} \cup Verdicts, requester : Actors,
                   expiresAt : {NoExpiry, 1}, approver : Humans \cup {"none"}]
  /\ at \in {"READY", "SENT", "KNOWN", "LOADING"}
  /\ notice \in {"none", "operation-complete", "session-required", "not-authorized",
                 "state-conflict", "operation-failed"}
  /\ page.connected => page.roles # {} /\ page.read = {"jobs", "approvals"}

\* What people are told happened is what happened.  A completed command took effect,
\* a decision stands as the person took it, and a page that could be loaded with the
\* notice shows it; a refused command changed nothing, and a control the page offered
\* is refused only because something moved since or because of what the page does
\* not show.
Shows ==
  CASE form.command = "cancel" -> page.row.status = "CANCELLED"
    [] form.command = "retry" -> page.row.retries > heard.retries
    [] form.command \in Verdicts -> page.row.status = form.command

NoticesTellTheTruth ==
  /\ notice = "operation-complete" =>
       /\ heard.done
       /\ form.command \in Verdicts => approval.status = form.command /\ approval.approver = person
       /\ page.connected => Shows
  /\ notice \in {"session-required", "not-authorized", "state-conflict"} => ~heard.done
  /\ notice \in {"not-authorized", "state-conflict"} => heard.explained
=============================================================================

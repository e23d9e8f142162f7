------------------------- MODULE CoreCommands_proofs -------------------------
(***************************************************************************)
(* Proofs about CoreCommands, for any number of slots, keys, jobs,         *)
(* approvals and users.                                                    *)
(*                                                                         *)
(* The steps fall into three groups.  Those that move a handler and write  *)
(* no row (receive, lookup, locate, collide, abort) leave the books alone; *)
(* those of executors write a job nobody has locked, so they disturb no    *)
(* check a handler made; Commit writes the row its handler locked, and its *)
(* five forms are treated one by one.                                      *)
(***************************************************************************)
EXTENDS CoreCommands, FiniteSetTheorems, TLAPS

-----------------------------------------------------------------------------
(* Commands and ledger records.                                            *)

\* What the five kinds of command have in common, and how they differ.
LEMMA CommandFields ==
  ASSUME NEW c \in Command
  PROVE  /\ c.op \in AllOperations /\ c.key \in Keys
         /\ c.row \in Rows \cup {None}
         /\ c.choice \in Payloads \cup Decisions \cup {None}
         /\ c.op = "JOB_CREATE" => c.row = None
         /\ c.op \in {"JOB_RETRY", "JOB_CANCEL", "APPROVAL_CREATE"} => c.row \in Jobs
         /\ c.op = "APPROVAL_CREATE" => c.by \in Users
         /\ c.op = "APPROVAL_DECIDE" =>
              c.row \in Approvals /\ c.by \in Humans /\ c.choice \in Decisions
BY DEF Command, AllOperations, Rows

\* A record that Commit stores is one, and is not the absence of a record.
LEMMA NewEntryTyped ==
  ASSUME NEW c \in Command, NEW row \in Rows
  PROVE  NewEntry(c, row) \in Entry /\ NewEntry(c, row) # NoEntry /\ row # None
<1>1. Fingerprint(c) \in (Rows \cup {None}) \X (Payloads \cup Decisions \cup {None})
  BY CommandFields DEF Fingerprint
<1>2. row # None
  BY CoreAssumption DEF CoreAssumption
<1>3. NewEntry(c, row).row = row /\ NoEntry.row = None
  BY DEF NewEntry, NoEntry
<1> QED
  BY <1>1, <1>2, <1>3 DEF NewEntry, Entry

-----------------------------------------------------------------------------
(* Steps that move one handler and write no row.                           *)

\* The answer of one slot is on record; AnswersAreRecorded says so of all.
Answered(r) == answer[r] # None => Recorded(cmd[r]) = NewEntry(cmd[r], answer[r])

LEMMA BooksUntouched ==
  ASSUME Books, UNCHANGED <<jobVars, approvalVars, ledger, writes>>
  PROVE  Books'
<1>1. UNCHANGED <<status, retries, jobKey, executions, approval, ledger, writes>>
  BY DEF jobVars, approvalVars
<1>2. \A op \in {"JOB_CREATE", "JOB_RETRY", "APPROVAL_DECIDE"}, row \in Rows :
        KeysOf(op, row)' = KeysOf(op, row)
  BY <1>1 DEF KeysOf
<1>3. \A j \in Jobs, e \in Executor : AttemptsOf(j, e)' = AttemptsOf(j, e)
  BY <1>1 DEF AttemptsOf
<1>4. \A j \in Jobs : OpenOf(j)' = OpenOf(j)
  BY <1>1, <1>3 DEF OpenOf, Executor
<1>5. OneEffectPerKey' /\ JobsAreCreatedOnce' /\ RetriesAreAccounted'
  BY <1>1, <1>2 DEF Books, OneEffectPerKey, JobsAreCreatedOnce, RetriesAreAccounted, Rows
<1>6. \A j \in Jobs : IsFiniteSet(KeysOf("JOB_RETRY", j))'
  BY <1>2 DEF Books, Rows
<1>7. DecisionsAreRecordedOnce'
  BY <1>1, <1>2 DEF Books, DecisionsAreRecordedOnce, Rows
<1>8. ExecutionsMatchTheJob'
  BY <1>1, <1>3, <1>4 DEF Books, ExecutionsMatchTheJob, Executor
<1> QED
  BY <1>5, <1>6, <1>7, <1>8 DEF Books

\* A slot that a step leaves alone keeps its shape: no row changed and its
\* locks are still its own.
LEMMA OtherSlot ==
  ASSUME IInv, NEW q \in Slots,
         UNCHANGED <<jobVars, approvalVars, ledger>>,
         \A x \in Rows : lockedBy[x] = q => lockedBy'[x] = q,
         pc'[q] = pc[q], cmd'[q] = cmd[q], copy'[q] = copy[q], answer'[q] = answer[q]
  PROVE  HandlerShape(q)' /\ Answered(q)'
<1>1. HandlerShape(q) /\ Answered(q)
  BY DEF IInv, AnswersAreRecorded, Answered
<1>2. UNCHANGED <<status, retries, jobKey, approval, ledger>>
  BY DEF jobVars, approvalVars
<1>3. Answered(q)'
  BY <1>1, <1>2 DEF Answered, Recorded, NewEntry, Fingerprint
<1>4. ASSUME pc[q] = "write", cmd[q].op # "JOB_CREATE"
      PROVE  lockedBy'[cmd[q].row] = q
  BY <1>1, <1>4, CommandFields DEF HandlerShape, Rows, AllOperations
<1>5. StillAdmissible(q) => StillAdmissible(q)'
  BY <1>2 DEF StillAdmissible, Retryable, Cancellable, Approvable
<1> QED
  BY <1>1, <1>3, <1>4, <1>5 DEF HandlerShape

LEMMA HandlerMoves ==
  ASSUME IInv, NEW r \in Slots,
         UNCHANGED <<jobVars, approvalVars, ledger, writes>>,
         \A q \in Slots \ {r} :
           /\ \A x \in Rows : lockedBy[x] = q => lockedBy'[x] = q
           /\ pc'[q] = pc[q] /\ cmd'[q] = cmd[q] /\ copy'[q] = copy[q] /\ answer'[q] = answer[q],
         TypeOK', HandlerShape(r)', Answered(r)'
  PROVE  IInv'
<1>1. Books'
  BY BooksUntouched DEF IInv
<1>2. \A q \in Slots : HandlerShape(q)' /\ Answered(q)'
  BY OtherSlot
<1> QED
  BY <1>1, <1>2 DEF IInv, AnswersAreRecorded, Answered

\* Unlocked gives up the locks of r and no other.
LEMMA UnlockedOthers ==
  ASSUME TypeOK, NEW r \in Slots, lockedBy' = Unlocked(r)
  PROVE  /\ lockedBy' \in [Rows -> Slots \cup {None}]
         /\ \A q \in Slots \ {r}, x \in Rows : lockedBy[x] = q => lockedBy'[x] = q
BY DEF TypeOK, Unlocked

\* The typing of what a step of a handler writes besides rows.
LEMMA HandlerTyped ==
  ASSUME TypeOK, UNCHANGED <<jobVars, approvalVars, ledger, writes>>,
         lockedBy' \in [Rows -> Slots \cup {None}],
         pc' \in [Slots -> {"idle", "lookup", "locate", "write"}],
         cmd' \in [Slots -> Command \cup {NoCommand}],
         copy' \in [Slots -> 0..MaxRetries],
         answer' \in [Slots -> Rows \cup {None}]
  PROVE  TypeOK'
BY DEF TypeOK, jobVars, approvalVars

LEMMA ReceivePreserves ==
  ASSUME IInv, NEW r \in Slots, NEW c \in Command, Receive(r, c)
  PROVE  IInv'
<1>1. TypeOK
  BY DEF IInv
<1>2. /\ pc' = [pc EXCEPT ![r] = "lookup"] /\ cmd' = [cmd EXCEPT ![r] = c]
      /\ answer' = [answer EXCEPT ![r] = None] /\ UNCHANGED <<copy, lockedBy>>
      /\ UNCHANGED <<jobVars, approvalVars, ledger, writes>>
  BY DEF Receive
<1>3. TypeOK'
  BY <1>1, <1>2, HandlerTyped DEF TypeOK
<1>4. pc'[r] = "lookup" /\ cmd'[r] = c /\ answer'[r] = None
  BY <1>1, <1>2 DEF TypeOK
<1>5. HandlerShape(r)' /\ Answered(r)'
  BY <1>4 DEF HandlerShape, Answered
<1>6. \A q \in Slots \ {r} : pc'[q] = pc[q] /\ cmd'[q] = cmd[q] /\ answer'[q] = answer[q]
  BY <1>1, <1>2 DEF TypeOK
<1> QED
  BY <1>2, <1>3, <1>5, <1>6, HandlerMoves

\* A request that is refused, or whose transaction is rolled back, leaves an
\* idle slot without an answer, since a handler under way has none.
LEMMA RefusePreserves ==
  ASSUME IInv, NEW r \in Slots, pc[r] # "idle", Refuse(r),
         lockedBy' \in {lockedBy, Unlocked(r)},
         UNCHANGED <<jobVars, approvalVars, ledger, writes>>
  PROVE  IInv'
<1>1. TypeOK /\ answer[r] = None
  BY DEF IInv, HandlerShape
<1>2. /\ pc' = [pc EXCEPT ![r] = "idle"] /\ cmd' = [cmd EXCEPT ![r] = NoCommand]
      /\ copy' = [copy EXCEPT ![r] = 0] /\ UNCHANGED answer
  BY DEF Refuse
<1>3. /\ lockedBy' \in [Rows -> Slots \cup {None}]
      /\ \A q \in Slots \ {r}, x \in Rows : lockedBy[x] = q => lockedBy'[x] = q
  BY <1>1, UnlockedOthers DEF TypeOK
<1>4. TypeOK'
  BY <1>1, <1>2, <1>3, HandlerTyped, CoreAssumption DEF TypeOK, CoreAssumption
<1>5. pc'[r] = "idle" /\ answer'[r] = None
  BY <1>1, <1>2 DEF TypeOK
<1>6. HandlerShape(r)' /\ Answered(r)'
  BY <1>5 DEF HandlerShape, Answered
<1>7. \A q \in Slots \ {r} :
        pc'[q] = pc[q] /\ cmd'[q] = cmd[q] /\ copy'[q] = copy[q] /\ answer'[q] = answer[q]
  BY <1>1, <1>2 DEF TypeOK
<1> QED
  BY <1>3, <1>4, <1>6, <1>7, HandlerMoves

LEMMA LookupPreserves ==
  ASSUME IInv, NEW r \in Slots, Lookup(r)
  PROVE  IInv'
<1> DEFINE c == cmd[r]
<1>1. TypeOK /\ pc[r] = "lookup" /\ c \in Command /\ answer[r] = None
  BY DEF IInv, HandlerShape, Lookup
<1>2. UNCHANGED <<jobVars, approvalVars, lockedBy, ledger, writes>>
  BY DEF Lookup
<1>3. CASE Recorded(c) = NoEntry /\ Goto(r, AfterLookup(c)) /\ UNCHANGED copy
  <2>1. /\ pc' = [pc EXCEPT ![r] = AfterLookup(c)] /\ UNCHANGED <<cmd, answer, copy>>
    BY <1>3 DEF Goto
  <2>2. AfterLookup(c) \in {"locate", "write"}
    BY DEF AfterLookup
  <2>3. TypeOK'
    BY <1>1, <1>2, <2>1, <2>2, HandlerTyped DEF TypeOK
  <2>4. pc'[r] = AfterLookup(c)
    BY <1>1, <2>1 DEF TypeOK
  <2>5. HandlerShape(r)' /\ Answered(r)'
    BY <1>1, <2>1, <2>4 DEF HandlerShape, Answered, AfterLookup
  <2>6. \A q \in Slots \ {r} : pc'[q] = pc[q]
    BY <1>1, <2>1 DEF TypeOK
  <2> QED
    BY <1>2, <2>1, <2>3, <2>5, <2>6, HandlerMoves
<1>4. CASE SameCommand(c) /\ Respond(r, Recorded(c).row)
  <2>1. /\ pc' = [pc EXCEPT ![r] = "idle"] /\ UNCHANGED cmd /\ copy' = [copy EXCEPT ![r] = 0]
        /\ answer' = [answer EXCEPT ![r] = Recorded(c).row]
    BY <1>4 DEF Respond
  <2>2. Recorded(c) \in Entry
    BY <1>1, <1>4, CommandFields DEF SameCommand, Recorded, TypeOK
  <2>3. TypeOK'
    BY <1>1, <1>2, <2>1, <2>2, HandlerTyped, CoreAssumption DEF TypeOK, Entry, CoreAssumption
  <2>4. pc'[r] = "idle" /\ cmd'[r] = c /\ answer'[r] = Recorded(c).row
    BY <1>1, <2>1 DEF TypeOK
  <2>5. Recorded(c) = NewEntry(c, Recorded(c).row)
    BY <1>4, <2>2 DEF SameCommand, NewEntry, Entry
  <2>6. HandlerShape(r)'
    BY <1>1, <2>4 DEF HandlerShape
  <2>7. Recorded(c)' = Recorded(c)
    BY <1>2, <2>4 DEF Recorded
  <2>8. Answered(r)'
    BY <1>2, <2>4, <2>5 DEF Answered, Recorded, NewEntry, Fingerprint
  <2>9. \A q \in Slots \ {r} :
          pc'[q] = pc[q] /\ copy'[q] = copy[q] /\ answer'[q] = answer[q]
    BY <1>1, <2>1 DEF TypeOK
  <2> QED
    BY <1>2, <2>1, <2>3, <2>6, <2>8, <2>9, HandlerMoves
<1>5. CASE Refuse(r)
  BY <1>1, <1>2, <1>5, RefusePreserves
<1> QED
  BY <1>3, <1>4, <1>5 DEF Lookup

LEMMA LocatePreserves ==
  ASSUME IInv, NEW r \in Slots, Locate(r)
  PROVE  IInv'
<1> DEFINE c == cmd[r]
<1>1. /\ TypeOK /\ pc[r] = "locate" /\ c \in Command /\ answer[r] = None
      /\ c.op # "JOB_CREATE" /\ lockedBy[c.row] = None
  BY DEF IInv, HandlerShape, Locate, Free
<1>2. UNCHANGED <<jobVars, approvalVars, ledger, writes>>
  BY DEF Locate
<1>3. c.row \in Rows
  BY <1>1, CommandFields DEF Rows, AllOperations
<1>4. CASE /\ Admissible(c) /\ lockedBy' = [lockedBy EXCEPT ![c.row] = r]
           /\ copy' = [copy EXCEPT ![r] = ReadRetries(c)] /\ Goto(r, "write")
  <2>1. pc' = [pc EXCEPT ![r] = "write"] /\ UNCHANGED <<cmd, answer>>
    BY <1>4 DEF Goto
  <2>2. ReadRetries(c) \in 0..MaxRetries
    BY <1>1, CoreAssumption DEF ReadRetries, TypeOK, CoreAssumption
  <2>3. TypeOK'
    <3>1. lockedBy' \in [Rows -> Slots \cup {None}]
      BY <1>1, <1>4 DEF TypeOK
    <3>2. copy' \in [Slots -> 0..MaxRetries]
      BY <1>1, <1>4, <2>2 DEF TypeOK
    <3> QED
      BY <1>1, <1>2, <2>1, <3>1, <3>2, HandlerTyped DEF TypeOK
  <2>4. pc'[r] = "write" /\ lockedBy'[c.row] = r /\ copy'[r] = ReadRetries(c)
    BY <1>1, <1>3, <1>4, <2>1 DEF TypeOK
  <2>5. StillAdmissible(r)'
    <3>1. UNCHANGED <<status, retries, approval>> /\ cmd'[r] = c
      BY <1>2, <2>1 DEF jobVars, approvalVars
    <3>2. CASE c.op = "JOB_RETRY"
      <4>1. Retryable(c) /\ ReadRetries(c) = retries[c.row]
        BY <1>1, <1>4, <3>2, CommandFields DEF Admissible, ReadRetries
      <4> QED
        BY <2>4, <3>1, <3>2, <4>1 DEF StillAdmissible, Retryable
    <3>3. CASE c.op = "JOB_CANCEL"
      <4>1. Cancellable(c) /\ ReadRetries(c) = retries[c.row]
        BY <1>1, <1>4, <3>3, CommandFields DEF Admissible, ReadRetries
      <4> QED
        BY <2>4, <3>1, <3>3, <4>1 DEF StillAdmissible, Cancellable
    <3>4. CASE c.op = "APPROVAL_CREATE"
      BY <1>4, <3>1, <3>4 DEF StillAdmissible, Admissible, Approvable
    <3>5. CASE c.op = "APPROVAL_DECIDE"
      BY <1>4, <3>1, <3>5 DEF StillAdmissible, Admissible, Decidable
    <3> QED
      BY <1>1, <3>2, <3>3, <3>4, <3>5, CommandFields DEF AllOperations
  <2>6. HandlerShape(r)' /\ Answered(r)'
    BY <1>1, <2>1, <2>4, <2>5 DEF HandlerShape, Answered
  <2>7. \A q \in Slots \ {r} :
          /\ \A x \in Rows : lockedBy[x] = q => lockedBy'[x] = q
          /\ pc'[q] = pc[q] /\ copy'[q] = copy[q]
    <3>1. \A q \in Slots : q # None
      BY CoreAssumption DEF CoreAssumption
    <3> QED
      BY <1>1, <1>3, <1>4, <2>1, <3>1 DEF TypeOK
  <2> QED
    BY <1>2, <2>1, <2>3, <2>6, <2>7, HandlerMoves
<1>5. CASE Refuse(r) /\ UNCHANGED lockedBy
  BY <1>1, <1>2, <1>5, RefusePreserves
<1> QED
  BY <1>4, <1>5 DEF Locate

LEMMA CollidePreserves ==
  ASSUME IInv, NEW r \in Slots, Collide(r)
  PROVE  IInv'
<1>1. pc[r] # "idle" /\ Refuse(r) /\ lockedBy' = Unlocked(r)
  BY DEF Collide
<1> QED
  BY <1>1, RefusePreserves DEF Collide

LEMMA AbortPreserves ==
  ASSUME IInv, NEW r \in Slots, Abort(r)
  PROVE  IInv'
<1>1. pc[r] # "idle" /\ Refuse(r) /\ lockedBy' = Unlocked(r)
  BY DEF Abort
<1> QED
  BY <1>1, RefusePreserves DEF Abort

-----------------------------------------------------------------------------
(* The rows of rhia.execution.                                             *)

\* AttemptsOf and OpenOf, of a sequence of rows.
By(rows, executor) == {n \in DOMAIN rows : rows[n].executor = executor}
OpenBy(rows) == {n \in By(rows, "WORKER_SERVICE") : rows[n].open}

LEMMA RowsAreFinite ==
  ASSUME NEW rows \in Seq(Execution), NEW e \in Executor
  PROVE  IsFiniteSet(By(rows, e)) /\ IsFiniteSet(OpenBy(rows))
<1>1. DOMAIN rows = 1..Len(rows) /\ Len(rows) \in Nat
  OBVIOUS
<1>2. IsFiniteSet(1..Len(rows))
  BY <1>1, FS_Interval
<1>3. By(rows, e) \subseteq 1..Len(rows) /\ OpenBy(rows) \subseteq 1..Len(rows)
  BY <1>1 DEF By, OpenBy
<1> QED
  BY <1>2, <1>3, FS_Subset

\* One more row, open, of the executor that started it.
LEMMA StartedRows ==
  ASSUME NEW rows \in Seq(Execution), NEW e \in Executor
  PROVE  /\ Started(rows, e) \in Seq(Execution)
         /\ \A f \in Executor :
              Cardinality(By(Started(rows, e), f)) =
                Cardinality(By(rows, f)) + (IF f = e THEN 1 ELSE 0)
         /\ Cardinality(OpenBy(Started(rows, e))) =
              Cardinality(OpenBy(rows)) + (IF e = "WORKER_SERVICE" THEN 1 ELSE 0)
<1> DEFINE row == [executor |-> e, open |-> TRUE]
           new == Len(rows) + 1
           more == Append(rows, row)
<1>1. row \in Execution
  BY DEF Execution
<1>2. /\ more \in Seq(Execution) /\ Len(rows) \in Nat
      /\ DOMAIN rows = 1..Len(rows) /\ DOMAIN more = 1..new
      /\ \A n \in 1..Len(rows) : more[n] = rows[n]
      /\ more[new] = row
  BY <1>1
<1>3. \A f \in Executor :
        By(more, f) = IF f = e THEN By(rows, f) \cup {new} ELSE By(rows, f)
  <2> HIDE DEF more
  <2>1. DOMAIN more = DOMAIN rows \cup {new}
    BY <1>2
  <2> QED
    BY <1>2, <2>1 DEF By
<1>4. OpenBy(more) =
        IF e = "WORKER_SERVICE" THEN OpenBy(rows) \cup {new} ELSE OpenBy(rows)
  <2>1. \A n \in By(rows, "WORKER_SERVICE") : more[n] = rows[n]
    BY <1>2 DEF By
  <2>2. more[new].open
    BY <1>2
  <2>3. "WORKER_SERVICE" \in Executor
    BY DEF Executor
  <2> HIDE DEF more
  <2> QED
    BY <1>3, <2>1, <2>2, <2>3 DEF OpenBy
<1>5. \A f \in Executor : new \notin By(rows, f) /\ new \notin OpenBy(rows)
  BY <1>2 DEF By, OpenBy
<1>6. \A f \in Executor : IsFiniteSet(By(rows, f)) /\ IsFiniteSet(OpenBy(rows))
  BY RowsAreFinite
<1>7. \A f \in Executor :
        /\ Cardinality(By(rows, f)) \in Nat
        /\ Cardinality(By(rows, f) \cup {new}) = Cardinality(By(rows, f)) + 1
  BY <1>5, <1>6, FS_AddElement, FS_CardinalityType
<1>8. /\ Cardinality(OpenBy(rows)) \in Nat
      /\ Cardinality(OpenBy(rows) \cup {new}) = Cardinality(OpenBy(rows)) + 1
  BY <1>5, <1>6, FS_AddElement, FS_CardinalityType
<1>9. Started(rows, e) = more
  BY DEF Started
<1> HIDE DEF more, new
<1>10. ASSUME NEW f \in Executor
       PROVE  Cardinality(By(more, f)) = Cardinality(By(rows, f)) + (IF f = e THEN 1 ELSE 0)
  <2>1. CASE f = e
    BY <1>3, <1>7, <2>1
  <2>2. CASE f # e
    <3>1. By(more, f) = By(rows, f) /\ Cardinality(By(rows, f)) \in Nat
      BY <1>3, <1>7, <2>2
    <3> QED
      BY <2>2, <3>1
  <2> QED
    BY <2>1, <2>2
<1>11. Cardinality(OpenBy(more)) =
         Cardinality(OpenBy(rows)) + (IF e = "WORKER_SERVICE" THEN 1 ELSE 0)
  BY <1>4, <1>8
<1> QED
  BY <1>2, <1>9, <1>10, <1>11

\* No row is added or taken away; those of the executors are closed.
LEMMA EndedRows ==
  ASSUME NEW rows \in Seq(Execution), NEW executors, "WORKER_SERVICE" \in executors
  PROVE  /\ Ended(rows, executors) \in Seq(Execution)
         /\ \A f \in Executor : By(Ended(rows, executors), f) = By(rows, f)
         /\ OpenBy(Ended(rows, executors)) = {}
<1> DEFINE after == Ended(rows, executors)
<1>1. DOMAIN rows = 1..Len(rows) /\ Len(rows) \in Nat /\ \A n \in 1..Len(rows) : rows[n] \in Execution
  OBVIOUS
<1>2. /\ DOMAIN after = 1..Len(rows)
      /\ \A n \in 1..Len(rows) :
           after[n] = [rows[n] EXCEPT !.open = @ /\ rows[n].executor \notin executors]
  BY <1>1 DEF Ended
<1>3. \A n \in 1..Len(rows) :
        /\ after[n] \in Execution
        /\ after[n].executor = rows[n].executor
        /\ rows[n].executor \in executors => ~after[n].open
  BY <1>1, <1>2 DEF Execution
<1>4. after \in Seq(Execution)
  <2>1. after = [n \in 1..Len(rows) |-> after[n]]
    BY <1>1, <1>2 DEF Ended
  <2> HIDE DEF after
  <2>2. after \in [1..Len(rows) -> Execution]
    BY <1>3, <2>1
  <2> QED
    BY <1>1, <2>2
<1> HIDE DEF after
<1>5. \A f \in Executor : By(after, f) = By(rows, f)
  BY <1>1, <1>2, <1>3 DEF By
<1>6. OpenBy(after) = {}
  BY <1>2, <1>3 DEF OpenBy, By
<1> QED
  BY <1>4, <1>5, <1>6 DEF after

-----------------------------------------------------------------------------
(* Steps of executors.                                                     *)

\* ExecutionsMatchTheJob, of one job that has status s, n retries and rows.
NotOnceMore == {"ABSENT", "PENDING", "QUEUED", "RETRY_SCHEDULED", "CANCELLED"}
Match(rows, s, n) ==
  /\ Cardinality(OpenBy(rows)) = (IF s = "RUNNING" THEN 1 ELSE 0)
  /\ Cardinality(By(rows, "WORKER_SERVICE")) = n + (IF s \in NotOnceMore THEN 0 ELSE 1)

LEMMA MatchOfAll ==
  ExecutionsMatchTheJob <=> \A j \in Jobs : Match(executions[j], status[j], retries[j])
BY DEF ExecutionsMatchTheJob, Match, NotOnceMore, AttemptsOf, OpenOf, By, OpenBy

LEMMA MatchOfAllNext ==
  ExecutionsMatchTheJob' <=> \A j \in Jobs : Match(executions'[j], status'[j], retries'[j])
BY DEF ExecutionsMatchTheJob, Match, NotOnceMore, AttemptsOf, OpenOf, By, OpenBy

\* A slot stays as it was when the row it holds did.
LEMMA SlotKept ==
  ASSUME IInv, NEW q \in Slots, UNCHANGED handlerVars,
         UNCHANGED ledger,
         \A x \in Rows : lockedBy[x] = q =>
           /\ lockedBy'[x] = q
           /\ x \in Jobs => status'[x] = status[x] /\ retries'[x] = retries[x]
           /\ x \in Approvals => approval'[x] = approval[x]
  PROVE  HandlerShape(q)' /\ Answered(q)'
<1>1. HandlerShape(q) /\ Answered(q)
  BY DEF IInv, AnswersAreRecorded, Answered
<1>2. UNCHANGED <<pc, cmd, copy, answer>>
  BY DEF handlerVars
<1>3. Answered(q)'
  BY <1>1, <1>2 DEF Answered, Recorded, NewEntry, Fingerprint
<1>4. ASSUME pc[q] = "write", cmd[q].op # "JOB_CREATE"
      PROVE  lockedBy'[cmd[q].row] = q /\ StillAdmissible(q)'
  <2>1. /\ cmd[q] \in Command /\ cmd[q].row \in Rows
        /\ lockedBy[cmd[q].row] = q /\ StillAdmissible(q)
    BY <1>1, <1>4, CommandFields DEF HandlerShape, Rows, AllOperations
  <2>2. CASE cmd[q].op = "APPROVAL_DECIDE"
    <3>1. approval'[cmd[q].row] = approval[cmd[q].row]
      BY <2>1, <2>2, CommandFields
    <3> QED
      BY <1>2, <2>1, <2>2, <3>1 DEF StillAdmissible
  <2>3. CASE cmd[q].op # "APPROVAL_DECIDE"
    <3>1. cmd[q].row \in Jobs
      BY <1>4, <2>1, <2>3, CommandFields DEF AllOperations
    <3>2. status'[cmd[q].row] = status[cmd[q].row] /\ retries'[cmd[q].row] = retries[cmd[q].row]
      BY <2>1, <3>1
    <3> QED
      BY <1>2, <2>1, <2>3, <3>2 DEF StillAdmissible, Retryable, Cancellable, Approvable
  <2> QED
    BY <2>1, <2>2, <2>3
<1> QED
  BY <1>1, <1>2, <1>3, <1>4 DEF HandlerShape

\* An executor may write any job that no transaction holds, if what it writes
\* matches and takes no retry back.
LEMMA ExecutorPreserves ==
  ASSUME IInv, NEW j \in Jobs, NEW s \in JobStatus \ {"ABSENT"},
         NEW n \in 0..MaxRetries, NEW rows \in Seq(Execution),
         status[j] # "ABSENT", retries[j] <= n, Match(rows, s, n),
         ExecutorWrites(j, s, n, rows)
  PROVE  IInv'
<1>1. TypeOK /\ Books
  BY DEF IInv
<1>2. /\ status' = [status EXCEPT ![j] = s] /\ retries' = [retries EXCEPT ![j] = n]
      /\ executions' = [executions EXCEPT ![j] = rows] /\ lockedBy[j] = None
      /\ UNCHANGED <<jobKey, approval, expired, lockedBy, ledger, writes>>
      /\ UNCHANGED handlerVars
  BY DEF ExecutorWrites, Free, approvalVars
<1>3. /\ status'[j] = s /\ retries'[j] = n /\ executions'[j] = rows
      /\ \A i \in Jobs \ {j} :
           status'[i] = status[i] /\ retries'[i] = retries[i] /\ executions'[i] = executions[i]
  BY <1>1, <1>2 DEF TypeOK
<1>4. TypeOK'
  <2>1. /\ status' \in [Jobs -> JobStatus] /\ retries' \in [Jobs -> 0..MaxRetries]
        /\ executions' \in [Jobs -> Seq(Execution)]
    BY <1>1, <1>2 DEF TypeOK
  <2> QED
    BY <1>1, <1>2, <2>1 DEF TypeOK, handlerVars
<1>5. \A op \in {"JOB_CREATE", "JOB_RETRY", "APPROVAL_DECIDE"}, row \in Rows :
        KeysOf(op, row)' = KeysOf(op, row)
  BY <1>2 DEF KeysOf
<1>6. Books'
  <2>1. OneEffectPerKey'
    BY <1>1, <1>2 DEF Books, OneEffectPerKey
  <2>2. JobsAreCreatedOnce'
    BY <1>1, <1>2, <1>3, <1>5 DEF Books, JobsAreCreatedOnce, Rows
  <2>3. \A i \in Jobs : IsFiniteSet(KeysOf("JOB_RETRY", i))'
    BY <1>1, <1>5 DEF Books, Rows
  <2>4. RetriesAreAccounted'
    <3>1. \A i \in Jobs :
            /\ Cardinality(KeysOf("JOB_RETRY", i)) \in Nat
            /\ Cardinality(KeysOf("JOB_RETRY", i)) <= retries[i]
            /\ retries[i] <= MaxRetries /\ retries[i] \in Nat
      BY <1>1, FS_CardinalityType, CoreAssumption
      DEF Books, RetriesAreAccounted, TypeOK, CoreAssumption
    <3>2. \A i \in Jobs : KeysOf("JOB_RETRY", i)' = KeysOf("JOB_RETRY", i)
      BY <1>5 DEF Rows
    <3>3. \A i \in Jobs : retries[i] <= retries'[i] /\ retries'[i] <= MaxRetries /\ retries'[i] \in Nat
      BY <1>3, <3>1, CoreAssumption DEF CoreAssumption
    <3>4. \A i \in Jobs : Cardinality(KeysOf("JOB_RETRY", i)) <= retries'[i]
      BY <3>1, <3>3
    <3> QED
      BY <3>2, <3>3, <3>4 DEF RetriesAreAccounted
  <2>5. DecisionsAreRecordedOnce'
    BY <1>1, <1>2, <1>5 DEF Books, DecisionsAreRecordedOnce, Rows
  <2>6. ExecutionsMatchTheJob'
    BY <1>1, <1>3, MatchOfAll, MatchOfAllNext DEF Books
  <2> QED
    BY <2>1, <2>2, <2>3, <2>4, <2>5, <2>6 DEF Books
<1>7. \A q \in Slots : HandlerShape(q)' /\ Answered(q)'
  <2> TAKE q \in Slots
  <2>1. \A x \in Rows : lockedBy[x] = q => x # j
    BY <1>2, CoreAssumption DEF CoreAssumption
  <2>2. \A x \in Rows : lockedBy[x] = q =>
           /\ lockedBy'[x] = q
           /\ x \in Jobs => status'[x] = status[x] /\ retries'[x] = retries[x]
           /\ x \in Approvals => approval'[x] = approval[x]
    BY <1>2, <1>3, <2>1
  <2> QED
    BY <1>2, <2>2, SlotKept
<1> QED
  BY <1>4, <1>6, <1>7 DEF IInv, AnswersAreRecorded, Answered

\* What an executor finds in a job.
LEMMA JobFacts ==
  ASSUME IInv, NEW j \in Jobs
  PROVE  /\ executions[j] \in Seq(Execution) /\ status[j] \in JobStatus
         /\ retries[j] \in 0..MaxRetries /\ retries[j] \in Nat /\ MaxRetries \in Nat
         /\ Match(executions[j], status[j], retries[j])
         /\ Cardinality(By(executions[j], "WORKER_SERVICE")) \in Nat
         /\ Cardinality(OpenBy(executions[j])) \in Nat
<1>1. /\ executions[j] \in Seq(Execution) /\ retries[j] \in 0..MaxRetries
      /\ status[j] \in JobStatus
  BY DEF IInv, TypeOK
<1>2. Match(executions[j], status[j], retries[j])
  BY MatchOfAll DEF IInv, Books
<1>3. MaxRetries \in Nat /\ retries[j] \in Nat
  BY <1>1, CoreAssumption DEF CoreAssumption
<1>4. /\ Cardinality(By(executions[j], "WORKER_SERVICE")) \in Nat
      /\ Cardinality(OpenBy(executions[j])) \in Nat
  BY <1>1, RowsAreFinite, FS_CardinalityType DEF Executor
<1> QED
  BY <1>1, <1>2, <1>3, <1>4

\* All open rows of the job are closed and the workers' attempts stay.
LEMMA EndedMatch ==
  ASSUME NEW rows \in Seq(Execution), NEW executors, "WORKER_SERVICE" \in executors
  PROVE  /\ Ended(rows, executors) \in Seq(Execution)
         /\ Cardinality(OpenBy(Ended(rows, executors))) = 0
         /\ Cardinality(By(Ended(rows, executors), "WORKER_SERVICE")) =
              Cardinality(By(rows, "WORKER_SERVICE"))
BY EndedRows, FS_EmptySet DEF Executor

LEMMA ClaimPreserves ==
  ASSUME IInv, NEW j \in Jobs, Claim(j)
  PROVE  IInv'
<1> DEFINE rows == executions[j]
           next == Started(rows, "WORKER_SERVICE")
<1>1. /\ status[j] \in {"PENDING", "QUEUED", "RETRY_SCHEDULED"}
      /\ ExecutorWrites(j, "RUNNING", retries[j], next)
  BY DEF Claim
<1>2. /\ next \in Seq(Execution)
      /\ Cardinality(By(next, "WORKER_SERVICE")) = Cardinality(By(rows, "WORKER_SERVICE")) + 1
      /\ Cardinality(OpenBy(next)) = Cardinality(OpenBy(rows)) + 1
  BY StartedRows, JobFacts DEF Executor
<1>3. Cardinality(By(rows, "WORKER_SERVICE")) = retries[j] /\ Cardinality(OpenBy(rows)) = 0
  BY <1>1, JobFacts DEF Match, NotOnceMore
<1> HIDE DEF next
<1>4. Match(next, "RUNNING", retries[j])
  BY <1>2, <1>3 DEF Match, NotOnceMore
<1>5. status[j] # "ABSENT" /\ "RUNNING" \in JobStatus \ {"ABSENT"} /\ retries[j] <= retries[j]
  BY <1>1, JobFacts DEF JobStatus
<1> QED
  BY <1>1, <1>2, <1>4, <1>5, JobFacts, ExecutorPreserves

LEMMA TakeOverPreserves ==
  ASSUME IInv, NEW j \in Jobs, TakeOver(j)
  PROVE  IInv'
<1> DEFINE rows == executions[j]
           ended == Ended(rows, Executor)
           next == Started(ended, "WORKER_SERVICE")
<1>1. /\ status[j] = "RUNNING" /\ retries[j] < MaxRetries
      /\ ExecutorWrites(j, "RUNNING", retries[j] + 1, next)
  BY DEF TakeOver
<1>2. /\ ended \in Seq(Execution) /\ Cardinality(OpenBy(ended)) = 0
      /\ Cardinality(By(ended, "WORKER_SERVICE")) = Cardinality(By(rows, "WORKER_SERVICE"))
  BY EndedMatch, JobFacts DEF Executor
<1>3. Cardinality(By(rows, "WORKER_SERVICE")) = retries[j] + 1
  BY <1>1, JobFacts DEF Match, NotOnceMore
<1> HIDE DEF ended
<1>4. /\ next \in Seq(Execution)
      /\ Cardinality(By(next, "WORKER_SERVICE")) = Cardinality(By(ended, "WORKER_SERVICE")) + 1
      /\ Cardinality(OpenBy(next)) = Cardinality(OpenBy(ended)) + 1
  BY <1>2, StartedRows DEF Executor
<1> HIDE DEF next
<1>5. Match(next, "RUNNING", retries[j] + 1)
  BY <1>2, <1>3, <1>4 DEF Match, NotOnceMore
<1>6. /\ status[j] # "ABSENT" /\ "RUNNING" \in JobStatus \ {"ABSENT"}
      /\ retries[j] <= retries[j] + 1 /\ retries[j] + 1 \in 0..MaxRetries
  BY <1>1, JobFacts DEF JobStatus
<1> QED
  BY <1>1, <1>4, <1>5, <1>6, ExecutorPreserves

\* The endings of a running job: a retry, or none.
LEMMA EndingPreserves ==
  ASSUME IInv, NEW j \in Jobs, status[j] = "RUNNING",
         NEW executors, "WORKER_SERVICE" \in executors,
         NEW s \in JobStatus, NEW n \in 0..MaxRetries,
         \/ s = "RETRY_SCHEDULED" /\ n = retries[j] + 1
         \/ s \in {"SUCCEEDED", "DEAD_LETTER", "PARTIAL", "FAILED"} /\ n = retries[j],
         ExecutorWrites(j, s, n, Ended(executions[j], executors))
  PROVE  IInv'
<1> DEFINE rows == executions[j]
           ended == Ended(rows, executors)
<1>1. /\ ended \in Seq(Execution) /\ Cardinality(OpenBy(ended)) = 0
      /\ Cardinality(By(ended, "WORKER_SERVICE")) = Cardinality(By(rows, "WORKER_SERVICE"))
  BY EndedMatch, JobFacts
<1>2. Cardinality(By(rows, "WORKER_SERVICE")) = retries[j] + 1
  BY JobFacts DEF Match, NotOnceMore
<1> HIDE DEF ended
<1>3. Match(ended, s, n) /\ retries[j] <= n /\ s # "ABSENT"
  BY <1>1, <1>2, JobFacts DEF Match, NotOnceMore
<1> QED
  BY <1>1, <1>3, ExecutorPreserves DEF ended

LEMMA ReattemptPreserves ==
  ASSUME IInv, NEW j \in Jobs, Reattempt(j)
  PROVE  IInv'
<1>1. /\ status[j] = "RUNNING" /\ retries[j] < MaxRetries
      /\ ExecutorWrites(j, "RETRY_SCHEDULED", retries[j] + 1,
                         Ended(executions[j], {"WORKER_SERVICE"}))
  BY DEF Reattempt
<1>2. retries[j] + 1 \in 0..MaxRetries
  BY <1>1, JobFacts
<1>3. "RETRY_SCHEDULED" \in JobStatus
  BY DEF JobStatus
<1> QED
  BY <1>1, <1>2, <1>3, EndingPreserves

LEMMA EndJobPreserves ==
  ASSUME IInv, NEW j \in Jobs, EndJob(j)
  PROVE  IInv'
<1>1. status[j] = "RUNNING" /\ retries[j] \in 0..MaxRetries
  BY JobFacts DEF EndJob
<1>2. "SUCCEEDED" \in JobStatus /\ "DEAD_LETTER" \in JobStatus
  BY DEF JobStatus
<1>3. CASE ExecutorWrites(j, "SUCCEEDED", retries[j], Ended(executions[j], {"WORKER_SERVICE"}))
  BY <1>1, <1>2, <1>3, EndingPreserves
<1>4. ASSUME NEW closed \in {{"WORKER_SERVICE"}, Executor},
             ExecutorWrites(j, "DEAD_LETTER", retries[j], Ended(executions[j], closed))
      PROVE  IInv'
  <2>1. "WORKER_SERVICE" \in closed
    BY DEF Executor
  <2> QED
    BY <1>1, <1>2, <1>4, <2>1, EndingPreserves
<1> QED
  BY <1>3, <1>4 DEF EndJob

LEMMA EndElsewherePreserves ==
  ASSUME IInv, NEW j \in Jobs, EndElsewhere(j)
  PROVE  IInv'
<1>1. status[j] = "RUNNING" /\ retries[j] \in 0..MaxRetries
  BY JobFacts DEF EndElsewhere
<1>2. PICK s \in {"PARTIAL", "FAILED"} :
        ExecutorWrites(j, s, retries[j], Ended(executions[j], {"WORKER_SERVICE"}))
  BY DEF EndElsewhere
<1>3. s \in JobStatus
  BY DEF JobStatus
<1> QED
  BY <1>1, <1>2, <1>3, EndingPreserves

\* The clock disturbs no check: Commit does not look at expired again.
LEMMA ExpirePreserves ==
  ASSUME IInv, NEW a \in Approvals, Expire(a)
  PROVE  IInv'
<1>1. /\ UNCHANGED <<status, retries, jobKey, executions, approval, lockedBy, ledger, writes>>
      /\ UNCHANGED handlerVars /\ expired' = expired \cup {a}
  BY DEF Expire, jobVars
<1>2. TypeOK'
  BY <1>1 DEF IInv, TypeOK, handlerVars
<1>3. \A op \in {"JOB_CREATE", "JOB_RETRY", "APPROVAL_DECIDE"}, row \in Rows :
        KeysOf(op, row)' = KeysOf(op, row)
  BY <1>1 DEF KeysOf
<1>4. OneEffectPerKey' /\ JobsAreCreatedOnce' /\ RetriesAreAccounted'
  BY <1>1, <1>3
  DEF IInv, Books, OneEffectPerKey, JobsAreCreatedOnce, RetriesAreAccounted, Rows
<1>5. \A j \in Jobs : IsFiniteSet(KeysOf("JOB_RETRY", j))'
  BY <1>3 DEF IInv, Books, Rows
<1>6. DecisionsAreRecordedOnce'
  BY <1>1, <1>3 DEF IInv, Books, DecisionsAreRecordedOnce, Rows
<1>7. ExecutionsMatchTheJob'
  BY <1>1, MatchOfAll, MatchOfAllNext DEF IInv, Books
<1>8. \A q \in Slots : HandlerShape(q)' /\ Answered(q)'
  BY <1>1, SlotKept
<1> QED
  BY <1>2, <1>4, <1>5, <1>6, <1>7, <1>8 DEF IInv, Books, AnswersAreRecorded, Answered

-----------------------------------------------------------------------------
(* Commit.                                                                 *)

\* What a handler that commits knows, and what becomes of the ledger: one
\* record more, under a key that had none.
LEMMA CommitLedger ==
  ASSUME IInv, NEW r \in Slots, NEW row \in Rows, Commit(r, row)
  PROVE  /\ TypeOK /\ pc[r] = "write" /\ cmd[r] \in Command /\ answer[r] = None
         /\ cmd[r].op \in AllOperations /\ cmd[r].key \in Keys
         /\ cmd[r].op # "JOB_CREATE" =>
              cmd[r].row \in Rows /\ lockedBy[cmd[r].row] = r /\ StillAdmissible(r)
         /\ ledger[cmd[r].op][cmd[r].key] = NoEntry
         /\ ledger' = [ledger EXCEPT ![cmd[r].op][cmd[r].key] = NewEntry(cmd[r], row)]
         /\ NewEntry(cmd[r], row) \in Entry /\ NewEntry(cmd[r], row) # NoEntry
         /\ ledger'[cmd[r].op][cmd[r].key] = NewEntry(cmd[r], row)
<1> DEFINE c == cmd[r]
<1>1. TypeOK /\ pc[r] = "write" /\ c \in Command /\ answer[r] = None
  BY DEF IInv, HandlerShape, Commit
<1>2. c.op \in AllOperations /\ c.key \in Keys
  BY <1>1, CommandFields
<1>3. c.op # "JOB_CREATE" => c.row \in Rows /\ lockedBy[c.row] = r /\ StillAdmissible(r)
  BY <1>1, CommandFields DEF IInv, HandlerShape, Rows, AllOperations
<1>4. ledger[c.op][c.key] = NoEntry /\ ledger' = [ledger EXCEPT ![c.op][c.key] = NewEntry(c, row)]
  BY DEF Commit, KeyTaken, Recorded
<1>5. NewEntry(c, row) \in Entry /\ NewEntry(c, row) # NoEntry
  BY <1>1, NewEntryTyped
<1>6. ledger \in [AllOperations -> [Keys -> Entry \cup {NoEntry}]]
  BY <1>1 DEF TypeOK
<1>7. ledger'[c.op][c.key] = NewEntry(c, row)
  <2> HIDE DEF c
  <2> QED
    BY <1>2, <1>4, <1>6
<1> QED
  BY <1>1, <1>2, <1>3, <1>4, <1>5, <1>7

\* Every other record of the ledger stays.
LEMMA CommitKeepsRecords ==
  ASSUME IInv, NEW r \in Slots, NEW row \in Rows, Commit(r, row),
         NEW o \in AllOperations, NEW k \in Keys,
         ledger[o][k] # NoEntry \/ o # cmd[r].op \/ k # cmd[r].key
  PROVE  ledger'[o][k] = ledger[o][k]
<1>1. TypeOK /\ cmd[r].op \in AllOperations /\ cmd[r].key \in Keys
  BY CommitLedger
<1>2. /\ ledger' = [ledger EXCEPT ![cmd[r].op][cmd[r].key] = NewEntry(cmd[r], row)]
      /\ ledger[cmd[r].op][cmd[r].key] = NoEntry
  BY CommitLedger
<1>3. ledger \in [AllOperations -> [Keys -> Entry \cup {NoEntry}]]
  BY <1>1 DEF TypeOK
<1> QED
  BY <1>1, <1>2, <1>3

\* The record of a commit is about the row it returns.
LEMMA CommitKeys ==
  ASSUME IInv, NEW r \in Slots, NEW row \in Rows, Commit(r, row),
         NEW o \in AllOperations, NEW x \in Rows
  PROVE  /\ o = cmd[r].op /\ x = row =>
              /\ KeysOf(o, x)' = KeysOf(o, x) \cup {cmd[r].key}
              /\ cmd[r].key \notin KeysOf(o, x)
         /\ o # cmd[r].op \/ x # row => KeysOf(o, x)' = KeysOf(o, x)
<1>1. x # None /\ NoEntry.row = None /\ NewEntry(cmd[r], row).row = row
  BY CoreAssumption DEF CoreAssumption, NoEntry, NewEntry
<1>2. \A k \in Keys : ledger'[o][k].row =
        IF o = cmd[r].op /\ k = cmd[r].key THEN row ELSE ledger[o][k].row
  <2>1. ledger'[cmd[r].op][cmd[r].key] = NewEntry(cmd[r], row)
    BY CommitLedger
  <2>2. ASSUME NEW k \in Keys, o # cmd[r].op \/ k # cmd[r].key
        PROVE  ledger'[o][k] = ledger[o][k]
    BY <2>2, CommitKeepsRecords
  <2> QED
    BY <1>1, <2>1, <2>2
<1>3. ledger[cmd[r].op][cmd[r].key].row = None /\ cmd[r].key \in Keys
  BY <1>1, CommitLedger
<1> QED
  BY <1>1, <1>2, <1>3 DEF KeysOf

\* The types of all that a commit writes besides the rows.
LEMMA CommitTyped ==
  ASSUME IInv, NEW r \in Slots, NEW row \in Rows, Commit(r, row)
  PROVE  /\ lockedBy' \in [Rows -> Slots \cup {None}]
         /\ ledger' \in [AllOperations -> [Keys -> Entry \cup {NoEntry}]]
         /\ writes' \in [AllOperations -> [Keys -> Nat]]
         /\ pc' \in [Slots -> {"idle", "lookup", "locate", "write"}]
         /\ cmd' \in [Slots -> Command \cup {NoCommand}]
         /\ copy' \in [Slots -> 0..MaxRetries]
         /\ answer' \in [Slots -> Rows \cup {None}]
<1>1. TypeOK /\ cmd[r].op \in AllOperations /\ cmd[r].key \in Keys
  BY CommitLedger
<1>2. lockedBy' \in [Rows -> Slots \cup {None}]
  BY <1>1, UnlockedOthers DEF Commit
<1>3. ledger' \in [AllOperations -> [Keys -> Entry \cup {NoEntry}]]
  <2>1. /\ ledger' = [ledger EXCEPT ![cmd[r].op][cmd[r].key] = NewEntry(cmd[r], row)]
        /\ NewEntry(cmd[r], row) \in Entry
    BY CommitLedger
  <2> QED
    BY <1>1, <2>1 DEF TypeOK
<1>4. writes' \in [AllOperations -> [Keys -> Nat]]
  <2>1. writes' = [writes EXCEPT ![cmd[r].op][cmd[r].key] = @ + 1]
    BY DEF Commit
  <2>2. writes[cmd[r].op][cmd[r].key] + 1 \in Nat
    BY <1>1 DEF TypeOK
  <2> QED
    BY <1>1, <2>1, <2>2 DEF TypeOK
<1>5. Respond(r, row) \/ Refuse(r)
  BY DEF Commit
<1>6. pc' = [pc EXCEPT ![r] = "idle"] /\ copy' = [copy EXCEPT ![r] = 0]
  BY <1>5 DEF Respond, Refuse
<1>7. cmd' = cmd \/ cmd' = [cmd EXCEPT ![r] = NoCommand]
  BY <1>5 DEF Respond, Refuse
<1>8. answer' = answer \/ answer' = [answer EXCEPT ![r] = row]
  BY <1>5 DEF Respond, Refuse
<1>9. 0 \in 0..MaxRetries
  BY CoreAssumption DEF CoreAssumption
<1>10. /\ pc' \in [Slots -> {"idle", "lookup", "locate", "write"}]
       /\ copy' \in [Slots -> 0..MaxRetries]
  BY <1>1, <1>6, <1>9 DEF TypeOK
<1>11. cmd' \in [Slots -> Command \cup {NoCommand}] /\ answer' \in [Slots -> Rows \cup {None}]
  BY <1>1, <1>7, <1>8 DEF TypeOK
<1> QED
  BY <1>2, <1>3, <1>4, <1>10, <1>11

\* A commit writes rows it locked and rows that were not there: no other
\* handler's check is about them.
LEMMA CommitSlots ==
  ASSUME IInv, NEW r \in Slots, NEW row \in Rows, Commit(r, row),
         \A x \in Jobs : status[x] # "ABSENT" /\ lockedBy[x] # r =>
           status'[x] = status[x] /\ retries'[x] = retries[x],
         \A a \in Approvals : approval[a].status # "ABSENT" /\ lockedBy[a] # r =>
           approval'[a] = approval[a]
  PROVE  \A q \in Slots : HandlerShape(q)' /\ Answered(q)'
<1>1. TypeOK
  BY DEF IInv
<1>2. HandlerShape(r)' /\ Answered(r)'
  <2>1. CASE Respond(r, row)
    <3>1. pc'[r] = "idle" /\ cmd'[r] = cmd[r] /\ answer'[r] = row
      BY <1>1, <2>1 DEF Respond, TypeOK
    <3>2. ledger'[cmd[r].op][cmd[r].key] = NewEntry(cmd[r], row) /\ cmd[r] \in Command
      BY CommitLedger
    <3> QED
      BY <3>1, <3>2 DEF HandlerShape, Answered, Recorded, NewEntry, Fingerprint
  <2>2. CASE Refuse(r)
    <3>1. pc'[r] = "idle" /\ answer'[r] = None
      BY <1>1, <2>2, CommitLedger DEF Refuse, TypeOK
    <3> QED
      BY <3>1 DEF HandlerShape, Answered
  <2> QED
    BY <2>1, <2>2 DEF Commit
<1>3. ASSUME NEW q \in Slots \ {r}
      PROVE  HandlerShape(q)' /\ Answered(q)'
  <2>1. pc'[q] = pc[q] /\ cmd'[q] = cmd[q] /\ copy'[q] = copy[q] /\ answer'[q] = answer[q]
    <3>1. Respond(r, row) \/ Refuse(r)
      BY DEF Commit
    <3> QED
      BY <1>1, <3>1 DEF Respond, Refuse, TypeOK
  <2>2. HandlerShape(q) /\ Answered(q)
    BY DEF IInv, AnswersAreRecorded, Answered
  <2>3. Answered(q)'
    <3>1. SUFFICES ASSUME answer[q] # None
                   PROVE  Recorded(cmd[q])' = Recorded(cmd[q])
      BY <2>1, <2>2, <3>1 DEF Answered, Recorded, NewEntry, Fingerprint
    <3>2. cmd[q] \in Command /\ answer[q] \in Rows
      BY <1>1, <2>2, <3>1 DEF HandlerShape, TypeOK
    <3>3. Recorded(cmd[q]) # NoEntry
      BY <2>2, <3>1, <3>2, NewEntryTyped DEF Answered
    <3>4. cmd[q].op \in AllOperations /\ cmd[q].key \in Keys
      BY <3>2, CommandFields
    <3>5. ledger'[cmd[q].op][cmd[q].key] = ledger[cmd[q].op][cmd[q].key]
      BY <3>3, <3>4, CommitKeepsRecords DEF Recorded
    <3> QED
      BY <2>1, <3>5 DEF Recorded
  <2>4. ASSUME pc[q] = "write", cmd[q].op # "JOB_CREATE"
        PROVE  lockedBy'[cmd[q].row] = q /\ StillAdmissible(q)'
    <3>1. /\ cmd[q] \in Command /\ cmd[q].row \in Rows
          /\ lockedBy[cmd[q].row] = q /\ StillAdmissible(q)
      BY <2>2, <2>4, CommandFields DEF HandlerShape, Rows, AllOperations
    <3>2. lockedBy'[cmd[q].row] = q
      BY <1>1, <3>1, UnlockedOthers DEF Commit
    <3>3. CASE cmd[q].op = "APPROVAL_DECIDE"
      <4>1. cmd[q].row \in Approvals /\ approval[cmd[q].row].status = "PENDING"
        BY <3>1, <3>3, CommandFields DEF StillAdmissible
      <4>2. approval'[cmd[q].row] = approval[cmd[q].row]
        BY <3>1, <4>1
      <4> QED
        BY <2>1, <3>1, <3>2, <3>3, <4>2 DEF StillAdmissible
    <3>4. CASE cmd[q].op # "APPROVAL_DECIDE"
      <4>1. cmd[q].row \in Jobs /\ status[cmd[q].row] # "ABSENT"
        BY <2>4, <3>1, <3>4, CommandFields
        DEF AllOperations, StillAdmissible, Retryable, Cancellable, Approvable
      <4>2. /\ status'[cmd[q].row] = status[cmd[q].row]
            /\ retries'[cmd[q].row] = retries[cmd[q].row]
        BY <3>1, <4>1
      <4> QED
        BY <2>1, <3>1, <3>2, <3>4, <4>2 DEF StillAdmissible, Retryable, Cancellable, Approvable
    <3> QED
      BY <3>3, <3>4
  <2> QED
    BY <2>1, <2>2, <2>3, <2>4 DEF HandlerShape
<1> QED
  BY <1>2, <1>3

\* What a commit does to the parts of Books that follow from the ledger alone.
LEMMA CommitBooks ==
  ASSUME IInv, NEW r \in Slots, NEW row \in Rows, Commit(r, row)
  PROVE  /\ OneEffectPerKey'
         /\ \A j \in Jobs : IsFiniteSet(KeysOf("JOB_RETRY", j))'
<1>1. TypeOK /\ OneEffectPerKey /\ \A j \in Jobs : IsFiniteSet(KeysOf("JOB_RETRY", j))
  BY DEF IInv, Books
<1>2. cmd[r].op \in AllOperations /\ cmd[r].key \in Keys
  BY CommitLedger
<1>3. ASSUME NEW o \in AllOperations, NEW k \in Keys
      PROVE  writes'[o][k] = IF ledger'[o][k] = NoEntry THEN 0 ELSE 1
  <2>1. writes' = [writes EXCEPT ![cmd[r].op][cmd[r].key] = @ + 1]
    BY DEF Commit
  <2>2. writes \in [AllOperations -> [Keys -> Nat]]
    BY <1>1 DEF TypeOK
  <2>3. writes[o][k] = IF ledger[o][k] = NoEntry THEN 0 ELSE 1
    BY <1>1 DEF OneEffectPerKey
  <2>4. CASE o = cmd[r].op /\ k = cmd[r].key
    <3>1. writes'[o][k] = writes[o][k] + 1
      BY <1>2, <2>1, <2>2, <2>4
    <3>2. ledger[o][k] = NoEntry /\ ledger'[o][k] # NoEntry
      BY <2>4, CommitLedger
    <3> QED
      BY <2>3, <3>1, <3>2
  <2>5. CASE o # cmd[r].op \/ k # cmd[r].key
    <3>1. writes'[o][k] = writes[o][k]
      BY <1>2, <2>1, <2>2, <2>5
    <3>2. ledger'[o][k] = ledger[o][k]
      BY <2>5, CommitKeepsRecords
    <3> QED
      BY <2>3, <3>1, <3>2
  <2> QED
    BY <2>4, <2>5
<1>4. ASSUME NEW j \in Jobs
      PROVE  IsFiniteSet(KeysOf("JOB_RETRY", j))'
  <2>1. j \in Rows /\ "JOB_RETRY" \in AllOperations
    BY DEF Rows, AllOperations
  <2>2. \/ KeysOf("JOB_RETRY", j)' = KeysOf("JOB_RETRY", j)
        \/ KeysOf("JOB_RETRY", j)' = KeysOf("JOB_RETRY", j) \cup {cmd[r].key}
    BY <2>1, CommitKeys
  <2> QED
    BY <1>1, <2>2, FS_AddElement
<1> QED
  BY <1>3, <1>4 DEF OneEffectPerKey

\* Decisions on the approvals that a commit leaves alone stay on record.
LEMMA CommitDecisions ==
  ASSUME IInv, NEW r \in Slots, NEW row \in Rows, Commit(r, row),
         NEW a \in Approvals, approval'[a] = approval[a],
         cmd[r].op # "APPROVAL_DECIDE" \/ a # row
  PROVE  IF approval'[a].status \in Decisions
         THEN /\ \E k \in Keys :
                   /\ KeysOf("APPROVAL_DECIDE", a)' = {k}
                   /\ ledger'["APPROVAL_DECIDE"][k].fingerprint[2] = approval'[a].status
              /\ approval'[a].approver \in Humans \ {approval'[a].by}
         ELSE KeysOf("APPROVAL_DECIDE", a)' = {}
<1>1. "APPROVAL_DECIDE" \in AllOperations /\ a \in Rows /\ a # None
  BY CoreAssumption DEF AllOperations, Rows, CoreAssumption
<1>2. KeysOf("APPROVAL_DECIDE", a)' = KeysOf("APPROVAL_DECIDE", a)
  BY <1>1, CommitKeys
<1>3. DecisionsAreRecordedOnce
  BY DEF IInv, Books
<1>4. CASE approval[a].status \in Decisions
  <2>1. PICK k \in Keys :
          /\ KeysOf("APPROVAL_DECIDE", a) = {k}
          /\ ledger["APPROVAL_DECIDE"][k].fingerprint[2] = approval[a].status
    BY <1>3, <1>4 DEF DecisionsAreRecordedOnce
  <2>2. ledger["APPROVAL_DECIDE"][k].row = a
    BY <2>1 DEF KeysOf
  <2>3. ledger["APPROVAL_DECIDE"][k] # NoEntry
    BY <1>1, <2>2 DEF NoEntry
  <2>4. ledger'["APPROVAL_DECIDE"][k] = ledger["APPROVAL_DECIDE"][k]
    BY <1>1, <2>3, CommitKeepsRecords
  <2>5. approval[a].approver \in Humans \ {approval[a].by}
    BY <1>3, <1>4 DEF DecisionsAreRecordedOnce
  <2> QED
    BY <1>2, <1>4, <2>1, <2>4, <2>5
<1>5. CASE approval[a].status \notin Decisions
  BY <1>2, <1>3, <1>5 DEF DecisionsAreRecordedOnce
<1> QED
  BY <1>4, <1>5

\* The three forms of Commit that write a job: a fresh row, or one of a
\* command whose handler holds it.
LEMMA JobCommitPreserves ==
  ASSUME IInv, NEW r \in Slots, NEW j \in Jobs, Commit(r, j),
         NEW s \in JobStatus \ {"ABSENT"}, NEW n \in 0..MaxRetries, NEW key \in Keys \cup {None},
         status' = [status EXCEPT ![j] = s], retries' = [retries EXCEPT ![j] = n],
         jobKey' = [jobKey EXCEPT ![j] = key], UNCHANGED <<executions, approvalVars>>,
         \/ cmd[r].op = "JOB_CREATE" /\ status[j] = "ABSENT" /\ key = cmd[r].key
         \/ /\ cmd[r].op \in {"JOB_RETRY", "JOB_CANCEL"} /\ lockedBy[j] = r
            /\ status[j] # "ABSENT" /\ key = jobKey[j],
         n = retries[j] + (IF cmd[r].op = "JOB_RETRY" THEN 1 ELSE 0),
         Match(executions[j], s, n)
  PROVE  IInv'
<1>1. /\ TypeOK /\ Books /\ j \in Rows
      /\ UNCHANGED <<executions, approval, expired>>
  BY DEF IInv, Rows, approvalVars
<1>2. /\ status'[j] = s /\ retries'[j] = n /\ jobKey'[j] = key
      /\ \A i \in Jobs \ {j} :
           status'[i] = status[i] /\ retries'[i] = retries[i] /\ jobKey'[i] = jobKey[i]
  BY <1>1 DEF TypeOK
<1>3. TypeOK'
  <2>1. /\ status' \in [Jobs -> JobStatus] /\ retries' \in [Jobs -> 0..MaxRetries]
        /\ jobKey' \in [Jobs -> Keys \cup {None}]
    BY <1>1 DEF TypeOK
  <2>2. executions' \in [Jobs -> Seq(Execution)] /\ approval' \in [Approvals -> Approval]
        /\ expired' \subseteq Approvals
    BY <1>1 DEF TypeOK
  <2> QED
    BY <1>1, <2>1, <2>2, CommitTyped DEF TypeOK
<1>4. {"JOB_CREATE", "JOB_RETRY", "APPROVAL_DECIDE"} \subseteq AllOperations /\ Jobs \subseteq Rows
  BY DEF AllOperations, Rows
<1>5. JobsAreCreatedOnce'
  <2>1. JobsAreCreatedOnce
    BY <1>1 DEF Books
  <2>2. ASSUME NEW i \in Jobs \ {j}
        PROVE  KeysOf("JOB_CREATE", i)' = IF status'[i] = "ABSENT" THEN {} ELSE {jobKey'[i]}
    BY <1>2, <1>4, <2>1, CommitKeys DEF JobsAreCreatedOnce
  <2>3. KeysOf("JOB_CREATE", j)' = {key}
    BY <1>4, <2>1, CommitKeys DEF JobsAreCreatedOnce
  <2> QED
    BY <1>2, <2>2, <2>3 DEF JobsAreCreatedOnce
<1>6. RetriesAreAccounted'
  <2>1. ASSUME NEW i \in Jobs
        PROVE  Cardinality(KeysOf("JOB_RETRY", i)') <= retries'[i] /\ retries'[i] <= MaxRetries
    <3>1. /\ Cardinality(KeysOf("JOB_RETRY", i)) \in Nat
          /\ Cardinality(KeysOf("JOB_RETRY", i)) <= retries[i]
          /\ retries[i] <= MaxRetries /\ retries[i] \in Nat /\ MaxRetries \in Nat
          /\ IsFiniteSet(KeysOf("JOB_RETRY", i))
      BY <1>1, JobFacts, FS_CardinalityType DEF Books, RetriesAreAccounted
    <3>2. CASE i = j /\ cmd[r].op = "JOB_RETRY"
      <4>1. Cardinality(KeysOf("JOB_RETRY", i)') = Cardinality(KeysOf("JOB_RETRY", i)) + 1
        BY <1>4, <3>1, <3>2, CommitKeys, FS_AddElement
      <4>2. retries'[i] = retries[i] + 1 /\ retries'[i] <= MaxRetries
        BY <1>2, <3>1, <3>2
      <4> QED
        BY <3>1, <4>1, <4>2
    <3>3. CASE i # j \/ cmd[r].op # "JOB_RETRY"
      <4>1. KeysOf("JOB_RETRY", i)' = KeysOf("JOB_RETRY", i)
        BY <1>4, <3>3, CommitKeys
      <4>2. retries'[i] = retries[i]
        BY <1>2, <3>1, <3>3
      <4> QED
        BY <3>1, <4>1, <4>2
    <3> QED
      BY <3>2, <3>3
  <2> QED
    BY <2>1 DEF RetriesAreAccounted
<1>7. DecisionsAreRecordedOnce'
  <2>1. cmd[r].op # "APPROVAL_DECIDE"
    OBVIOUS
  <2> QED
    BY <1>1, <1>4, <2>1, CommitDecisions DEF DecisionsAreRecordedOnce
<1>8. ExecutionsMatchTheJob'
  BY <1>1, <1>2, MatchOfAll, MatchOfAllNext DEF Books
<1>9. \A q \in Slots : HandlerShape(q)' /\ Answered(q)'
  <2>1. \A x \in Jobs : status[x] # "ABSENT" /\ lockedBy[x] # r => x # j
    OBVIOUS
  <2> QED
    BY <1>1, <1>2, <1>4, <2>1, CommitSlots
<1> QED
  BY <1>3, <1>5, <1>6, <1>7, <1>8, <1>9, <1>4, CommitBooks
  DEF IInv, Books, AnswersAreRecorded, Answered

LEMMA CreateJobPreserves ==
  ASSUME IInv, NEW r \in Slots, NEW j \in Rows, Commit(r, j), CreateJob(r, j)
  PROVE  IInv'
<1>1. /\ j \in Jobs /\ cmd[r].op = "JOB_CREATE" /\ status[j] = "ABSENT"
      /\ status' = [status EXCEPT ![j] = "PENDING"]
      /\ jobKey' = [jobKey EXCEPT ![j] = cmd[r].key]
      /\ UNCHANGED <<executions, approvalVars>> /\ retries' = retries
  BY DEF CreateJob
<1>2. retries' = [retries EXCEPT ![j] = retries[j]]
  BY <1>1 DEF IInv, TypeOK
<1>3. Match(executions[j], "PENDING", retries[j])
  BY <1>1, JobFacts DEF Match, NotOnceMore
<1>4. cmd[r].key \in Keys \cup {None}
  BY CommitLedger
<1>5. "PENDING" \in JobStatus \ {"ABSENT"}
  BY DEF JobStatus
<1>6. /\ retries[j] \in 0..MaxRetries
      /\ retries[j] = retries[j] + (IF cmd[r].op = "JOB_RETRY" THEN 1 ELSE 0)
  BY <1>1, JobFacts
<1>7. \/ cmd[r].op = "JOB_CREATE" /\ status[j] = "ABSENT" /\ cmd[r].key = cmd[r].key
      \/ /\ cmd[r].op \in {"JOB_RETRY", "JOB_CANCEL"} /\ lockedBy[j] = r
         /\ status[j] # "ABSENT" /\ cmd[r].key = jobKey[j]
  BY <1>1
<1> QED
  BY <1>1, <1>2, <1>3, <1>4, <1>5, <1>6, <1>7, JobCommitPreserves

LEMMA RetryJobPreserves ==
  ASSUME IInv, NEW r \in Slots, NEW j \in Rows, Commit(r, j), RetryJob(r, j)
  PROVE  IInv'
<1>1. /\ cmd[r].op = "JOB_RETRY" /\ j = cmd[r].row
      /\ status' = [status EXCEPT ![j] = "RETRY_SCHEDULED"]
      /\ retries' = [retries EXCEPT ![j] = copy[r] + 1]
      /\ UNCHANGED <<executions, approvalVars>> /\ jobKey' = jobKey
  BY DEF RetryJob, UpdateJob
<1>2. j \in Jobs
  BY <1>1, CommitLedger, CommandFields
<1>3. /\ status[j] \in {"FAILED", "PARTIAL"} /\ retries[j] < MaxRetries
      /\ copy[r] = retries[j] /\ lockedBy[j] = r
  BY <1>1, CommitLedger DEF StillAdmissible, Retryable
<1>4. jobKey' = [jobKey EXCEPT ![j] = jobKey[j]] /\ jobKey[j] \in Keys \cup {None}
  BY <1>1, <1>2 DEF IInv, TypeOK
<1>5. Match(executions[j], "RETRY_SCHEDULED", retries[j] + 1)
  BY <1>2, <1>3, JobFacts DEF Match, NotOnceMore
<1>6. "RETRY_SCHEDULED" \in JobStatus \ {"ABSENT"} /\ retries[j] + 1 \in 0..MaxRetries
  BY <1>2, <1>3, JobFacts DEF JobStatus
<1>7. /\ retries' = [retries EXCEPT ![j] = retries[j] + 1]
      /\ retries[j] + 1 = retries[j] + (IF cmd[r].op = "JOB_RETRY" THEN 1 ELSE 0)
  BY <1>1, <1>3
<1>8. \/ cmd[r].op = "JOB_CREATE" /\ status[j] = "ABSENT" /\ jobKey[j] = cmd[r].key
      \/ /\ cmd[r].op \in {"JOB_RETRY", "JOB_CANCEL"} /\ lockedBy[j] = r
         /\ status[j] # "ABSENT" /\ jobKey[j] = jobKey[j]
  BY <1>1, <1>3
<1> DEFINE n == retries[j] + 1
<1>9. /\ n \in 0..MaxRetries /\ retries' = [retries EXCEPT ![j] = n]
      /\ n = retries[j] + (IF cmd[r].op = "JOB_RETRY" THEN 1 ELSE 0)
      /\ Match(executions[j], "RETRY_SCHEDULED", n)
  BY <1>5, <1>6, <1>7
<1>10. /\ UNCHANGED <<executions, approvalVars>>
       /\ status' = [status EXCEPT ![j] = "RETRY_SCHEDULED"]
  BY <1>1
<1> HIDE DEF n
<1> QED
  BY <1>2, <1>4, <1>6, <1>8, <1>9, <1>10, JobCommitPreserves

LEMMA CancelJobPreserves ==
  ASSUME IInv, NEW r \in Slots, NEW j \in Rows, Commit(r, j), CancelJob(r, j)
  PROVE  IInv'
<1>1. /\ cmd[r].op = "JOB_CANCEL" /\ j = cmd[r].row
      /\ status' = [status EXCEPT ![j] = "CANCELLED"]
      /\ retries' = [retries EXCEPT ![j] = copy[r]]
      /\ UNCHANGED <<executions, approvalVars>> /\ jobKey' = jobKey
  BY DEF CancelJob, UpdateJob
<1>2. j \in Jobs
  BY <1>1, CommitLedger, CommandFields
<1>3. /\ status[j] \in {"PENDING", "QUEUED", "RETRY_SCHEDULED"}
      /\ copy[r] = retries[j] /\ lockedBy[j] = r
  BY <1>1, CommitLedger DEF StillAdmissible, Cancellable
<1>4. jobKey' = [jobKey EXCEPT ![j] = jobKey[j]] /\ jobKey[j] \in Keys \cup {None}
  BY <1>1, <1>2 DEF IInv, TypeOK
<1>5. Match(executions[j], "CANCELLED", retries[j])
  BY <1>2, <1>3, JobFacts DEF Match, NotOnceMore
<1>6. /\ "CANCELLED" \in JobStatus \ {"ABSENT"} /\ retries[j] \in 0..MaxRetries
      /\ retries[j] = retries[j] + (IF cmd[r].op = "JOB_RETRY" THEN 1 ELSE 0)
  BY <1>1, <1>2, JobFacts DEF JobStatus
<1>7. retries' = [retries EXCEPT ![j] = retries[j]]
  BY <1>1, <1>3
<1>8. \/ cmd[r].op = "JOB_CREATE" /\ status[j] = "ABSENT" /\ jobKey[j] = cmd[r].key
      \/ /\ cmd[r].op \in {"JOB_RETRY", "JOB_CANCEL"} /\ lockedBy[j] = r
         /\ status[j] # "ABSENT" /\ jobKey[j] = jobKey[j]
  BY <1>1, <1>3
<1> DEFINE n == retries[j]
<1>9. /\ n \in 0..MaxRetries /\ retries' = [retries EXCEPT ![j] = n]
      /\ n = retries[j] + (IF cmd[r].op = "JOB_RETRY" THEN 1 ELSE 0)
      /\ Match(executions[j], "CANCELLED", n)
  BY <1>5, <1>6, <1>7
<1>10. /\ UNCHANGED <<executions, approvalVars>>
       /\ status' = [status EXCEPT ![j] = "CANCELLED"]
  BY <1>1
<1> HIDE DEF n
<1> QED
  BY <1>2, <1>4, <1>6, <1>8, <1>9, <1>10, JobCommitPreserves

\* The two forms that write an approval: the rows of jobs stay, but for the
\* execution that controls a new approval, which no worker starts.
LEMMA ApprovalCommitPreserves ==
  ASSUME IInv, NEW r \in Slots, NEW a \in Approvals, Commit(r, a),
         NEW value \in Approval, approval' = [approval EXCEPT ![a] = value],
         UNCHANGED <<status, retries, jobKey, expired>>,
         executions' \in [Jobs -> Seq(Execution)],
         \A j \in Jobs : Match(executions'[j], status[j], retries[j]),
         approval[a].status = "ABSENT" \/ lockedBy[a] = r,
         cmd[r].op \in {"APPROVAL_CREATE", "APPROVAL_DECIDE"},
         IF value.status \in Decisions
         THEN /\ \E k \in Keys :
                   /\ KeysOf("APPROVAL_DECIDE", a)' = {k}
                   /\ ledger'["APPROVAL_DECIDE"][k].fingerprint[2] = value.status
              /\ value.approver \in Humans \ {value.by}
         ELSE KeysOf("APPROVAL_DECIDE", a)' = {}
  PROVE  IInv'
<1>1. TypeOK /\ Books /\ a \in Rows
  BY DEF IInv, Rows
<1>2. approval'[a] = value /\ \A b \in Approvals \ {a} : approval'[b] = approval[b]
  BY <1>1 DEF TypeOK
<1>3. TypeOK'
  <2>1. approval' \in [Approvals -> Approval]
    BY <1>1 DEF TypeOK
  <2>2. /\ status' \in [Jobs -> JobStatus] /\ retries' \in [Jobs -> 0..MaxRetries]
        /\ jobKey' \in [Jobs -> Keys \cup {None}] /\ expired' \subseteq Approvals
    BY <1>1 DEF TypeOK
  <2> QED
    BY <1>1, <2>1, <2>2, CommitTyped DEF TypeOK
<1>4. {"JOB_CREATE", "JOB_RETRY"} \subseteq AllOperations /\ Jobs \subseteq Rows
  BY DEF AllOperations, Rows
<1>5. \A j \in Jobs : /\ KeysOf("JOB_CREATE", j)' = KeysOf("JOB_CREATE", j)
                      /\ KeysOf("JOB_RETRY", j)' = KeysOf("JOB_RETRY", j)
  BY <1>1, <1>4, CommitKeys
<1>6. JobsAreCreatedOnce' /\ RetriesAreAccounted'
  BY <1>1, <1>5 DEF Books, JobsAreCreatedOnce, RetriesAreAccounted
<1>7. DecisionsAreRecordedOnce'
  <2>1. ASSUME NEW b \in Approvals \ {a}
        PROVE  IF approval'[b].status \in Decisions
               THEN /\ \E k \in Keys :
                         /\ KeysOf("APPROVAL_DECIDE", b)' = {k}
                         /\ ledger'["APPROVAL_DECIDE"][k].fingerprint[2] = approval'[b].status
                    /\ approval'[b].approver \in Humans \ {approval'[b].by}
               ELSE KeysOf("APPROVAL_DECIDE", b)' = {}
    BY <1>1, <1>2, CommitDecisions
  <2> QED
    BY <1>2, <2>1 DEF DecisionsAreRecordedOnce
<1>8. ExecutionsMatchTheJob'
  BY MatchOfAllNext
<1>9. \A q \in Slots : HandlerShape(q)' /\ Answered(q)'
  BY <1>1, <1>2, CommitSlots
<1> QED
  BY <1>1, <1>3, <1>6, <1>7, <1>8, <1>9, CommitBooks DEF IInv, Books, AnswersAreRecorded, Answered

LEMMA RequestApprovalPreserves ==
  ASSUME IInv, NEW r \in Slots, NEW a \in Rows, Commit(r, a), RequestApproval(r, a)
  PROVE  IInv'
<1> DEFINE value == [status |-> "PENDING", job |-> cmd[r].row, by |-> cmd[r].by, approver |-> None]
           i == cmd[r].row
<1>1. /\ a \in Approvals /\ cmd[r].op = "APPROVAL_CREATE" /\ approval[a].status = "ABSENT"
      /\ approval' = [approval EXCEPT ![a] = value]
      /\ executions' = [executions EXCEPT ![i] = Started(executions[i], "CORE_API")]
      /\ UNCHANGED <<status, retries, jobKey, expired>>
  BY DEF RequestApproval
<1>2. i \in Jobs /\ cmd[r].by \in Users
  BY <1>1, CommitLedger, CommandFields
<1>3. value \in Approval
  BY <1>2 DEF Approval, ApprovalStatus
<1>4. /\ Started(executions[i], "CORE_API") \in Seq(Execution)
      /\ Match(Started(executions[i], "CORE_API"), status[i], retries[i])
  <2>1. /\ Started(executions[i], "CORE_API") \in Seq(Execution)
        /\ Cardinality(By(Started(executions[i], "CORE_API"), "WORKER_SERVICE")) =
             Cardinality(By(executions[i], "WORKER_SERVICE")) + 0
        /\ Cardinality(OpenBy(Started(executions[i], "CORE_API"))) =
             Cardinality(OpenBy(executions[i])) + 0
    BY <1>2, StartedRows, JobFacts DEF Executor
  <2> QED
    BY <1>2, <2>1, JobFacts DEF Match
<1>5. /\ executions' \in [Jobs -> Seq(Execution)]
      /\ \A j \in Jobs : Match(executions'[j], status[j], retries[j])
  <2>1. executions \in [Jobs -> Seq(Execution)]
    BY DEF IInv, TypeOK
  <2>2. \A j \in Jobs : Match(executions[j], status[j], retries[j])
    BY JobFacts
  <2>3. executions' \in [Jobs -> Seq(Execution)]
    BY <1>1, <1>2, <1>4, <2>1
  <2>4. ASSUME NEW j \in Jobs
        PROVE  Match(executions'[j], status[j], retries[j])
    <3>1. CASE j = i
      BY <1>1, <1>2, <1>4, <2>1, <3>1
    <3>2. CASE j # i
      BY <1>1, <1>2, <2>1, <2>2, <3>2
    <3> QED
      BY <3>1, <3>2
  <2> QED
    BY <2>3, <2>4
<1>6. KeysOf("APPROVAL_DECIDE", a)' = {}
  <2>1. KeysOf("APPROVAL_DECIDE", a) = {}
    BY <1>1 DEF IInv, Books, DecisionsAreRecordedOnce, Decisions
  <2>2. "APPROVAL_DECIDE" \in AllOperations /\ cmd[r].op # "APPROVAL_DECIDE"
    BY <1>1 DEF AllOperations
  <2> QED
    BY <2>1, <2>2, CommitKeys
<1>7. value.status \notin Decisions
  BY DEF Decisions
<1> HIDE DEF value, i
<1> QED
  BY <1>1, <1>3, <1>5, <1>6, <1>7, ApprovalCommitPreserves

LEMMA DecideApprovalPreserves ==
  ASSUME IInv, NEW r \in Slots, NEW a \in Rows, Commit(r, a), DecideApproval(r, a)
  PROVE  IInv'
<1> DEFINE c == cmd[r]
           value == [approval[a] EXCEPT !.status = c.choice, !.approver = c.by]
<1>1. /\ c.op = "APPROVAL_DECIDE" /\ a = c.row
      /\ approval' = [approval EXCEPT ![a].status = c.choice, ![a].approver = c.by]
      /\ UNCHANGED <<status, retries, jobKey, executions, expired>>
  BY DEF DecideApproval, jobVars
<1>2. a \in Approvals /\ c.by \in Humans /\ c.choice \in Decisions
  BY <1>1, CommitLedger, CommandFields
<1>3. approval[a].status = "PENDING" /\ approval[a].by # c.by /\ lockedBy[a] = r
  BY <1>1, CommitLedger DEF StillAdmissible
<1>4. /\ approval \in [Approvals -> Approval] /\ executions \in [Jobs -> Seq(Execution)]
      /\ \A j \in Jobs : Match(executions[j], status[j], retries[j])
  BY JobFacts DEF IInv, TypeOK
<1>5. /\ value \in Approval /\ value.status = c.choice /\ value.approver = c.by
      /\ value.by = approval[a].by
  <2>1. approval[a] \in Approval /\ c.by \in Users /\ c.choice \in ApprovalStatus
    BY <1>2, <1>4, CoreAssumption DEF CoreAssumption, ApprovalStatus
  <2> QED
    BY <2>1 DEF Approval
<1>6. approval' = [approval EXCEPT ![a] = value]
  BY <1>1, <1>2, <1>4
<1>7. KeysOf("APPROVAL_DECIDE", a)' = {c.key} /\ c.key \in Keys
  <2>1. KeysOf("APPROVAL_DECIDE", a) = {}
    BY <1>2, <1>3 DEF IInv, Books, DecisionsAreRecordedOnce, Decisions
  <2>2. "APPROVAL_DECIDE" \in AllOperations /\ c.key \in Keys
    BY CommitLedger DEF AllOperations
  <2> QED
    BY <1>1, <2>1, <2>2, CommitKeys
<1>8. ledger'["APPROVAL_DECIDE"][c.key].fingerprint[2] = c.choice
  <2>1. ledger'[c.op][c.key] = NewEntry(c, a)
    BY CommitLedger
  <2> QED
    BY <1>1, <2>1 DEF NewEntry, Fingerprint
<1> HIDE DEF value, c
<1>9. IF value.status \in Decisions
      THEN /\ \E k \in Keys :
                /\ KeysOf("APPROVAL_DECIDE", a)' = {k}
                /\ ledger'["APPROVAL_DECIDE"][k].fingerprint[2] = value.status
           /\ value.approver \in Humans \ {value.by}
      ELSE KeysOf("APPROVAL_DECIDE", a)' = {}
  BY <1>2, <1>3, <1>5, <1>7, <1>8
<1>10. /\ executions' \in [Jobs -> Seq(Execution)]
       /\ \A j \in Jobs : Match(executions'[j], status[j], retries[j])
  BY <1>1, <1>4
<1>11. /\ cmd[r].op \in {"APPROVAL_CREATE", "APPROVAL_DECIDE"}
       /\ approval[a].status = "ABSENT" \/ lockedBy[a] = r
       /\ value \in Approval
  BY <1>1, <1>3, <1>5 DEF c
<1>12. a \in Approvals /\ UNCHANGED <<status, retries, jobKey, expired>>
  BY <1>1, <1>2
<1> QED
  BY <1>6, <1>9, <1>10, <1>11, <1>12, ApprovalCommitPreserves

LEMMA CommitPreserves ==
  ASSUME IInv, NEW r \in Slots, NEW row \in Rows, Commit(r, row)
  PROVE  IInv'
<1>1. Write(r, row)
  BY DEF Commit
<1> QED
  BY <1>1, CreateJobPreserves, RetryJobPreserves, CancelJobPreserves,
     RequestApprovalPreserves, DecideApprovalPreserves DEF Write

-----------------------------------------------------------------------------
(* The invariant and what follows from it.                                 *)

LEMMA InitIInv == Init => IInv
<1> SUFFICES ASSUME Init
             PROVE  IInv
  OBVIOUS
<1>1. MaxRetries \in Nat /\ None \notin Rows
  BY CoreAssumption DEF CoreAssumption
<1>2. TypeOK
  <2>1. status \in [Jobs -> JobStatus] /\ approval \in [Approvals -> Approval]
    BY DEF Init, JobStatus, Approval, ApprovalStatus, NoApproval
  <2>2. executions \in [Jobs -> Seq(Execution)]
    BY DEF Init
  <2>3. /\ ledger \in [AllOperations -> [Keys -> Entry \cup {NoEntry}]]
        /\ writes \in [AllOperations -> [Keys -> Nat]]
    BY DEF Init
  <2>4. /\ retries \in [Jobs -> 0..MaxRetries] /\ jobKey \in [Jobs -> Keys \cup {None}]
        /\ expired \subseteq Approvals /\ lockedBy \in [Rows -> Slots \cup {None}]
    BY <1>1 DEF Init
  <2>5. /\ pc \in [Slots -> {"idle", "lookup", "locate", "write"}]
        /\ cmd \in [Slots -> Command \cup {NoCommand}]
        /\ copy \in [Slots -> 0..MaxRetries] /\ answer \in [Slots -> Rows \cup {None}]
    BY <1>1 DEF Init
  <2> QED
    BY <2>1, <2>2, <2>3, <2>4, <2>5 DEF TypeOK
<1>3. \A o \in AllOperations, row \in Rows : KeysOf(o, row) = {}
  BY <1>1 DEF Init, KeysOf, NoEntry
<1>4. {"JOB_CREATE", "JOB_RETRY", "APPROVAL_DECIDE"} \subseteq AllOperations
      /\ Jobs \subseteq Rows /\ Approvals \subseteq Rows
  BY DEF AllOperations, Rows
<1>5. OneEffectPerKey /\ JobsAreCreatedOnce
  BY <1>3, <1>4 DEF Init, OneEffectPerKey, JobsAreCreatedOnce
<1>6. RetriesAreAccounted /\ \A j \in Jobs : IsFiniteSet(KeysOf("JOB_RETRY", j))
  <2>1. \A j \in Jobs : KeysOf("JOB_RETRY", j) = {} /\ retries[j] = 0
    BY <1>3, <1>4 DEF Init
  <2>2. Cardinality({}) = 0 /\ IsFiniteSet({})
    BY FS_EmptySet
  <2>3. 0 <= 0 /\ 0 <= MaxRetries
    BY <1>1
  <2>4. \A j \in Jobs :
          Cardinality(KeysOf("JOB_RETRY", j)) <= retries[j] /\ retries[j] <= MaxRetries
    BY <2>1, <2>2, <2>3
  <2>5. \A j \in Jobs : IsFiniteSet(KeysOf("JOB_RETRY", j))
    BY <2>1, <2>2
  <2> QED
    BY <2>4, <2>5 DEF RetriesAreAccounted
<1>7. DecisionsAreRecordedOnce
  BY <1>3, <1>4 DEF Init, DecisionsAreRecordedOnce, NoApproval, Decisions
<1>8. ExecutionsMatchTheJob
  <2>1. By(<< >>, "WORKER_SERVICE") = {} /\ OpenBy(<< >>) = {}
    BY DEF By, OpenBy
  <2>2. Match(<< >>, "ABSENT", 0)
    BY <2>1, FS_EmptySet DEF Match, NotOnceMore
  <2> QED
    BY <2>2, MatchOfAll DEF Init
<1>9. AnswersAreRecorded /\ \A r \in Slots : HandlerShape(r)
  BY DEF Init, AnswersAreRecorded, HandlerShape
<1> QED
  BY <1>2, <1>5, <1>6, <1>7, <1>8, <1>9 DEF IInv, Books

LEMMA StutterPreserves ==
  ASSUME IInv, UNCHANGED vars
  PROVE  IInv'
<1>1. /\ UNCHANGED <<jobVars, approvalVars, lockedBy, ledger, writes>>
      /\ UNCHANGED handlerVars
  BY DEF vars
<1>2. TypeOK'
  BY <1>1, HandlerTyped DEF IInv, TypeOK, handlerVars
<1>3. Books'
  BY <1>1, BooksUntouched DEF IInv
<1>4. \A q \in Slots : HandlerShape(q)' /\ Answered(q)'
  BY <1>1, SlotKept DEF jobVars, approvalVars
<1> QED
  BY <1>2, <1>3, <1>4 DEF IInv, AnswersAreRecorded, Answered

LEMMA NextIInv == IInv /\ [Next]_vars => IInv'
<1> SUFFICES ASSUME IInv, [Next]_vars
             PROVE  IInv'
  OBVIOUS
<1>1. ASSUME NEW r \in Slots, NEW c \in Command, Receive(r, c)
      PROVE  IInv'
  BY <1>1, ReceivePreserves
<1>2. ASSUME NEW r \in Slots, Handle(r)
      PROVE  IInv'
  BY <1>2, LookupPreserves, LocatePreserves, CollidePreserves, CommitPreserves DEF Handle
<1>3. ASSUME NEW r \in Slots, Abort(r)
      PROVE  IInv'
  BY <1>3, AbortPreserves
<1>4. ASSUME NEW j \in Jobs,
             Claim(j) \/ TakeOver(j) \/ Reattempt(j) \/ EndJob(j) \/ EndElsewhere(j)
      PROVE  IInv'
  BY <1>4, ClaimPreserves, TakeOverPreserves, ReattemptPreserves, EndJobPreserves,
     EndElsewherePreserves
<1>5. ASSUME NEW a \in Approvals, Expire(a)
      PROVE  IInv'
  BY <1>5, ExpirePreserves
<1>6. CASE UNCHANGED vars
  BY <1>6, StutterPreserves
<1> QED
  BY <1>1, <1>2, <1>3, <1>4, <1>5, <1>6 DEF Next

\* The inductive invariant holds of every run of Core API and the executors.
THEOREM CommandInvariance == Spec => []IInv
BY InitIInv, NextIInv, PTL DEF Spec

\* Rows, ledger and handlers are always of the kinds the schema and the code
\* give them.
THEOREM CommandTypes == Spec => []TypeOK
BY CommandInvariance, PTL DEF IInv

\* However often a command is sent and to however many handlers, its key has
\* one record and one audit event, or neither.
THEOREM OneEffect == Spec => []OneEffectPerKey
<1>1. IInv => OneEffectPerKey
  BY DEF IInv, Books
<1> QED
  BY <1>1, CommandInvariance, PTL

\* Every resource that Core API answered with is on record for that command.
THEOREM RecordedAnswers == Spec => []AnswersAreRecorded
<1>1. IInv => AnswersAreRecorded
  BY DEF IInv
<1> QED
  BY <1>1, CommandInvariance, PTL

\* No job exists without the one recorded command that created it.
THEOREM JobsOfCommands == Spec => []JobsAreCreatedOnce
<1>1. IInv => JobsAreCreatedOnce
  BY DEF IInv, Books
<1> QED
  BY <1>1, CommandInvariance, PTL

\* No recorded retry is lost, and commands and executors together stay within
\* the limit of retries.
THEOREM AccountedRetries == Spec => []RetriesAreAccounted
<1>1. IInv => RetriesAreAccounted
  BY DEF IInv, Books
<1> QED
  BY <1>1, CommandInvariance, PTL

\* Every decision about an approval is the only one and a human's other than
\* its requester.
THEOREM RecordedDecisions == Spec => []DecisionsAreRecordedOnce
<1>1. IInv => DecisionsAreRecordedOnce
  BY DEF IInv, Books
<1> QED
  BY <1>1, CommandInvariance, PTL

\* A job is RUNNING exactly while one worker execution is open, and workers
\* get at most one attempt more than the job's retries.
THEOREM MatchingExecutions == Spec => []ExecutionsMatchTheJob
<1>1. IInv => ExecutionsMatchTheJob
  BY DEF IInv, Books
<1> QED
  BY <1>1, CommandInvariance, PTL

-----------------------------------------------------------------------------
(* What no step may do.                                                    *)

\* The store operations of executors start from other states than CANCELLED
\* and never lead to it.
LEMMA ExecutorsDoNotCancel ==
  ASSUME IInv, NEW i \in Jobs,
         Claim(i) \/ TakeOver(i) \/ Reattempt(i) \/ EndJob(i) \/ EndElsewhere(i)
  PROVE  /\ UNCHANGED approval
         /\ \E s \in JobStatus \ {"CANCELLED"} : status' = [status EXCEPT ![i] = s]
         /\ status[i] # "CANCELLED"
BY DEF Claim, TakeOver, Reattempt, EndJob, EndElsewhere, ExecutorWrites, approvalVars, JobStatus

\* A commit that makes a job CANCELLED found it waiting under its lock, and one
\* that requests an approval found its job not CANCELLED.
LEMMA CommitRespectsCancellation ==
  ASSUME IInv, NEW r \in Slots, NEW row \in Rows, Commit(r, row)
  PROVE  /\ \A j \in Jobs :
              /\ status'[j] = "CANCELLED" /\ status[j] # "CANCELLED" =>
                   status[j] \in {"PENDING", "QUEUED", "RETRY_SCHEDULED"}
              /\ status[j] = "CANCELLED" => status'[j] = "CANCELLED"
         /\ \A a \in Approvals :
              approval[a].status = "ABSENT" /\ approval'[a].status # "ABSENT" =>
                status[approval'[a].job] # "CANCELLED"
<1>1. /\ status \in [Jobs -> JobStatus] /\ approval \in [Approvals -> Approval]
      /\ cmd[r].op # "JOB_CREATE" => StillAdmissible(r)
  BY CommitLedger DEF TypeOK
<1>2. CASE CreateJob(r, row)
  BY <1>1, <1>2 DEF CreateJob, approvalVars
<1>3. CASE RetryJob(r, row)
  <2>1. status[row] \in {"FAILED", "PARTIAL"}
    BY <1>1, <1>3 DEF RetryJob, StillAdmissible, Retryable
  <2> QED
    BY <1>1, <1>3, <2>1 DEF RetryJob, UpdateJob, approvalVars
<1>4. CASE CancelJob(r, row)
  <2>1. status[row] \in {"PENDING", "QUEUED", "RETRY_SCHEDULED"}
    BY <1>1, <1>4 DEF CancelJob, StillAdmissible, Cancellable
  <2> QED
    BY <1>1, <1>4, <2>1 DEF CancelJob, UpdateJob, approvalVars
<1>5. CASE RequestApproval(r, row)
  <2>1. status[cmd[r].row] # "CANCELLED"
    BY <1>1, <1>5 DEF RequestApproval, StillAdmissible, Approvable
  <2>2. UNCHANGED status /\ row \in Approvals
        /\ approval'[row].job = cmd[r].row
        /\ \A a \in Approvals \ {row} : approval'[a] = approval[a]
    BY <1>1, <1>5 DEF RequestApproval
  <2> QED
    BY <2>1, <2>2
<1>6. CASE DecideApproval(r, row)
  <2>1. approval[row].status = "PENDING"
    BY <1>1, <1>6 DEF DecideApproval, StillAdmissible
  <2>2. UNCHANGED status /\ \A a \in Approvals \ {row} : approval'[a] = approval[a]
    BY <1>1, <1>6 DEF DecideApproval, jobVars
  <2> QED
    BY <2>1, <2>2
<1> QED
  BY <1>2, <1>3, <1>4, <1>5, <1>6 DEF Commit, Write

\* All other steps write neither jobs nor approvals.
LEMMA OthersWriteNoRows ==
  ASSUME NEW r \in Slots,
         (\E c \in Command : Receive(r, c)) \/ Lookup(r) \/ Locate(r) \/ Collide(r) \/ Abort(r)
  PROVE  UNCHANGED <<status, approval>>
BY DEF Receive, Lookup, Locate, Collide, Abort, jobVars, approvalVars

LEMMA StepsRespectCancellation ==
  ASSUME IInv, [Next]_vars
  PROVE  /\ \A j \in Jobs :
              /\ status'[j] = "CANCELLED" /\ status[j] # "CANCELLED" =>
                   status[j] \in {"PENDING", "QUEUED", "RETRY_SCHEDULED"}
              /\ status[j] = "CANCELLED" => status'[j] = "CANCELLED"
         /\ \A a \in Approvals :
              approval[a].status = "ABSENT" /\ approval'[a].status # "ABSENT" =>
                status[approval'[a].job] # "CANCELLED"
<1>1. CASE UNCHANGED <<status, approval>>
  BY <1>1
<1>2. ASSUME NEW r \in Slots, NEW row \in Rows, Commit(r, row)
      PROVE  /\ \A j \in Jobs :
                  /\ status'[j] = "CANCELLED" /\ status[j] # "CANCELLED" =>
                       status[j] \in {"PENDING", "QUEUED", "RETRY_SCHEDULED"}
                  /\ status[j] = "CANCELLED" => status'[j] = "CANCELLED"
             /\ \A a \in Approvals :
                  approval[a].status = "ABSENT" /\ approval'[a].status # "ABSENT" =>
                    status[approval'[a].job] # "CANCELLED"
  BY <1>2, CommitRespectsCancellation
<1>3. ASSUME NEW i \in Jobs,
             Claim(i) \/ TakeOver(i) \/ Reattempt(i) \/ EndJob(i) \/ EndElsewhere(i)
      PROVE  /\ UNCHANGED approval
             /\ \A j \in Jobs :
                  status'[j] = "CANCELLED" <=> status[j] = "CANCELLED"
  <2>1. status \in [Jobs -> JobStatus]
    BY DEF IInv, TypeOK
  <2> QED
    BY <1>3, <2>1, ExecutorsDoNotCancel
<1>4. ASSUME NEW a \in Approvals, Expire(a)
      PROVE  UNCHANGED <<status, approval>>
  BY <1>4 DEF Expire, jobVars
<1>5. ASSUME UNCHANGED vars
      PROVE  UNCHANGED <<status, approval>>
  BY <1>5 DEF vars, jobVars, approvalVars
<1> QED
  BY <1>1, <1>2, <1>3, <1>4, <1>5, OthersWriteNoRows DEF Next, Handle

\* A job is cancelled only while no executor has it, also when one claims it
\* while the command is under way, and is never revived.
THEOREM CancelledWhileIdle == Spec => OnlyIdleJobsAreCancelled
<1> DEFINE A == \A j \in Jobs :
                  /\ status'[j] = "CANCELLED" /\ status[j] # "CANCELLED" =>
                       status[j] \in {"PENDING", "QUEUED", "RETRY_SCHEDULED"}
                  /\ status[j] = "CANCELLED" => status'[j] = "CANCELLED"
<1>1. IInv /\ [Next]_vars => [A]_vars
  BY StepsRespectCancellation
<1> QED
  BY <1>1, CommandInvariance, PTL DEF Spec, OnlyIdleJobsAreCancelled

\* No approval is requested for a job after its cancellation, also when the
\* cancellation comes while the request is under way.
THEOREM NoApprovalsOnceCancelled == Spec => CancelledJobsGetNoApprovals
<1> DEFINE A == \A a \in Approvals :
                  approval[a].status = "ABSENT" /\ approval'[a].status # "ABSENT" =>
                    status[approval'[a].job] # "CANCELLED"
<1>1. IInv /\ [Next]_vars => [A]_vars
  BY StepsRespectCancellation
<1> QED
  BY <1>1, CommandInvariance, PTL DEF Spec, CancelledJobsGetNoApprovals

=============================================================================

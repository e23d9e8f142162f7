--------------------------- MODULE MCCommandScopes --------------------------
(* Two small instances of CoreCommands in one run for TLC: in the scope     *)
(* "jobs" the commands on jobs run over two jobs, in the scope "approvals"  *)
(* jobs are created and cancelled while approvals are asked for one job and *)
(* decided.  The scope bounds what clients send, not what handlers do.      *)
EXTENDS MCCoreCommands

VARIABLE scope
scopeVars == <<scope, vars>>

OneJob == CHOOSE j \in Jobs : TRUE
NewKeys == {cmd[r].key : r \in {q \in Slots : cmd[q].op = "JOB_CREATE" /\ Recorded(cmd[q]) = NoEntry}}

\* Bound: what may be under way in the scope of the approvals.
AboutOneJob ==
  /\ \A r \in Slots : cmd[r].row \in Jobs => cmd[r].row = OneJob
  /\ \A j \in Jobs \ {OneJob} : status[j] = "ABSENT"
  /\ Cardinality(NewKeys) <= (IF status[OneJob] = "ABSENT" THEN 1 ELSE 0)

InScope ==
  \/ /\ scope = "jobs"
     /\ \A r \in Slots : cmd[r].op \in JobCommands \cup {"NONE"}
  \/ /\ scope = "approvals"
     /\ \A r \in Slots : cmd[r].op \in ApprovalCommands \cup {"NONE"}
     /\ AboutOneJob

ScopedInit == Init /\ scope \in {"jobs", "approvals"}
Scoped == UNCHANGED scope /\ InScope'
Served ==
  /\ \E r \in Slots : (\E c \in Command : Receive(r, c)) \/ Handle(r) \/ Abort(r)
  /\ Scoped
Worked ==
  /\ \E j \in Jobs : Claim(j) \/ TakeOver(j) \/ Reattempt(j) \/ EndJob(j) \/ EndElsewhere(j)
  /\ Scoped
Lapsed == (\E a \in Approvals : Expire(a)) /\ Scoped
ScopedNext == Served \/ Worked \/ Lapsed
ScopedSpec == ScopedInit /\ [][ScopedNext]_scopeVars

\* One job stands out, so jobs are not interchangeable here.
InterchangeableButJobs ==
  Permutations(Slots) \cup Permutations(Keys) \cup Permutations(Users)
=============================================================================

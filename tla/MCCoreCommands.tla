---------------------------- MODULE MCCoreCommands --------------------------
(* Small instances of CoreCommands for TLC.                                *)
EXTENDS CoreCommands, TLC

JobCommands == {"JOB_CREATE", "JOB_RETRY", "JOB_CANCEL"}
ApprovalCommands == {"JOB_CREATE", "JOB_CANCEL", "APPROVAL_CREATE", "APPROVAL_DECIDE"}

\* Where no approval is asked for, none expires.
JobsNext ==
  \/ \E r \in Slots :
       \/ \E c \in Command : Receive(r, c)
       \/ Handle(r) \/ Abort(r)
  \/ \E j \in Jobs : Claim(j) \/ TakeOver(j) \/ Reattempt(j) \/ EndJob(j) \/ EndElsewhere(j)
JobsFairSpec == Init /\ [][JobsNext]_vars /\ Fairness

\* No definition tells apart two slots, two keys or two identifiers.
Interchangeable ==
  Permutations(Slots) \cup Permutations(Keys) \cup Permutations(Jobs) \cup Permutations(Approvals)
    \cup Permutations(Users) \cup Permutations(Payloads)
=============================================================================

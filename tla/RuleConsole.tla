----------------------------- MODULE RuleConsole ----------------------------
(***************************************************************************)
(* The automation page of RHIA/frontend in one tab: the rules it shows,    *)
(* the form that creates one, and the handlers that switch and delete one. *)
(* Each handler writes and then loads all the rules again.  The server is  *)
(* not in the repository: it stores rules, and takes a whole rule in a     *)
(* PUT.  loading is shared: the end of any load ends it, so the form opens *)
(* again while its own creation is under way.  A 401 reloads the tab, as   *)
(* in LeadConsole: for this page it is the same as to leave it.            *)
(***************************************************************************)
EXTENDS Naturals, FiniteSets

CONSTANTS
  Rules,      \* identifiers of rules
  RuleSlots   \* calls on their way: the bound on how many

\* pendingRuleId is null or the identifier of a rule.
ASSUME RuleAssumption == 0 \notin Rules

VARIABLES
  ruleStore,  \* the server's rules: [id, active]
  ruleIds,    \* the identifiers it has given
  ruleShown,  \* rules, of the page
  pendingRule,\* pendingRuleId, 0 for null
  loading,
  ruleCalls,  \* by slot
  clouded     \* history: what the page shows may be out of date, see Sending

ruleVars == <<ruleStore, ruleIds, ruleShown, pendingRule, loading, ruleCalls, clouded>>

Rule == [id : Rules, active : BOOLEAN]
NoRuleCall == [kind |-> "none", by |-> "none", rule |-> 0, data |-> {}, at |-> "none"]

\* by is the handler that awaits the call, data what a PUT or an answer carries.
RuleCall ==
  [kind : {"load", "put", "delete", "post"}, by : {"page", "row", "form", "nobody"},
   rule : Rules \cup {0}, data : SUBSET Rule, at : {"sent", "done", "failed"}]

RuleInit ==
  /\ ruleIds \in SUBSET Rules
  /\ ruleStore = [id : ruleIds, active : {TRUE}]
  /\ ruleShown = {} /\ pendingRule = 0 /\ loading = FALSE
  /\ ruleCalls = [s \in RuleSlots |-> NoRuleCall]
  /\ clouded = TRUE

-----------------------------------------------------------------------------

OnTheirWay == {s \in RuleSlots : ruleCalls[s] # NoRuleCall}
NewRuleCall(kind, by, rule, data) ==
  [kind |-> kind, by |-> by, rule |-> rule, data |-> data, at |-> "sent"]

\* What is shown may be out of date when a creation goes on beside something
\* else, and no longer when a load is sent while nothing else is on its way.
Sending(others, kind, by) ==
  clouded' = IF others = {} THEN (IF kind = "load" THEN FALSE ELSE clouded)
             ELSE clouded \/ "form" \in {by} \cup {ruleCalls[s].by : s \in others}
                  \/ "nobody" \in {ruleCalls[s].by : s \in others}
SendRule(s, kind, by, rule, data) ==
  /\ ruleCalls[s] = NoRuleCall
  /\ ruleCalls' = [ruleCalls EXCEPT ![s] = NewRuleCall(kind, by, rule, data)]
  /\ Sending(OnTheirWay, kind, by)

\* The page is mounted, which loads the rules, or left with all it awaits.
OrphanedCalls == [s \in RuleSlots |->
  IF ruleCalls[s] = NoRuleCall THEN NoRuleCall ELSE [ruleCalls[s] EXCEPT !.by = "nobody"]]
MountRules(s) ==
  /\ ruleCalls[s] = NoRuleCall
  /\ ruleCalls' = [OrphanedCalls EXCEPT ![s] = NewRuleCall("load", "page", 0, {})]
  /\ clouded' = (OnTheirWay # {})
  /\ ruleShown' = {} /\ pendingRule' = 0 /\ loading' = TRUE
  /\ UNCHANGED <<ruleStore, ruleIds>>

\* The loader hides the page until its first load has ended.
Mounted == \A s \in RuleSlots : ruleCalls[s].by # "page"

\* The form is disabled while the page loads, the buttons of every rule while a
\* rule is written; neither heeds the other.
FormOffered == Mounted /\ ~loading
RuleButtons(rule) == rule \in ruleShown /\ pendingRule = 0

HandleToggleRule_again(s, rule) ==
  /\ rule \in ruleShown
  /\ pendingRule' = rule.id
  /\ SendRule(s, "put", "row", rule.id, {[rule EXCEPT !.active = ~@]})
  /\ UNCHANGED <<ruleStore, ruleIds, ruleShown, loading>>
HandleToggleRule(s, rule) ==
  /\ RuleButtons(rule)
  /\ pendingRule' = rule.id
  /\ SendRule(s, "put", "row", rule.id, {[rule EXCEPT !.active = ~@]})
  /\ UNCHANGED <<ruleStore, ruleIds, ruleShown, loading>>

HandleDeleteRule(s, rule) ==
  /\ RuleButtons(rule)
  /\ pendingRule' = rule.id
  /\ SendRule(s, "delete", "row", rule.id, {})
  /\ UNCHANGED <<ruleStore, ruleIds, ruleShown, loading>>

HandleCreateRule(s) ==
  /\ FormOffered
  /\ loading' = TRUE
  /\ SendRule(s, "post", "form", 0, {})
  /\ UNCHANGED <<ruleStore, ruleIds, ruleShown, pendingRule>>

-----------------------------------------------------------------------------
(* The server.                                                             *)

AnswerRule(s, at, data) ==
  ruleCalls' = [ruleCalls EXCEPT ![s].at = at, ![s].data = data]
WithoutRule(id) == {rule \in ruleStore : rule.id # id}
StoredIds == {rule.id : rule \in ruleStore}

ServeRule(s) ==
  LET call == ruleCalls[s] IN
  /\ call.at = "sent"
  /\ \/ call.kind = "load" /\ AnswerRule(s, "done", ruleStore) /\ UNCHANGED <<ruleStore, ruleIds>>
     \/ /\ call.kind = "put" /\ call.rule \in StoredIds
        /\ ruleStore' = WithoutRule(call.rule) \cup call.data
        /\ AnswerRule(s, "done", {})
        /\ UNCHANGED ruleIds
     \/ /\ call.kind = "delete" /\ call.rule \in StoredIds
        /\ ruleStore' = WithoutRule(call.rule)
        /\ AnswerRule(s, "done", {})
        /\ UNCHANGED ruleIds
     \/ /\ call.kind = "post" \/ (call.kind # "load" /\ call.rule \notin StoredIds)
        /\ AnswerRule(s, "failed", {})
        /\ UNCHANGED <<ruleStore, ruleIds>>
     \/ \E new \in Rules \ ruleIds, active \in BOOLEAN :
          /\ call.kind = "post"
          /\ ruleStore' = ruleStore \cup {[id |-> new, active |-> active]}
          /\ ruleIds' = ruleIds \cup {new}
          /\ AnswerRule(s, "done", {})
  /\ UNCHANGED <<ruleShown, pendingRule, loading, clouded>>

-----------------------------------------------------------------------------
(* Answers.                                                                *)

\* The finally of a handler.
HandlerEnds(by) ==
  /\ pendingRule' = IF by = "row" THEN 0 ELSE pendingRule
  /\ loading' = FALSE

\* After a write that went well its handler awaits a load in its place.
WriteWentWell(s) ==
  /\ ruleCalls[s].at = "done" /\ ruleCalls[s].kind # "load" /\ ruleCalls[s].by # "nobody"
  /\ ruleCalls' = [ruleCalls EXCEPT ![s] = NewRuleCall("load", @.by, 0, {})]
  /\ Sending(OnTheirWay \ {s}, "load", ruleCalls[s].by)
  /\ loading' = TRUE
  /\ UNCHANGED <<ruleStore, ruleIds, ruleShown, pendingRule>>

\* A write that failed ends its handler: nothing is loaded.  The form's handler
\* leaves loading behind, a row's does not touch it.
WriteFailed(s) ==
  /\ ruleCalls[s].at = "failed" /\ ruleCalls[s].by # "nobody"
  /\ ruleCalls' = [ruleCalls EXCEPT ![s] = NoRuleCall]
  /\ IF ruleCalls[s].by = "form" THEN loading' = FALSE /\ UNCHANGED pendingRule
     ELSE pendingRule' = 0 /\ UNCHANGED loading
  /\ clouded' = TRUE
  /\ UNCHANGED <<ruleStore, ruleIds, ruleShown>>

Loaded(s) ==
  /\ ruleCalls[s].at = "done" /\ ruleCalls[s].kind = "load" /\ ruleCalls[s].by # "nobody"
  /\ ruleShown' = ruleCalls[s].data
  /\ ruleCalls' = [ruleCalls EXCEPT ![s] = NoRuleCall]
  /\ HandlerEnds(ruleCalls[s].by)
  /\ UNCHANGED <<ruleStore, ruleIds, clouded>>

NobodyHears(s) ==
  /\ ruleCalls[s].at \in {"done", "failed"} /\ ruleCalls[s].by = "nobody"
  /\ ruleCalls' = [ruleCalls EXCEPT ![s] = NoRuleCall]
  /\ UNCHANGED <<ruleStore, ruleIds, ruleShown, pendingRule, loading, clouded>>

\* A timeout or a lost connection, after which the server may still do it.
LoseRuleCall(s) ==
  /\ ruleCalls[s].at \in {"sent", "done"} /\ ruleCalls[s].by # "nobody"
  /\ ruleCalls' = [ruleCalls EXCEPT ![s] =
       IF @.at = "sent" THEN [@ EXCEPT !.by = "nobody"] ELSE NoRuleCall]
  /\ IF ruleCalls[s].kind = "load" THEN HandlerEnds(ruleCalls[s].by)
     ELSE IF ruleCalls[s].by = "form" THEN loading' = FALSE /\ UNCHANGED pendingRule
     ELSE pendingRule' = 0 /\ UNCHANGED loading
  /\ clouded' = TRUE
  /\ UNCHANGED <<ruleStore, ruleIds, ruleShown>>

RuleNext ==
  \E s \in RuleSlots :
    \/ MountRules(s) \/ HandleCreateRule(s)
    \/ \E rule \in Rule : HandleToggleRule(s, rule) \/ HandleDeleteRule(s, rule)
    \/ ServeRule(s) \/ WriteWentWell(s) \/ WriteFailed(s) \/ Loaded(s) \/ NobodyHears(s)
    \/ LoseRuleCall(s)

-----------------------------------------------------------------------------
(* Properties.                                                             *)

RuleTypeOK ==
  /\ ruleStore \subseteq Rule /\ StoredIds \subseteq ruleIds /\ ruleIds \subseteq Rules
  /\ ruleShown \subseteq Rule
  /\ pendingRule \in Rules \cup {0}
  /\ ruleCalls \in [RuleSlots -> RuleCall \cup {NoRuleCall}]

\* "Evita peticiones duplicadas por doble clic": once nothing is on its way, the
\* page shows the rules the server has, each switched as it is there, unless a
\* creation overlapped with another handler, whose loads may then be answered in
\* the other order, or a call was lost or failed.  It holds again from the next
\* load that runs alone.
RulesShownAreStored == OnTheirWay = {} /\ ~clouded => ruleShown = ruleStore
=============================================================================

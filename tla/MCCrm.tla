------------------------------- MODULE MCCrm --------------------------------
(* Small instances of the CRM for TLC: the commands that create records,   *)
(* the files that are read of them, and the two pages of the lead console  *)
(* that write.  They share no state: part says which the behaviour is of.  *)
EXTENDS MCRecordCommands, TenantRecords, LeadConsole, RuleConsole, TLC

CONSTANTS MaxSends  \* bound on the calls the lead console sends
VARIABLES part, sends

InitCrm ==
  /\ part \in {"records", "files", "leads", "rules"}
  /\ sends = 0
  /\ RecordInit /\ TenantInit /\ LeadInit /\ RuleInit
  /\ given \in (IF part = "leads" THEN {{1}, Leads} ELSE {{}})
  /\ part # "rules" => ruleIds = {}

\* Bounds of the lead console: calls, and where there are two leads, all or none
\* selected, neither deleted nor created, and tokens that do not expire.
SentNow == {s \in Slots : calls'[s].at = "sent" /\ calls[s].at # "sent"}
WithinBounds ==
  /\ sends' = sends + Cardinality(SentNow) /\ sends' <= MaxSends
  /\ part = "leads" => \/ given = {1}
                       \/ /\ selected' \in {{}, Leads}
                          /\ \A s \in Slots : /\ calls'[s].kind \notin {"delete", "post"}
                                              /\ calls'[s].at = "denied" => ~calls[s].token

Records == part = "records" /\ RecordNext
  /\ UNCHANGED <<part, sends, tenantVars, leadVars, ruleVars>>
Files == part = "files" /\ TenantNext
  /\ UNCHANGED <<part, sends, recordVars, leadVars, ruleVars>>
LeadPages == part = "leads" /\ LeadNext /\ WithinBounds
  /\ UNCHANGED <<part, recordVars, tenantVars, ruleVars>>
RulePage == part = "rules" /\ RuleNext
  /\ UNCHANGED <<part, sends, recordVars, tenantVars, leadVars>>

NextCrm == Records \/ Files \/ LeadPages \/ RulePage
crmVars == <<part, sends, recordVars, tenantVars, leadVars, ruleVars>>
SpecCrm == InitCrm /\ [][NextCrm]_crmVars

\* The state of the part that runs has its type, a file shows what is on record,
\* and what a page reported or shows is what the server has: FilesAreOwnAndWhole,
\* SavedNotesStay and RulesShownAreStored say each with its exceptions.
PagesShowWhatIsStored ==
  /\ CASE part = "records" -> RecordTypeOK
       [] part = "files" -> TenantTypeOK
       [] part = "leads" -> LeadTypeOK
       [] part = "rules" -> RuleTypeOK
  /\ FilesAreOwnAndWhole /\ SavedNotesStay /\ RulesShownAreStored

InterchangeableInCrm == Permutations(Callers) \cup Permutations(CommandKeys)
=============================================================================

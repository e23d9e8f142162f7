----------------------------- MODULE MCServices -----------------------------
(* Small instances of the components that share no state with each other,  *)
(* in one run for TLC: part says which of them the behaviour is one of, so *)
(* that their state spaces add up and do not multiply.                     *)
EXTENDS MCMeetingScheduler, ChannelWebhooks, CircuitBreaker, ModelRouter,
        BrowserWorkers, NextBestAction, ConversationAgent, Research,
        MessageContracts, TLC

VARIABLE part
decidingVars == <<nbaVars, talkVars, researchVars, lastMessage>>

\* What is known of an opportunity, and of the one that stands still.
MCProfile(matched, signals, sendable, points, country, found) ==
  [matched |-> matched, criteria |-> 4, signals |-> signals, sendable |-> sendable,
   points |-> points, country |-> country, city |-> "none", evidence |-> found]
MCSignal(weight, hasEvidence) == [weight |-> weight, hasEvidence |-> hasEvidence]
MCUsual == MCProfile(4, <<MCSignal(180, TRUE)>>, 2, 2, "EC", 5)

Init ==
  /\ part \in {"meetings", "webhooks", "breaker", "router", "browser",
              "next", "talk", "research", "contracts"}
  /\ MeetingInit /\ WebhookInit /\ BreakerInit /\ RouterInit /\ BrowserInit
  /\ NbaInit /\ TalkInit /\ ResearchInit /\ ContractsInit
  /\ part # "next" => profile = MCUsual
  /\ part # "talk" => book = NoBook

Meetings == part = "meetings" /\ MeetingNext
  /\ UNCHANGED <<part, webhookVars, breakerVars, routerVars, browserVars, decidingVars>>
Webhooks == part = "webhooks" /\ WebhookNext
  /\ UNCHANGED <<part, meetingVars, breakerVars, routerVars, browserVars, decidingVars>>
Breaker == part = "breaker" /\ BreakerNext
  /\ UNCHANGED <<part, meetingVars, webhookVars, routerVars, browserVars, decidingVars>>
Router == part = "router" /\ RouterNext
  /\ UNCHANGED <<part, meetingVars, webhookVars, breakerVars, browserVars, decidingVars>>
Browser == part = "browser" /\ BrowserNext
  /\ UNCHANGED <<part, meetingVars, webhookVars, breakerVars, routerVars, decidingVars>>

Others == <<part, meetingVars, webhookVars, breakerVars, routerVars, browserVars>>
Deciding == part = "next" /\ NbaNext /\ UNCHANGED <<Others, talkVars, researchVars, lastMessage>>
Talking == part = "talk" /\ TalkNext /\ UNCHANGED <<Others, nbaVars, researchVars, lastMessage>>
Researching == part = "research" /\ ResearchNext /\ UNCHANGED <<Others, nbaVars, talkVars, lastMessage>>
Contracting == part = "contracts" /\ ContractsNext /\ UNCHANGED <<Others, nbaVars, talkVars, researchVars>>

Next == Meetings \/ Webhooks \/ Breaker \/ Router \/ Browser
        \/ Deciding \/ Talking \/ Researching \/ Contracting
vars == <<part, meetingVars, webhookVars, breakerVars, routerVars, browserVars, decidingVars>>
Spec == Init /\ [][Next]_vars

\* The state of the component that runs has its type.
TypeOK ==
  CASE part = "meetings" -> MeetingTypeOK
    [] part = "webhooks" -> WebhookTypeOK
    [] part = "breaker" -> BreakerTypeOK
    [] part = "router" -> RouterTypeOK
    [] part = "browser" -> BrowserTypeOK
    [] part = "next" -> NbaTypeOK
    [] part = "talk" -> TalkTypeOK
    [] part = "research" -> ResearchTypeOK
    [] part = "contracts" -> ContractsTypeOK

\* A message that arrives is applied once, and to what it is about: the events of a
\* channel and the messages of Core, n8n and the workers.
MessagesAreAppliedOnce == EventsApplyOnce /\ AcceptedMessagesCohere

\* What is decided, answered and asserted rests on what is known: the three packages
\* that turn knowledge into actions, of which at most one has concluded something.
ConclusionsAreBacked == NextActionsAreBacked /\ RepliesAreBacked /\ FactsAreBacked

-----------------------------------------------------------------------------

MCSources == <<"SEARXNG", "WEB_API", "BROWSER">>

\* An economy tier of a local and a remote model, then a dearer one.
MCCandidates == <<[tier |-> 1, est |-> 1, quality |-> 1, local |-> TRUE],
                  [tier |-> 1, est |-> 1, quality |-> 2, local |-> FALSE],
                  [tier |-> 2, est |-> 2, quality |-> 3, local |-> FALSE]>>
MCPolicies == {[quality |-> 0, localOnly |-> FALSE, confidence |-> 9],
               [quality |-> 2, localOnly |-> FALSE, confidence |-> 9],
               [quality |-> 0, localOnly |-> TRUE, confidence |-> 9]}
MCAnswers == {[amount |-> 0, isEstimate |-> FALSE, finish |-> "stop"],
              [amount |-> 0, isEstimate |-> TRUE, finish |-> "length"],
              [amount |-> 3, isEstimate |-> TRUE, finish |-> "content_filter"]}

\* The steps, scenarios, tasks and skills of the browser workers, one of each kind
\* that is valid and one that must not run.
MCLiteral(value) == [kind |-> "LITERAL", value |-> value]
MCNavigate(id, host) == [id |-> id, kind |-> "NAVIGATE", host |-> host]
MCOnElement(id, kind) ==
  [id |-> id, kind |-> kind, selector |-> {"testId", "text"}, expected |-> "done",
   input |-> [kind |-> "SECRET_REF", value |-> "vault"]]
MCScenario(id, steps) ==
  [id |-> id, allowedDomains |-> {"site"}, maxStepAttempts |-> 2, steps |-> steps]
MCBuying == MCScenario("buy", <<MCNavigate("go", "site"), MCOnElement("pay", "CLICK")>>)
MCUndoing == MCScenario("undo", <<MCOnElement("back", "CLICK")>>)
MCScenarios ==
  {MCBuying, MCUndoing,
   MCScenario("login", <<MCOnElement("in", "TYPE"), MCOnElement("seen", "ASSERT_TEXT"),
                         MCNavigate("on", "elsewhere")>>),
   MCScenario("leak", <<[MCOnElement("in", "TYPE") EXCEPT !.input = MCLiteral("credential")]>>),
   MCScenario("vague", <<[MCOnElement("in", "WAIT_FOR") EXCEPT !.selector = {"text"}]>>)}

MCTaskStep(id, risk, kind) ==
  [id |-> id, riskLevel |-> risk, kind |-> kind, target |-> "field",
   input |-> [kind |-> "SECRET_REF", value |-> "vault"]]
MCTask(id, limit) ==
  [id |-> id, organizationId |-> "acme", allowedDomains |-> {"site"}, maxSteps |-> limit,
   steps |-> <<MCTaskStep("fill", "LOW", "TYPE"), MCTaskStep("send", "HIGH", "MOVE_CLICK")>>]
MCComputerTasks == {MCTask("form", 2), MCTask("long", 1)}
MCProof(by, organization, expiresAt) ==
  [taskId |-> "form", stepId |-> "send", organizationId |-> organization, approvedBy |-> by,
   expiresAt |-> expiresAt]
MCProofs == {MCProof("boss", "acme", {}), MCProof("boss", "acme", {1}), MCProof("asker", "acme", {}),
             MCProof("boss", "rival", {})}

MCTool(actions) ==
  [id |-> "shop", requiredCapability |-> "jobs.execute", allowedActions |-> actions,
   allowedDomains |-> {"site"}]
MCTools == {MCTool({"click"}), MCTool({"click", "type"})}
MCSkill(id, kind, given, rollback, validations) ==
  [id |-> id, targetToolId |-> "shop", builtAgainst |-> ToolContractFingerprint(MCTool({"click"})),
   inputs |-> {"amount"}, preconditions |-> 1, validations |-> validations,
   procedure |-> [kind |-> kind, work |-> given], rollback |-> rollback]
MCUndo == <<[kind |-> "PLAYWRIGHT", work |-> MCUndoing]>>
MCSkills == {MCSkill("shopping", "PLAYWRIGHT", MCBuying, MCUndo, 2),
             MCSkill("filling", "COMPUTER_USE", MCTask("form", 2), MCUndo, 1),
             MCSkill("once", "PLAYWRIGHT", MCUndoing, <<>>, 1),
             MCSkill("blind", "PLAYWRIGHT", MCBuying, <<>>, 0)}

\* A good opportunity, one without a usable point, a bad one and one in between.
MCProfiles ==
  {MCUsual, MCProfile(4, <<MCSignal(180, TRUE)>>, 0, 2, "EC", 5), MCProfile(0, <<>>, 1, 4, "CL", 0),
   MCProfile(2, <<MCSignal(90, TRUE), MCSignal(180, FALSE)>>, 1, 4, "PE", 0)}
MCCountryPriority == [EC |-> 180, PE |-> 153]
MCCityPriority == <<>>

\* One that sells, one that will and says too much, one withdrawn, one without the product.
MCBook(status, from, to, sells, wording) ==
  [status |-> status, from |-> from, to |-> to, sells |-> sells, wording |-> wording]
MCBooks ==
  {MCBook("ACTIVE", 0, 2, TRUE, {}), MCBook("ACTIVE", 1, NeverEnds, TRUE, {"FALSE_URGENCY"}),
   MCBook("ARCHIVED", 0, NeverEnds, TRUE, {}), MCBook("ACTIVE", 0, 1, FALSE, {})}
MCMessages == {message \in SUBSET Patterns : Cardinality(message) <= 3}

\* The second writes its stamps with another offset.
MCEvidenceSources ==
  [site |-> [type |-> "OFFICIAL_WEBSITE", trusted |-> FALSE, directory |-> FALSE, zone |-> 0],
   paper |-> [type |-> "NEWS", trusted |-> FALSE, directory |-> FALSE, zone |-> 1]]
MCCachePolicy == [default |-> 2, claims |-> [EMPLOYEE_COUNT |-> 1], sources |-> [NEWS |-> 0]]

Interchangeable == Permutations(Clients) \cup Permutations(BookingKeys)
=============================================================================

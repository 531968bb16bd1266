------------------------------ MODULE AgentOps ------------------------------
(***************************************************************************)
(* What is recorded of a copilot answer and of a plan, and how the         *)
(* recorded runs are evaluated: against a scenario, in a reliability       *)
(* summary, and in a comparison of earlier with later runs.  A ratio is a  *)
(* pair of a count and what it is a count of; it is absent when the second *)
(* is zero.                                                                *)
(***************************************************************************)
EXTENDS Policy, SequencesExt

CONSTANT NoFailure
ASSUME FailureAssumption == NoFailure \notin FailureType

Risk(tool) ==
  CASE tool \in ReadTools   -> "read_only"
    [] tool \in ReviewTools -> "review_action"
    [] tool = "process_document" -> "operator_action"
    [] OTHER -> "admin_action"

Intent(request) ==
  IF request.execute # NoTool THEN "execute_controlled_tool" ELSE SelectTool(request)

\* What is recorded of a run.  expected: the tool the request expected, if it said so.
CopilotRun(request, expected, caller, db) ==
  LET reply   == Reply(request, caller, db)
      refused == reply.status # "success"
      failure == IF reply.failure = "none" THEN NoFailure ELSE reply.failure
  IN [intent |-> Intent(request), expected |-> expected, selected |-> SelectTool(request),
      failure |-> IF Permitted(request, caller) THEN failure ELSE "permission_denied",
      escalated |-> refused,
      confidence |-> CASE ~Permitted(request, caller) \/ reply.status = "confirmation_required" -> "medium"
                       [] Permitted(request, caller) /\ reply.status = "success" -> "high"
                       [] OTHER -> "low",
      \* A message that speaks of a change is noted as blocked, unless a tool was named.
      blocked |-> IF "mutation" \in request.topics /\ request.execute = NoTool THEN 1 ELSE 0,
      traces |-> <<[risk |-> Risk(reply.tool), failure |-> failure, escalated |-> refused]>>,
      version |-> "deterministic-v1"]

PlanRun(item, inputs, caller) ==
  LET plan    == Plan(item, inputs, caller)
      mapped  == {i \in DOMAIN plan.steps : ActionTool(plan.steps[i].action) # NoTool}
  IN [intent |-> "backoffice_plan_and_recommendation", expected |-> NoTool,
      selected |-> IF mapped = {} THEN NoTool ELSE ActionTool(plan.steps[Min(mapped)].action),
      failure |-> NoFailure, escalated |-> plan.escalated,
      confidence |-> CASE ~inputs.evidence -> "low"
                       [] inputs.evidence /\ ~inputs.missing /\ item.docs # << >> -> "high"
                       [] OTHER -> "medium",
      blocked |-> Cardinality({i \in DOMAIN plan.steps : plan.steps[i].status = "blocked"}),
      traces |-> << >>, version |-> "deterministic-backoffice-v1"]

----------------------------------------------------------------------------
(* The evaluation of one run.                                               *)

\* The failure of a run, at 0, and those of its traces; and where there is one.
Recorded(run) ==
  [i \in 0..Len(run.traces) |-> IF i = 0 THEN run.failure ELSE run.traces[i].failure]
FailuresOf(run) == {i \in DOMAIN Recorded(run) : Recorded(run)[i] # NoFailure}

Score(confidence) == CASE confidence = "high" -> 2 [] confidence = "medium" -> 1 [] OTHER -> 0   \* halves

EvaluateRun(run) ==
  LET failures == FailuresOf(run)
  IN [evaluated |-> run.expected # NoTool,
      correct   |-> run.expected # NoTool /\ run.expected = run.selected,
      failure   |-> IF failures = {} THEN NoFailure ELSE Recorded(run)[Min(failures)],
      escalated |-> run.escalated \/ \E i \in DOMAIN run.traces : run.traces[i].escalated,
      score     |-> Score(run.confidence),
      success   |-> failures = {}]

Outcome(run) ==
  LET e == EvaluateRun(run)
  IN CASE run.blocked > 0 -> "blocked"
       [] run.blocked = 0 /\ e.escalated ->
            IF e.failure = "confirmation_required" THEN "confirmation_required" ELSE "human_escalation"
       [] OTHER -> IF e.failure # NoFailure THEN "safe_failure" ELSE "success"

ScenarioPassed(scenario, run) ==
  LET e == EvaluateRun(run)
  IN /\ run.intent = scenario.intent
     /\ IF scenario.tool = "blocked_action" THEN run.blocked > 0 ELSE run.selected = scenario.tool
     /\ IF scenario.risk = "blocked" THEN run.blocked > 0
        ELSE \E i \in DOMAIN run.traces : run.traces[i].risk = scenario.risk
     /\ \/ Outcome(run) = scenario.outcome
        \/ scenario.outcome = "confirmation_required_or_success"
             /\ Outcome(run) \in {"confirmation_required", "success"}
     /\ e.failure = scenario.failure
     /\ e.escalated = scenario.escalate

\* The scenarios of the dataset, on document d: whose request it is, the status of
\* the document it is made for, and what is expected of the run.
Scenario(role, status, request, intent, tool, outcome, failure, escalate) ==
  [role |-> role, status |-> status, request |-> request, intent |-> intent, tool |-> tool,
   risk |-> IF tool = "blocked_action" THEN "blocked" ELSE Risk(tool),
   outcome |-> outcome, failure |-> failure, escalate |-> escalate]
Asks(topics, document, execute) ==
  [topics |-> topics, document |-> document, execute |-> execute, confirmed |-> FALSE]

Expect(role, status, request, tool) ==
  Scenario(role, status, request, tool, tool, "success", NoFailure, FALSE)
ExpectConfirmation(role, status, request, tool) ==
  Scenario(role, status, request, "execute_controlled_tool", tool,
           "confirmation_required_or_success", "confirmation_required", TRUE)

Scenarios(d) ==
  {Expect("admin", Absent, Asks({"metrics"}, NoDocument, NoTool), "get_metrics_summary"),
   Expect("reviewer", "needs_review", Asks({"review"}, NoDocument, NoTool), "list_review_queue"),
   Expect("admin", "needs_review", Asks({"documents"}, d, NoTool), "get_document_detail"),
   Expect("operator", "queued", Asks({}, d, NoTool), "get_document_detail"),
   ExpectConfirmation("operator", "queued", Asks({"mutation", "documents"}, d, "process_document"), "process_document"),
   ExpectConfirmation("admin", "approved", Asks({"mutation", "documents"}, d, "export_approved_csv"), "export_approved_csv")}

\* Those no answer to their own message can meet: no route has the first's intent, an
\* escalation is not recorded as the second's safe_failure, and the third says "approve".
UnmetScenarios(d) ==
  {Scenario("admin", Absent, Asks({"readiness", "mutation", "documents"}, NoDocument, NoTool),
            "blocked_request", "blocked_action", "blocked", "permission_denied", TRUE),
   Scenario("admin", "approved", Asks({"documents"}, d, NoTool), "get_document_detail", "get_document_detail",
            "safe_failure", "workspace_boundary_violation", TRUE),
   Scenario("reviewer", "needs_review", Asks({"mutation", "documents"}, d, NoTool), "get_document_detail",
            "get_document_detail", "human_escalation", "insufficient_evidence", TRUE)}

----------------------------------------------------------------------------
(* Summaries of a sequence of runs, the latest first.                       *)

Newest(runs, limit) == SubSeq(runs, 1, Min({limit, Len(runs)}))

Ratio(part, whole) == <<part, whole>>
Absence == <<0, 0>>

CountAt(runs, places, P(_)) == Cardinality({i \in places : P(EvaluateRun(runs[i]))})
CountRuns(runs, P(_)) == CountAt(runs, DOMAIN runs, P)
SumScores(runs, places) == SumFunction([i \in places |-> EvaluateRun(runs[i]).score])

FailureTrend(runs, limit) ==
  LET recent == Newest(runs, limit)
      times(f) == SumFunction([i \in DOMAIN recent |->
                    Cardinality({j \in FailuresOf(recent[i]) : Recorded(recent[i])[j] = f})])
  IN [f \in UNION {{Recorded(recent[i])[j] : j \in FailuresOf(recent[i])} : i \in DOMAIN recent} |-> times(f)]

VersionMetrics(runs) ==
  [v \in {runs[i].version : i \in DOMAIN runs} |->
     LET group == {i \in DOMAIN runs : runs[i].version = v}
     IN [total     |-> Cardinality(group),
         accuracy  |-> Ratio(CountAt(runs, group, LAMBDA e : e.correct), CountAt(runs, group, LAMBDA e : e.evaluated)),
         escalated |-> CountAt(runs, group, LAMBDA e : e.escalated),
         score     |-> SumScores(runs, group)]]

Summarize(runs, limit) ==
  LET total == Len(runs)
      failures == {EvaluateRun(runs[i]).failure : i \in DOMAIN runs} \ {NoFailure}
      blocked == Cardinality({i \in DOMAIN runs : runs[i].blocked > 0})
  IN [total      |-> total,
      accuracy   |-> Ratio(CountRuns(runs, LAMBDA e : e.correct), CountRuns(runs, LAMBDA e : e.evaluated)),
      prevention |-> Ratio(blocked, blocked),
      completion |-> Ratio(CountRuns(runs, LAMBDA e : e.success), total),
      escalation |-> Ratio(CountRuns(runs, LAMBDA e : e.escalated), total),
      confidence |-> Ratio(SumScores(runs, DOMAIN runs), 2 * total),
      failures   |-> [f \in failures |-> CountRuns(runs, LAMBDA e : e.failure = f)],
      trend      |-> FailureTrend(runs, limit),
      versions   |-> VersionMetrics(runs)]

Metrics == {"accuracy", "prevention", "completion", "escalation", "confidence"}

Less(a, b) == a # Absence /\ b # Absence /\ a[1] * b[2] < b[1] * a[2]

CompareRegression(previous, current) ==
  LET better(m) == IF m = "escalation" THEN Less(current[m], previous[m]) ELSE Less(previous[m], current[m])
      worse(m)  == IF m = "escalation" THEN Less(previous[m], current[m]) ELSE Less(current[m], previous[m])
  IN [improved |-> {m \in Metrics : better(m)}, regressed |-> {m \in Metrics : worse(m)}]

Regression(runs, previous, current) ==
  LET recent == Newest(runs, previous + current)
  IN CompareRegression(Summarize(SubSeq(recent, current + 1, Min({current + previous, Len(recent)})), 10),
                       Summarize(Newest(recent, current), 10))

----------------------------------------------------------------------------
(* The evaluation of a plan.                                                *)

\* Found one by one, each after the one before.
After(actual, start, action) ==
  LET later == {i \in DOMAIN actual : i > start /\ actual[i] = action}
  IN IF later = {} THEN Len(actual) + 1 ELSE Min(later)
Found(actual, expected) ==
  FoldLeft(LAMBDA start, action : After(actual, start, action), 0, expected)
ContainsInOrder(actual, expected) == Found(actual, expected) <= Len(actual)

RequiresHuman(plan) ==
  plan.escalated \/ \E i \in DOMAIN plan.steps : plan.steps[i].approval

----------------------------------------------------------------------------
(* What recorded runs say of what happened.                                 *)

\* A run recorded as blocked moved nothing, one that moved something is a success,
\* and whoever was refused for the role is recorded as such.
RunsTellWhatHappened(request, caller, db) ==
  LET run   == CopilotRun(request, NoTool, caller, db)
      reply == Reply(request, caller, db)
  IN /\ reply.moved # {} => Outcome(run) = "success"
     /\ Outcome(run) = "success" => reply.status = "success"
     /\ EvaluateRun(run).success <=> reply.status = "success"
     /\ ~Permitted(request, caller) <=> EvaluateRun(run).failure = "permission_denied"
     /\ Outcome(run) # "safe_failure"

\* The parts of a summary add up, and the trend names each failure the runs have.
SummaryAddsUp(runs) ==
  LET s == Summarize(runs, Len(runs))
  IN /\ SumFunction(s.failures) + s.completion[1] = s.total
     /\ DOMAIN s.failures \subseteq DOMAIN s.trend
     /\ \A f \in DOMAIN s.failures : s.trend[f] >= s.failures[f]
     /\ SumFunction([v \in DOMAIN s.versions |-> s.versions[v].total]) = s.total
     /\ SumFunction([v \in DOMAIN s.versions |-> s.versions[v].accuracy[2]]) = s.accuracy[2]

\* No metric is better and worse at once, and turning the comparison round turns its verdict round.
RegressionTurnsRound(runs, previous, current) ==
  LET forth == Regression(runs, previous, current)
      turned == SubSeq(runs, current + 1, Min({current + previous, Len(runs)})) \o Newest(runs, current)
      back  == Regression(turned, current, previous)
  IN /\ forth.improved \intersect forth.regressed = {}
     /\ current + previous <= Len(runs) => back.improved = forth.regressed

\* The decisions recorded for a plan contain its steps in order, after those of an earlier plan too.
PlanContainsItsSteps(item, inputs, caller) ==
  LET steps   == Plan(item, inputs, caller).steps
      actions == [i \in DOMAIN steps |-> steps[i].action]
      embeds(actual, expected) ==
        \E f \in [DOMAIN expected -> DOMAIN actual] :
          /\ \A i \in DOMAIN expected : actual[f[i]] = expected[i]
          /\ \A i, j \in DOMAIN expected : i < j => f[i] < f[j]
  IN \A earlier \in {<< >>, <<"inspect_queue">>, Tail(actions), Reverse(actions)} :
       /\ ContainsInOrder(earlier \o actions, actions)
       /\ ContainsInOrder(earlier, actions) <=> embeds(earlier, actions)

\* A plan recorded as a success blocked no step and escalated nothing; a plan that
\* needs a human escalates, or has a step that waits for one or is blocked.
PlanRunsTell(item, inputs, caller) ==
  LET plan == Plan(item, inputs, caller)
      are(statuses) == \E i \in DOMAIN plan.steps : plan.steps[i].status \in statuses
  IN /\ Outcome(PlanRun(item, inputs, caller)) = "success" => ~plan.escalated /\ ~are({"blocked"})
     /\ RequiresHuman(plan) => plan.escalated \/ are({"waiting_for_approval", "blocked"})
     /\ are({"waiting_for_approval"}) => RequiresHuman(plan)

\* The copilot meets a scenario of the dataset that is made for this caller and this
\* document, but for three: those, whatever the caller and the document are, it never meets.
ScenariosAreMet(d, caller, db) ==
  LET passes(s) == ScenarioPassed(s, CopilotRun(s.request, NoTool, caller, db))
  IN /\ \A s \in Scenarios(d) :
          /\ s.role = caller.role /\ HonestRole(caller)
          /\ s.status \in {Absent, db.doc[d].status} /\ db.doc[d].home = caller.workspace
          => passes(s)
     /\ \A s \in UnmetScenarios(d) : ~passes(s)
=============================================================================

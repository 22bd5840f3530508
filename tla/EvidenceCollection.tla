------------------------- MODULE EvidenceCollection -------------------------
(***************************************************************************)
(* The state of one diagnosis (AgentState, LLMAgentState) and the node     *)
(* that both agents share: the tool calls of the plan, each of which ends  *)
(* with evidence or with a failure (tool_executor.py), within a budget.    *)
(* Extended by the modules of the two agents.                              *)
(***************************************************************************)
EXTENDS EvidenceGovernance, FiniteSetsExt

\* What a diagnosis is given: the alerts, the kinds of service names, the log
\* messages and the tool-call budgets (max_tool_calls) under study.
CONSTANTS Alerts, Services, Patterns, Budgets,
          MaxPatterns   \* bound on the kinds of messages that one log query finds

Alert == {"P95_LATENCY_HIGH", "ERROR_RATE_HIGH", "THROUGHPUT_LOW", "MQ_LAG_HIGH"}
\* What the rules tell apart in a service name.
Service == {"order", "inventory", "payment", "other"}
\* The kinds of messages that the log rules look for.
Pattern == {"slow", "pool", "redis", "downstream", "resource", "mq", "config", "npe"}

ASSUME CollectionAssumption ==
    /\ Alerts \subseteq Alert
    /\ Services \subseteq Service
    /\ Patterns \subseteq Pattern
    /\ Budgets \subseteq Nat
    /\ MaxPatterns \in Nat

VARIABLES alert,       \* incident.alert_type
          service,     \* incident.service
          budget,      \* max_tool_calls
          node,        \* the node that runs next
          used,        \* tool_calls_used
          plan,        \* investigation_plan.steps
          evidence,    \* the evidence collected
          failures,    \* tool_failures: the tools that failed, or "budget"
          hypotheses,  \* hypotheses, the report's top_causes in the end
          report,      \* final_report.status, "none" before
          incident     \* incident.status

inputs == <<alert, service, budget>>
vars == <<inputs, node, used, plan, evidence, failures, hypotheses, report, incident>>

Metric == {"request_rate", "error_rate", "latency_p50", "latency_p95", "jvm_threads_active",
           "db_pool_active_ratio", "redis_latency_p95", "downstream_latency_p95", "mq_lag"}
Tool == {"query_logs", "query_metrics", "query_deployments", "search_runbooks"}

\* A plan step: metric is "none" for the other tools, and target tells
\* whether the step is about the incident's service.
Logs == [tool |-> "query_logs", metric |-> "none", target |-> "own"]
Deployments == [tool |-> "query_deployments", metric |-> "none", target |-> "own"]
Measure(m) == [tool |-> "query_metrics", metric |-> m, target |-> "own"]

\* "low" is below 0.7 for the pool, "high" beyond the metric's rule.
Levels(m) ==
    CASE m = "db_pool_active_ratio" -> {"low", "normal", "high"}
      [] m = "request_rate" -> {"normal"}
      [] OTHER -> {"normal", "high"}

\* The latest deployment: none within 4 hours, one, or one whose changes
\* mention an error.
Release == {"old", "recent", "faulty"}

\* What a successful call of a step can return; the executor refuses a
\* metric that is not whitelisted.
Results(step, id) ==
    CASE step.tool = "query_logs" ->
            {[id |-> id, tool |-> "query_logs", patterns |-> p] :
                p \in UNION {kSubset(k, Patterns) : k \in 0..MaxPatterns}}
      [] step.tool = "query_metrics" ->
            {[id |-> id, tool |-> "query_metrics", metric |-> step.metric, level |-> l] :
                l \in IF step.metric \in Metric THEN Levels(step.metric) ELSE {}}
      [] step.tool = "query_deployments" ->
            {[id |-> id, tool |-> "query_deployments", release |-> r] : r \in Release}
      [] step.tool = "search_runbooks" ->
            {[id |-> id, tool |-> "search_runbooks"]}

AgentInit ==
    /\ alert \in Alerts
    /\ service \in Services
    /\ budget \in Budgets
    /\ node = "load"
    /\ used = 0
    /\ plan = <<>>
    /\ evidence = <<>>
    /\ failures = <<>>
    /\ hypotheses = <<>>
    /\ report = "none"
    /\ incident = "OPEN"

-----------------------------------------------------------------------------
\* The steps of the plan that were executed.
Taken == Len(evidence) + Len(failures)

\* Seeded fault: the budget is checked once too late.
CallToolOverBudget ==
    /\ node = "collect"
    /\ Taken < Len(plan)
    /\ used <= budget
    /\ used' = used + 1
    /\ \/ \E e \in Results(plan[Taken + 1], used + 1) :
             evidence' = Append(evidence, e) /\ UNCHANGED failures
       \/ failures' = Append(failures, plan[Taken + 1].tool) /\ UNCHANGED evidence
    /\ UNCHANGED <<inputs, node, plan, hypotheses, report, incident>>

\* One tool call: it returns, or fails by validation, timeout or exception.
CallTool ==
    /\ node = "collect"
    /\ Taken < Len(plan)
    /\ used < budget
    /\ used' = used + 1
    /\ \/ \E e \in Results(plan[Taken + 1], used + 1) :
             evidence' = Append(evidence, e) /\ UNCHANGED failures
       \/ failures' = Append(failures, plan[Taken + 1].tool) /\ UNCHANGED evidence
    /\ UNCHANGED <<inputs, node, plan, hypotheses, report, incident>>

\* Seeded fault: the exhausted budget is not reported.
StopCollectingSilently ==
    /\ node = "collect"
    /\ Taken = Len(plan) \/ used >= budget
    /\ node' = "build"
    /\ UNCHANGED <<inputs, used, plan, evidence, failures, hypotheses, report, incident>>

StopCollecting ==
    /\ node = "collect"
    /\ \/ Taken = Len(plan) /\ UNCHANGED failures
       \/ Taken < Len(plan) /\ used >= budget /\ failures' = Append(failures, "budget")
    /\ node' = "build"
    /\ UNCHANGED <<inputs, used, plan, evidence, hypotheses, report, incident>>

\* The node that checks the hypotheses' references and ranks them again.
ValidateEvidence ==
    /\ node = "validate"
    /\ hypotheses' = FilterWithoutEvidence(DropUnknownReferences(hypotheses, evidence))
    /\ node' = "report"
    /\ UNCHANGED <<inputs, used, plan, evidence, failures, report, incident>>

-----------------------------------------------------------------------------
\* The variables hold what the code can store.
TypeOK ==
    /\ alert \in Alert
    /\ service \in Service
    /\ budget \in Budgets
    /\ node \in {"load", "topology", "plan", "collect", "build", "verify",
                 "validate", "report", "done", "raised"}
    /\ used \in Nat
    /\ \A i \in DOMAIN plan : plan[i].tool \in Tool
    /\ \A i \in DOMAIN evidence : evidence[i].id \in 1..used /\ evidence[i].tool \in Tool
    /\ \A i \in DOMAIN failures : failures[i] \in Tool \cup {"budget"}
    /\ Len(hypotheses) <= 3
    /\ \A i \in DOMAIN hypotheses : IsHypothesis(hypotheses[i])
    /\ report \in {"none", "DIAGNOSED", "INCONCLUSIVE", "FAILED"}
    /\ incident \in {"OPEN", "INVESTIGATING", "DIAGNOSED", "INCONCLUSIVE"}

\* No diagnosis makes more tool calls than its budget, whatever fails.
BudgetIsKept == used <= budget

\* A reader of the report can tell what was not looked at: every step of the
\* plan left evidence or a failure, or the report says the budget ran out.
ShortfallIsReported ==
    report # "none" =>
        Taken = Len(plan) \/ \E i \in DOMAIN failures : failures[i] = "budget"

\* The ranks of the report are its order, its causes are distinct, and no
\* cause without evidence stands before one with evidence.
ReportIsRanked ==
    report # "none" =>
        \A i, j \in DOMAIN hypotheses :
            /\ hypotheses[i].rank = i
            /\ i < j => /\ hypotheses[i].cause # hypotheses[j].cause
                        /\ Backed(hypotheses[j]) => Backed(hypotheses[i])
=============================================================================

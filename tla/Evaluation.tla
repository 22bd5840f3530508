----------------------------- MODULE Evaluation -----------------------------
(***************************************************************************)
(* The evaluation of the rule-based agent (evaluation/*.py): a fresh agent *)
(* for every case, over tools that answer for the case's fault             *)
(* (fake_tools.py), whose report is scored against the known cause.  The   *)
(* optional LLM scores are those of an unavailable model, whose agent      *)
(* falls back on a rule-based agent with its own tools.                    *)
(*                                                                         *)
(* The fake answers are given by what the rules read in them: the patterns *)
(* of the log messages, the metrics beyond their rule's threshold, the age *)
(* of the deployment.  The runbooks are never read by this agent.          *)
(***************************************************************************)
EXTENDS DiagnosisPipeline

CONSTANT CaseLists   \* the lists of cases that the experiments are called with

VARIABLES study,     \* the evaluation or the experiment that is running
          cases,     \* the cases it iterates over
          scores,    \* one score for each diagnosis so far
          summary    \* the published numbers, <<>> before

evalVars == <<study, cases, scores, summary>>

-----------------------------------------------------------------------------
(* The dataset.                                                            *)

\* third and fourth: the variants after the clean and the noisy one.
Template(fault, svc, alarm, expected, forbidden, third, fourth) ==
    [fault |-> fault, service |-> svc, alert |-> alarm, expected |-> expected,
     forbidden |-> forbidden, variants |-> <<"clean", "noisy", third, fourth>>]

Slow == "DATABASE_SLOW_QUERY"
Redis == "REDIS_TIMEOUT"
Downstream == "DOWNSTREAM_SERVICE_FAILURE"
Resource == "RESOURCE_EXHAUSTION"
Spike == "APPLICATION_ERROR_SPIKE"

Templates ==
    <<Template("mysql-slow-query", "order", "P95_LATENCY_HIGH", Slow, Redis,
               "deploy", "search_runbooks"),
      Template("mysql-connection-pool", "order", "ERROR_RATE_HIGH", Pool, Redis,
               "deploy", "wrong runbook"),
      Template("redis-timeout", "inventory", "P95_LATENCY_HIGH", Redis, Slow,
               "query_deployments", "deploy"),
      Template("redis-hot-key", "inventory", "P95_LATENCY_HIGH", Redis, Slow,
               "wrong runbook", "search_runbooks"),
      Template("downstream-payment-timeout", "payment", "P95_LATENCY_HIGH", Downstream, Slow,
               "deploy", "query_logs"),
      Template("downstream-payment-5xx", "payment", "ERROR_RATE_HIGH", Downstream, Slow,
               "deploy", "wrong runbook"),
      Template("http-connection-pool", "order", "THROUGHPUT_LOW", Resource, Redis,
               "query_metrics", "deploy"),
      Template("thread-pool-full", "inventory", "THROUGHPUT_LOW", Resource, Slow,
               "wrong runbook", "search_runbooks"),
      Template("config-error", "order", "ERROR_RATE_HIGH", Spike, Redis,
               "deploy", "query_deployments"),
      Template("deployment-npe", "order", "ERROR_RATE_HIGH", Regression, Slow,
               "wrong runbook", "query_logs"),
      Template("rate-limit-triggered", "order", "THROUGHPUT_LOW", Resource, Redis,
               "deploy", "query_metrics"),
      Template("mq-consumer-lag", "inventory", "MQ_LAG_HIGH", "MQ_CONSUMER_ERROR", Slow,
               "wrong runbook", "search_runbooks")>>

\* A case is a template and what disturbs it.
Case(template, disturbed) == [template |-> template, disturbed |-> disturbed]

\* Four variants of each template.
Dataset ==
    [n \in 1..4 * Len(Templates) |->
        LET template == Templates[(n - 1) \div 4 + 1]
        IN  Case(template, {template.variants[((n - 1) % 4) + 1]} \ {"clean"})]

\* What a list of cases can hold: any template, disturbed in any way.
Disturbance == Tool \cup {"noisy", "deploy", "wrong runbook"}
CaseSet == [template : ToSet(Templates), disturbed : SUBSET Disturbance]

\* The agents that are created have the default budget, 10; the longest plan
\* and the topology need 5.
ASSUME EvaluationAssumption ==
    /\ \A list \in CaseLists : list \in Seq(CaseSet) /\ list # <<>>
    /\ \A t \in ToSet(Templates) : t.alert \in Alerts /\ t.service \in Services
    /\ \A b \in Budgets : b >= 5

-----------------------------------------------------------------------------
(* The fake tools.                                                         *)

\* The scenarios whose log messages match a pattern.  The scenario of the
\* fallback, "mysql_slow_query", has tables of its own.
LogScenario ==
    [slow |-> {"mysql_slow_query", "mysql-slow-query"},
     pool |-> {"mysql_slow_query", "mysql-slow-query", "mysql-connection-pool"},
     redis |-> {"redis-timeout", "redis-hot-key"},
     downstream |-> {"downstream-payment-timeout", "downstream-payment-5xx",
                     "http-connection-pool"},
     resource |-> {"http-connection-pool", "thread-pool-full", "rate-limit-triggered"},
     mq |-> {"mq-consumer-lag"},
     config |-> {"config-error"},
     npe |-> {"deployment-npe"}]

MessagesIn(scenario) == {p \in Pattern : scenario \in LogScenario[p]}

\* The scenarios that put a metric beyond the threshold of its rule;
\* "mysql-slow-query" is no key of the code's table and gets its default, an
\* error rate of 0.6.
MetricsScenario ==
    [db_pool_active_ratio |-> {"mysql_slow_query", "mysql-connection-pool"},
     latency_p95 |-> {"mysql_slow_query", "redis-timeout", "redis-hot-key",
                      "downstream-payment-timeout"},
     error_rate |-> {"mysql_slow_query", "mysql-slow-query", "mysql-connection-pool",
                     "downstream-payment-5xx", "config-error", "deployment-npe"},
     redis_latency_p95 |-> {"redis-timeout", "redis-hot-key"},
     downstream_latency_p95 |-> {"downstream-payment-timeout"},
     mq_lag |-> {"mq-consumer-lag"}]

\* A metric that the scenario does not give is 0.0, below the pool's 0.7.
LevelIn(scenario, m) ==
    IF m \in DOMAIN MetricsScenario /\ scenario \in MetricsScenario[m] THEN "high"
    ELSE IF m = "db_pool_active_ratio" THEN "low" ELSE "normal"

ReleaseIn(c, scenario) ==
    CASE scenario = "deployment-npe" -> "faulty"
      [] scenario # "deployment-npe" /\ "deploy" \in c.disturbed -> "recent"
      [] OTHER -> "old"

\* Seeded fault: every case is answered with the same MySQL evidence.
MySQLAnswer(c, scenario, step, id) ==
    CASE step.tool = "query_logs" ->
            [id |-> id, tool |-> "query_logs", patterns |-> MessagesIn("mysql_slow_query")]
      [] step.tool = "query_metrics" ->
            [id |-> id, tool |-> "query_metrics", metric |-> step.metric,
             level |-> LevelIn("mysql_slow_query", step.metric)]
      [] step.tool = "query_deployments" ->
            [id |-> id, tool |-> "query_deployments", release |-> "old"]

Answer(c, scenario, step, id) ==
    CASE step.tool = "query_logs" ->
            [id |-> id, tool |-> "query_logs", patterns |-> MessagesIn(scenario)]
      [] step.tool = "query_metrics" ->
            [id |-> id, tool |-> "query_metrics", metric |-> step.metric,
             level |-> LevelIn(scenario, step.metric)]
      [] step.tool = "query_deployments" ->
            [id |-> id, tool |-> "query_deployments", release |-> ReleaseIn(c, scenario)]

-----------------------------------------------------------------------------
(* The loop over the cases.                                                *)

Experiment == {"raw or tools", "runbooks", "verification", "logs"}

\* The agents that diagnose each case, in turn.
Agents == CASE study = "evaluation" -> <<"rules">>
            [] study = "LLM evaluation" -> <<"rules", "fallback">>
            [] study = "raw or tools" -> <<"raw", "rules">>
            [] OTHER -> <<"rules">>

Turns == Len(cases) * Len(Agents)
Turn(n) == [case |-> cases[(n - 1) \div Len(Agents) + 1],
            agent |-> Agents[((n - 1) % Len(Agents)) + 1]]
Current == Turn(Len(scores) + 1)
Diagnosing == Len(scores) < Turns

\* The raw agent is created like the others, tools and all.
Scenario(turn) ==
    IF turn.agent = "fallback" THEN "mysql_slow_query" ELSE turn.case.template.fault
Unavailable(turn, tool) == turn.agent # "fallback" /\ tool \in turn.case.disturbed

EvalInit ==
    /\ \/ study \in {"evaluation", "LLM evaluation"} /\ cases = Dataset
       \/ study \in Experiment /\ cases \in CaseLists
    /\ scores = <<>>
    /\ summary = <<>>
    /\ AgentInit
    /\ alert = cases[1].template.alert
    /\ service = cases[1].template.service

\* parse_incident and create_agent_for_case, for the next diagnosis.
CreateAgent(turn) ==
    /\ alert' = turn.case.template.alert
    /\ service' = turn.case.template.service
    /\ node' = "load" /\ report' = "none" /\ incident' = "OPEN"
    /\ used' = 0 /\ plan' = <<>> /\ evidence' = <<>> /\ failures' = <<>> /\ hypotheses' = <<>>
    /\ UNCHANGED budget

\* The executor answers with the tools of the case.
CallFakeTool ==
    /\ Diagnosing
    /\ CallTool
    /\ LET step == plan[Taken + 1]
       IN  IF Unavailable(Current, step.tool) THEN failures' # failures
           ELSE evidence' = Append(evidence, Answer(Current.case, Scenario(Current), step, used + 1))
    /\ UNCHANGED evalVars

\* The fake deployment is dated now, so it does not age during a diagnosis.
VerifyFresh ==
    /\ Diagnosing
    /\ VerifyHypotheses
    /\ hypotheses' = DemoteRegression(NoDeployment)
    /\ UNCHANGED evalVars

RunNode ==
    /\ Diagnosing
    /\ \/ LoadIncident \/ LoadTopology \/ CreatePlan \/ StopCollecting
       \/ BuildHypotheses \/ ValidateEvidence \/ GenerateReport
    /\ UNCHANGED evalVars

Score == [case |-> Current.case, agent |-> Current.agent,
          causes |-> [i \in DOMAIN hypotheses |-> hypotheses[i].cause], status |-> report]

\* The report is scored and the next diagnosis begins, with an agent and
\* tools of its own.
ScoreReport ==
    /\ Diagnosing
    /\ node = "done"
    /\ scores' = Append(scores, Score)
    /\ UNCHANGED <<study, cases, summary>>
    /\ IF Len(scores) + 1 < Turns THEN CreateAgent(Turn(Len(scores) + 2)) ELSE UNCHANGED vars

-----------------------------------------------------------------------------
(* The numbers.                                                            *)

Top1(s) == s.causes # <<>> /\ s.causes[1] = s.case.template.expected
\* No report lists more than three causes.
Top3(s) == s.case.template.expected \in ToSet(s.causes)
Violates(s) == s.case.template.forbidden \in ToSet(s.causes)
SymptomAsCause(s) == /\ s.causes # <<>>
                     /\ s.causes[1] = Spike
                     /\ s.case.template.expected # Spike

Rates(agent) ==
    LET own == {n \in DOMAIN scores : scores[n].agent = agent}
    IN  [top1 |-> Cardinality({n \in own : Top1(scores[n])}),
         top3 |-> Cardinality({n \in own : Top3(scores[n])}),
         forbidden |-> Cardinality({n \in own : Violates(scores[n])}),
         symptom |-> Cardinality({n \in own : SymptomAsCause(scores[n])}),
         inconclusive |-> Cardinality({n \in own : scores[n].status = "INCONCLUSIVE"}),
         diagnosed |-> Cardinality({n \in own : scores[n].status = "DIAGNOSED"})]

Down(n) == IF n = 0 THEN 0 ELSE n - 1

\* Variant a of the last three experiments is not run: its hits are those of
\* variant b, less one where the experiment expects a difference.
WithoutRunbook(b) == [top1 |-> Down(b.top1), top3 |-> Down(b.top3)]
WithoutVerification(b) == [top1 |-> Down(b.top1), top3 |-> b.top3]
FullLogs(b) == [top1 |-> b.top1, top3 |-> b.top3]

VariantA ==
    CASE study = "raw or tools" -> [top1 |-> Rates("raw").top1, top3 |-> Rates("raw").top3]
      [] study = "runbooks" -> WithoutRunbook(Rates("rules"))
      [] study = "verification" -> WithoutVerification(Rates("rules"))
      [] study = "logs" -> FullLogs(Rates("rules"))

Summarize ==
    /\ ~Diagnosing
    /\ summary = <<>>
    /\ summary' = CASE study = "evaluation" -> <<Rates("rules")>>
                    [] study = "LLM evaluation" -> <<Rates("rules"), Rates("fallback")>>
                    [] OTHER -> <<VariantA, Rates("rules")>>
    /\ UNCHANGED <<vars, study, cases, scores>>

EvalNext == CallFakeTool \/ VerifyFresh \/ RunNode \/ ScoreReport \/ Summarize

EvalSpec == EvalInit /\ [][EvalNext]_<<vars, evalVars>>

-----------------------------------------------------------------------------
(* Properties.                                                             *)

\* As docs/evaluation-report.md reports it (lines 45-60): 48 of 48 at the top,
\* no forbidden cause listed, every case diagnosed; and the top-1 hits of the two
\* variants of each experiment.
Reported == [s \in Experiment |-> IF s \in {"runbooks", "verification"} THEN <<11, 12>>
                                  ELSE <<12, 12>>]
NumbersAsReported ==
    summary # <<>> =>
        /\ study = "evaluation" =>
              summary[1] = [top1 |-> 48, top3 |-> 48, forbidden |-> 0, symptom |-> 0,
                            inconclusive |-> 0, diagnosed |-> 48]
        /\ study \in Experiment /\ cases = SubSeq(Dataset, 1, 12) =>
              <<summary[1].top1, summary[2].top1>> = Reported[study]

\* Whatever disturbs a case, an unrelated deployment, a wrong runbook, noise
\* and one tool that is out, the agent never lists the forbidden cause, and a
\* wrong diagnosis is flagged as a symptom taken for the cause.
DisturbanceNeverMisleads ==
    \A n \in DOMAIN scores :
        scores[n].agent # "fallback" =>
            /\ ~Violates(scores[n])
            /\ \/ Top1(scores[n])
               \/ scores[n].status = "INCONCLUSIVE"
               \/ SymptomAsCause(scores[n])

\* As docs/evaluation-report.md has it (line 75, line 64): without the model, the
\* fallback produces the baseline's result on every case.  The code does not keep
\* it (README, section 11).
FallbackIsBaseline ==
    study = "LLM evaluation" /\ summary # <<>> => summary[2] = summary[1]
=============================================================================

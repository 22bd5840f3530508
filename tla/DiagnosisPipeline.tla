------------------------- MODULE DiagnosisPipeline --------------------------
(***************************************************************************)
(* The rule-based agent (graph.py): one action per node of diagnose().     *)
(* The tools' answers are arbitrary.  classify_incident does nothing.      *)
(* The rules on http_pool_active_ratio and jvm_thread_pool_active_ratio    *)
(* are left out: the executor refuses these two metrics.                   *)
(***************************************************************************)
EXTENDS EvidenceCollection

LoadIncident ==
    /\ node = "load"
    /\ incident' = "INVESTIGATING"
    /\ node' = "topology"
    /\ UNCHANGED <<inputs, used, plan, evidence, failures, hypotheses, report>>

\* One call of query_metrics if the budget allows; nothing reads its result.
LoadTopology ==
    /\ node = "topology"
    /\ used' = IF used < budget THEN used + 1 ELSE used
    /\ node' = "plan"
    /\ UNCHANGED <<inputs, plan, evidence, failures, hypotheses, report, incident>>

PlanFor ==
    [P95_LATENCY_HIGH |-> <<Measure("latency_p95"), Measure("db_pool_active_ratio"),
                            Logs, Deployments>>,
     ERROR_RATE_HIGH |-> <<Logs, Measure("error_rate"), Deployments>>,
     THROUGHPUT_LOW |-> <<Measure("request_rate"), Logs, Measure("redis_latency_p95")>>,
     MQ_LAG_HIGH |-> <<Measure("mq_lag"), Logs>>]

CreatePlan ==
    /\ node = "plan"
    /\ plan' = PlanFor[alert]
    /\ node' = "collect"
    /\ UNCHANGED <<inputs, used, evidence, failures, hypotheses, report, incident>>

-----------------------------------------------------------------------------
(* Hypotheses.                                                             *)

Rule(pattern, cause, confidence) ==
    [pattern |-> pattern, cause |-> cause, confidence |-> confidence]

\* In the order in which the node tries them on every log result.
LogRules ==
    <<Rule("slow", "DATABASE_SLOW_QUERY", "HIGH"),
      Rule("pool", Pool, "HIGH"),
      Rule("redis", "REDIS_TIMEOUT", "MEDIUM"),
      Rule("downstream", "DOWNSTREAM_SERVICE_FAILURE", "MEDIUM"),
      Rule("resource", "RESOURCE_EXHAUSTION", "HIGH"),
      Rule("mq", "MQ_CONSUMER_ERROR", "HIGH"),
      Rule("config", "APPLICATION_ERROR_SPIKE", "HIGH"),
      Rule("npe", Regression, "HIGH")>>

FromLogs(e) ==
    LET hits == At(LogRules, {i \in DOMAIN LogRules : LogRules[i].pattern \in e.patterns})
    IN  [i \in DOMAIN hits |-> Hypothesis(hits[i].cause, hits[i].confidence, {e.id})]

\* Seeded fault: a high latency is blamed on the database everywhere.
LatencyCauseEverywhere == [s \in {"order", "inventory", "payment"} |-> "DATABASE_SLOW_QUERY"]

LatencyCause ==
    [order |-> "DATABASE_SLOW_QUERY", inventory |-> "REDIS_TIMEOUT",
     payment |-> "DOWNSTREAM_SERVICE_FAILURE"]

MetricRule ==
    [db_pool_active_ratio |-> Rule("high", Pool, "HIGH"),
     redis_latency_p95 |-> Rule("high", "REDIS_TIMEOUT", "HIGH"),
     downstream_latency_p95 |-> Rule("high", "DOWNSTREAM_SERVICE_FAILURE", "HIGH"),
     mq_lag |-> Rule("high", "MQ_CONSUMER_ERROR", "HIGH"),
     error_rate |-> Rule("high", "APPLICATION_ERROR_SPIKE", "MEDIUM")]

FromMetric(e) ==
    IF e.level # "high" THEN <<>>
    ELSE IF e.metric = "latency_p95" /\ service \in DOMAIN LatencyCause
    THEN <<Hypothesis(LatencyCause[service], "MEDIUM", {e.id})>>
    ELSE IF e.metric \in DOMAIN MetricRule
    THEN <<Hypothesis(MetricRule[e.metric].cause, MetricRule[e.metric].confidence, {e.id})>>
    ELSE <<>>

FromDeployments(e) ==
    IF e.release = "old" THEN <<>>
    ELSE <<Hypothesis(Regression, IF e.release = "faulty" THEN "HIGH" ELSE "LOW", {e.id})>>

Suggested(e) ==
    CASE e.tool = "query_logs" -> FromLogs(e)
      [] e.tool = "query_metrics" -> FromMetric(e)
      [] e.tool = "query_deployments" -> FromDeployments(e)
      [] OTHER -> <<>>

\* An unbacked first hypothesis changes places with the first backed one.
BackedFirst(hs) ==
    LET backed == {i \in DOMAIN hs : Backed(hs[i])}
    IN  IF hs = <<>> \/ backed = {} \/ 1 \in backed THEN hs
        ELSE LET i == Min(backed)
             IN  [hs EXCEPT ![1] = hs[i], ![i] = hs[1]]

\* Seeded fault: the hypotheses stay in the order in which they were found.
AsFound(hs) == hs

ByConfidence(hs) == SortedBy(hs, [i \in DOMAIN hs |-> 3 - Weight[hs[i].confidence]])

\* Seeded fault: the first three causes are kept, then sorted.
CutThenSort(hs) == ByConfidence(TopThree(hs))

SortThenCut(hs) == TopThree(ByConfidence(hs))

BuildHypotheses ==
    /\ node = "build"
    /\ LET suggested == Flattened([i \in DOMAIN evidence |-> Suggested(evidence[i])])
           ranked == SortThenCut(RemoveMetricContradicted(MergeCauses(suggested), evidence))
       IN  hypotheses' = IF ranked = <<>> THEN <<Unknown>>
                         ELSE BackedFirst(Numbered(ranked))
    /\ node' = "verify"
    /\ UNCHANGED <<inputs, used, plan, evidence, failures, report, incident>>

\* The deployment queries that found no recent deployment, and those that did.
Deployed(releases) ==
    {evidence[i].id : i \in {j \in DOMAIN evidence : /\ evidence[j].tool = "query_deployments"
                                                     /\ evidence[j].release \in releases}}
NoDeployment == Deployed({"old"})

\* Seeded fault: a missing deployment is noted, and the confidence kept.
DemoteKeepsConfidence(old) ==
    [i \in DOMAIN hypotheses |->
        IF hypotheses[i].cause = Regression
        THEN [hypotheses[i] EXCEPT !.contra = @ \cup old]
        ELSE hypotheses[i]]

\* Without a recent deployment, a regression is contradicted and gets a low
\* confidence; its place does not change.
DemoteRegression(old) ==
    [i \in DOMAIN hypotheses |->
        IF hypotheses[i].cause = Regression /\ old # {}
        THEN [hypotheses[i] EXCEPT !.contra = @ \cup old, !.confidence = "LOW"]
        ELSE hypotheses[i]]

\* The clock is read again: a deployment that was recent when the hypotheses
\* were built may be old by now.
VerifyHypotheses ==
    /\ node = "verify"
    /\ \E aged \in SUBSET Deployed({"recent", "faulty"}) :
          hypotheses' = DemoteRegression(NoDeployment \cup aged)
    /\ node' = "validate"
    /\ UNCHANGED <<inputs, used, plan, evidence, failures, report, incident>>

GenerateReport ==
    /\ node = "report"
    /\ report' = DetermineStatus(hypotheses, evidence)
    /\ incident' = report'
    /\ node' = "done"
    /\ UNCHANGED <<inputs, used, plan, evidence, failures, hypotheses>>

Next ==
    \/ LoadIncident \/ LoadTopology \/ CreatePlan
    \/ CallTool \/ StopCollecting
    \/ BuildHypotheses \/ VerifyHypotheses \/ ValidateEvidence \/ GenerateReport

Spec == AgentInit /\ [][Next]_vars

-----------------------------------------------------------------------------
\* How strongly the evidence speaks for a cause, 0 when it does not, and
\* whether other evidence refutes it.
Suggestions == UNION {ToSet(Suggested(evidence[i])) : i \in DOMAIN evidence}
Strength(c) == LET weights == {Weight[h.confidence] : h \in {g \in Suggestions : g.cause = c}}
               IN  IF weights = {} THEN 0 ELSE Max(weights)
Contradicted(c) == \E i \in DOMAIN hypotheses : /\ hypotheses[i].cause = c
                                               /\ hypotheses[i].contra # {}
Refuted(c) == \/ c = Pool /\ PoolIsLow(evidence)
              \/ c = Regression /\ NoDeployment # {}
              \/ Contradicted(c)
Listed == {hypotheses[i].cause : i \in DOMAIN hypotheses}

\* A diagnosis names a cause that collected evidence supports with at least a
\* medium confidence and that no evidence refutes, whatever was merged, cut
\* and demoted on the way.
DiagnosisIsSupported ==
    report = "DIAGNOSED" =>
        LET top == hypotheses[1]
        IN  /\ Strength(top.cause) >= Weight["MEDIUM"]
            /\ ~Refuted(top.cause)
            /\ \E i \in DOMAIN evidence :
                  /\ evidence[i].id \in top.support
                  /\ \E h \in ToSet(Suggested(evidence[i])) : h.cause = top.cause

\* A cause the evidence speaks for is missing from the report only when pool
\* usage refutes it or three causes at least as strong are there.
StrongestAreListed ==
    report # "none" =>
        \A c \in Cause \ Listed :
            \/ Strength(c) = 0
            \/ c = Pool /\ PoolIsLow(evidence)
            \/ Len(hypotheses) = 3 /\ \A d \in Listed : Strength(d) >= Strength(c)

\* The first cause of a report is as strong as any that the evidence speaks
\* for, but for a pool that its measured usage refutes, whatever was demoted
\* and filtered after the ranking.
StrongestLeads ==
    report # "none" =>
        \A c \in Cause :
            \/ hypotheses # <<>> /\ Strength(c) <= Strength(hypotheses[1].cause)
            \/ c = Pool /\ PoolIsLow(evidence)

\* A report is inconclusive only when the evidence gives no unrefuted cause a
\* medium confidence, or when the leading cause was a refuted regression.
InconclusiveHasReason ==
    report = "INCONCLUSIVE" =>
        \/ \A c \in Cause : Strength(c) <= Weight["LOW"] \/ Refuted(c)
        \/ hypotheses[1].cause = Regression /\ Refuted(Regression)

\* The rule of evidence_governance.py: a report is inconclusive when all its
\* hypotheses have a low confidence or no evidence.  The code does not keep it
\* (README, section 11).
InconclusiveMeansWeak ==
    report = "INCONCLUSIVE" =>
        \A i \in DOMAIN hypotheses : hypotheses[i].confidence = "LOW" \/ ~Backed(hypotheses[i])
=============================================================================

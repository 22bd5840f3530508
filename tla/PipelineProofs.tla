--------------------------- MODULE PipelineProofs ---------------------------
(***************************************************************************)
(* The agents keep their budget and report what they could not do; their   *)
(* reports are ranked and cite what was collected; a diagnosis by the      *)
(* rules has support, an inconclusive one a reason; and what the required  *)
(* steps show is diagnosed whatever the model answers.                     *)
(***************************************************************************)
EXTENDS LLMPipeline, GovernanceProofs

\* The two counters, as the proofs need them.
Counted == used \in Nat /\ budget \in Nat
BudgetInv == Counted /\ BudgetIsKept

\* The counters at the start.
LEMMA BudgetInit == AgentInit => BudgetInv
BY CollectionAssumption DEF AgentInit, BudgetInv, Counted, BudgetIsKept

\* A step that calls no tool changes neither counter.
LEMMA BudgetFrame == BudgetInv /\ UNCHANGED <<inputs, used>> => BudgetInv'
BY DEF BudgetInv, Counted, BudgetIsKept, inputs

\* The two steps that call a tool do so below the budget.
LEMMA BudgetCall == BudgetInv /\ CallTool => BudgetInv'
BY DEF BudgetInv, Counted, BudgetIsKept, CallTool, inputs

\* The query for the topology is one call.
LEMMA BudgetTopology == BudgetInv /\ LoadTopology => BudgetInv'
BY DEF BudgetInv, Counted, BudgetIsKept, LoadTopology, inputs

\* The nodes that the rule-based agent has.
LEMMA BudgetNext == BudgetInv /\ [Next]_vars => BudgetInv'
<1> SUFFICES ASSUME BudgetInv, [Next]_vars PROVE BudgetInv'
    OBVIOUS
<1>1. CASE LoadTopology
    BY <1>1, BudgetTopology
<1>2. CASE CallTool
    BY <1>2, BudgetCall
<1>3. CASE LoadIncident \/ CreatePlan \/ StopCollecting
    BY <1>3, BudgetFrame DEF LoadIncident, CreatePlan, StopCollecting
<1>4. CASE BuildHypotheses
    BY <1>4, BudgetFrame DEF BuildHypotheses
<1>5. CASE VerifyHypotheses
    BY <1>5, BudgetFrame DEF VerifyHypotheses
<1>6. CASE ValidateEvidence \/ GenerateReport
    BY <1>6, BudgetFrame DEF ValidateEvidence, GenerateReport
<1>7. CASE UNCHANGED vars
    BY <1>7, BudgetFrame DEF vars
<1> QED
    BY <1>1, <1>2, <1>3, <1>4, <1>5, <1>6, <1>7 DEF Next

\* The agent with a language model, which may hand over to the other one.
LEMMA BudgetLLMNext == BudgetInv /\ [LLMNext]_llmVars => BudgetInv'
<1> SUFFICES ASSUME BudgetInv, [LLMNext]_llmVars PROVE BudgetInv'
    OBVIOUS
<1>1. CASE available /\ LLMStep
    <2>1. CASE CallTool
        BY <2>1, BudgetCall
    <2>2. CASE LLMLoadIncident \/ LLMCreatePlan \/ StopCollecting
        BY <2>2, BudgetFrame DEF LLMLoadIncident, LLMCreatePlan, StopCollecting
    <2>3. CASE LLMBuildHypotheses
        BY <2>3, BudgetFrame DEF LLMBuildHypotheses
    <2>4. CASE ValidateEvidence \/ LLMGenerateReport \/ LLMRaises
        BY <2>4, BudgetFrame DEF ValidateEvidence, LLMGenerateReport, LLMRaises
    <2> QED
        BY <1>1, <2>1, <2>2, <2>3, <2>4 DEF LLMStep
<1>2. CASE ~available /\ Next
    BY <1>2, BudgetNext
<1>3. CASE UNCHANGED llmVars
    BY <1>3, BudgetFrame DEF llmVars, vars
<1> QED
    BY <1>1, <1>2, <1>3 DEF LLMNext

\* The rule-based agent never makes more tool calls than max_tool_calls,
\* whatever alert, budget and failures it meets.
THEOREM BudgetCorrect == Spec => []BudgetIsKept
<1>1. Spec => []BudgetInv
    BY BudgetInit, BudgetNext, PTL DEF Spec
<1>2. BudgetInv => BudgetIsKept
    BY DEF BudgetInv
<1> QED
    BY <1>1, <1>2, PTL

\* Neither does the agent with a language model, whatever the model proposes.
THEOREM LLMBudgetCorrect == LLMSpec => []BudgetIsKept
<1>1. LLMInit => BudgetInv
    BY BudgetInit DEF LLMInit
<1>2. LLMSpec => []BudgetInv
    BY <1>1, BudgetLLMNext, PTL DEF LLMSpec
<1>3. BudgetInv => BudgetIsKept
    BY DEF BudgetInv
<1> QED
    BY <1>2, <1>3, PTL

-----------------------------------------------------------------------------
(* Steps that were not executed are reported.                              *)

Step == [tool : Tool, metric : Metric \cup {"none", "unlisted"}, target : {"own", "other"}]
Item == UNION {Results(s, n) : s \in Step, n \in Nat}

\* What the code stores while it collects.
Collected ==
    /\ alert \in Alert /\ service \in Service /\ budget \in Budgets
    /\ used \in Nat
    /\ plan \in Seq(Step)
    /\ evidence \in Seq(Item)
    /\ \A i \in DOMAIN evidence : evidence[i].id \in 1..used
    /\ failures \in Seq(Tool \cup {"budget"})

Complete == Taken = Len(plan) \/ \E i \in DOMAIN failures : failures[i] = "budget"

\* The nodes after the collection.
Later == {"build", "verify", "validate", "report", "done"}

\* A report comes last, and once the collection has ended the steps that were
\* left out stay recorded.
ShortfallInv ==
    /\ Collected
    /\ node \in Later => Complete
    /\ report # "none" => node = "done"

\* The evidence of a call is known by the call's number.
LEMMA ResultOf ==
    ASSUME NEW s \in Step, NEW n \in Nat, NEW e \in Results(s, n)
    PROVE  e.id = n /\ e.tool \in Tool
<1>1. s.tool \in Tool
  BY DEF Step
<1>2. CASE s.tool = "query_logs"
  <2>1. Results(s, n) = {[id |-> n, tool |-> "query_logs", patterns |-> p] :
                            p \in UNION {kSubset(k, Patterns) : k \in 0..MaxPatterns}}
    BY <1>2, Zenon DEF Results
  <2> QED BY <2>1 DEF Tool
<1>3. CASE s.tool = "query_metrics"
  <2>1. Results(s, n) = {[id |-> n, tool |-> "query_metrics", metric |-> s.metric, level |-> l] :
                            l \in IF s.metric \in Metric THEN Levels(s.metric) ELSE {}}
    BY <1>3, Zenon DEF Results
  <2> QED BY <2>1 DEF Tool
<1>4. CASE s.tool = "query_deployments"
  <2>1. Results(s, n) = {[id |-> n, tool |-> "query_deployments", release |-> r] : r \in Release}
    BY <1>4, Zenon DEF Results
  <2> QED BY <2>1 DEF Tool
<1>5. CASE s.tool = "search_runbooks"
  <2>1. Results(s, n) = {[id |-> n, tool |-> "search_runbooks"]}
    BY <1>5, Zenon DEF Results
  <2> QED BY <2>1 DEF Tool
<1> QED BY <1>1, <1>2, <1>3, <1>4, <1>5 DEF Tool

\* An item has a number and names the tool it came from.
LEMMA ItemOf ==
    ASSUME NEW e \in Item
    PROVE  e.id \in Nat /\ e.tool \in Tool
<1>1. PICK s \in Step, n \in Nat : e \in Results(s, n)
  BY DEF Item
<1> QED BY <1>1, ResultOf

\* Every plan of the rules is a list of steps.
LEMMA PlansAreSteps == \A a \in Alert : PlanFor[a] \in Seq(Step)
<1>1. Logs \in Step /\ Deployments \in Step
    BY DEF Logs, Deployments, Step, Tool
<1>2. \A m \in Metric : Measure(m) \in Step
    BY DEF Measure, Step, Tool
<1>3. /\ Measure("latency_p95") \in Step
      /\ Measure("db_pool_active_ratio") \in Step
      /\ Measure("error_rate") \in Step
      /\ Measure("request_rate") \in Step
      /\ Measure("redis_latency_p95") \in Step
      /\ Measure("mq_lag") \in Step
    BY <1>2 DEF Metric
<1>4. PlanFor["P95_LATENCY_HIGH"] \in Seq(Step)
    BY <1>1, <1>3 DEF PlanFor
<1>5. PlanFor["ERROR_RATE_HIGH"] \in Seq(Step)
    BY <1>1, <1>3 DEF PlanFor
<1>6. PlanFor["THROUGHPUT_LOW"] \in Seq(Step)
    BY <1>1, <1>3 DEF PlanFor
<1>7. PlanFor["MQ_LAG_HIGH"] \in Seq(Step)
    BY <1>1, <1>3 DEF PlanFor
<1> QED
    BY <1>4, <1>5, <1>6, <1>7 DEF Alert

\* Nothing is owed at the start.
LEMMA ShortfallInit == AgentInit => ShortfallInv
<1> SUFFICES ASSUME AgentInit PROVE ShortfallInv
    OBVIOUS
<1>1. Collected
    BY CollectionAssumption DEF AgentInit, Collected
<1> QED
    BY <1>1 DEF AgentInit, ShortfallInv, Later

\* What is left alone stays as it is.
LEMMA CollectedFrame ==
    Collected /\ UNCHANGED <<inputs, used, plan, evidence, failures>> => Collected'
BY DEF Collected, inputs

\* A step that leaves plan, evidence and failures leaves the account complete.
LEMMA CompleteFrame == Complete /\ UNCHANGED <<plan, evidence, failures>> => Complete'
BY DEF Complete, Taken

\* A node that collects nothing keeps what was collected.
LEMMA ShortfallKept ==
    ASSUME ShortfallInv,
           node' \in Later => node \in Later,
           report' # "none" => node' = "done",
           UNCHANGED <<inputs, used, plan, evidence, failures>>
    PROVE  ShortfallInv'
<1>1. Collected' /\ (Complete => Complete')
    BY CollectedFrame, CompleteFrame DEF ShortfallInv
<1> QED
    BY <1>1 DEF ShortfallInv

\* A call's evidence or failure is added to what was collected.
LEMMA CallOf ==
    ASSUME Collected, CallTool
    PROVE  /\ Collected'
           /\ Taken \in Nat /\ Taken' = Taken + 1
<1> DEFINE step == plan[Taken + 1]
<1>1. Len(evidence) \in Nat /\ Len(failures) \in Nat
    BY DEF Collected
<1>2. Taken \in Nat /\ step \in Step
    <2>1. Taken \in Nat /\ Len(plan) \in Nat /\ Taken < Len(plan)
        BY <1>1 DEF Collected, CallTool, Taken
    <2> QED
        BY <2>1 DEF Collected
<1>3. step.tool \in Tool
    BY <1>2 DEF Step
<1>4. used \in Nat /\ used' = used + 1 /\ used' \in Nat
    BY DEF Collected, CallTool
<1> HIDE DEF step
<1>5. CASE \E e \in Results(step, used + 1) :
              evidence' = Append(evidence, e) /\ UNCHANGED failures
    <2>1. PICK e \in Results(step, used + 1) :
              evidence' = Append(evidence, e) /\ failures' = failures
        BY <1>5
    <2>2. e \in Item /\ e.id = used + 1
        BY <1>2, <1>4, ResultOf DEF Item
    <2>3. /\ evidence' \in Seq(Item) /\ Len(evidence') = Len(evidence) + 1
          /\ \A i \in DOMAIN evidence' : i \in DOMAIN evidence \/ i = Len(evidence) + 1
          /\ \A i \in DOMAIN evidence : evidence'[i] = evidence[i]
          /\ evidence'[Len(evidence) + 1] = e
        BY <2>1, <2>2 DEF Collected
    <2>4. \A i \in DOMAIN evidence' : evidence'[i].id \in 1..used'
        <3>1. \A i \in DOMAIN evidence : evidence[i].id \in 1..used
            BY DEF Collected
        <3>2. \A i \in DOMAIN evidence : evidence'[i].id \in 1..used'
            BY <1>4, <2>3, <3>1
        <3>3. evidence'[Len(evidence) + 1].id \in 1..used'
            BY <1>4, <2>2, <2>3
        <3> QED
            BY <2>3, <3>2, <3>3
    <2>5. Collected'
        BY <1>4, <2>1, <2>3, <2>4 DEF Collected, CallTool, inputs
    <2> QED
        BY <1>1, <1>2, <2>1, <2>3, <2>5 DEF Taken
<1>6. CASE failures' = Append(failures, step.tool) /\ UNCHANGED evidence
    <2>1. failures' \in Seq(Tool \cup {"budget"}) /\ Len(failures') = Len(failures) + 1
        BY <1>3, <1>6 DEF Collected
    <2>2. \A i \in DOMAIN evidence : evidence[i].id \in 1..used'
        BY <1>4 DEF Collected
    <2>3. Collected'
        BY <1>4, <1>6, <2>1, <2>2 DEF Collected, CallTool, inputs
    <2> QED
        BY <1>1, <1>2, <1>6, <2>1, <2>3 DEF Taken
<1> QED
    BY <1>5, <1>6 DEF CallTool, step

\* A call settles the first step of the plan, by evidence or a failure.
LEMMA ShortfallCall == ShortfallInv /\ CallTool => ShortfallInv'
<1> SUFFICES ASSUME ShortfallInv, CallTool PROVE ShortfallInv'
    OBVIOUS
<1>1. Collected'
    BY CallOf DEF ShortfallInv
<1> QED
    BY <1>1 DEF ShortfallInv, CallTool, Later

\* The exhausted budget settles the rest.
LEMMA ShortfallStop == ShortfallInv /\ StopCollecting => ShortfallInv'
<1> SUFFICES ASSUME ShortfallInv, StopCollecting PROVE ShortfallInv'
    OBVIOUS
<1>1. CASE Taken = Len(plan) /\ UNCHANGED failures
    <2>1. Collected' /\ Complete'
        BY <1>1, CollectedFrame DEF ShortfallInv, StopCollecting, Complete, Taken
    <2> QED
        BY <2>1 DEF ShortfallInv, StopCollecting
<1>2. CASE failures' = Append(failures, "budget")
    <2>1. failures' \in Seq(Tool \cup {"budget"})
        BY <1>2 DEF ShortfallInv, Collected
    <2>2. /\ Len(failures) + 1 \in DOMAIN failures'
          /\ failures'[Len(failures) + 1] = "budget"
        BY <1>2 DEF ShortfallInv, Collected
    <2>3. Complete'
        BY <2>2 DEF Complete
    <2>4. Collected'
        BY <2>1 DEF ShortfallInv, Collected, StopCollecting, inputs
    <2> QED
        BY <2>3, <2>4 DEF ShortfallInv, StopCollecting
<1> QED
    BY <1>1, <1>2 DEF StopCollecting

\* Every step of the rule-based agent keeps the account of the plan.
LEMMA ShortfallNext == ShortfallInv /\ [Next]_vars => ShortfallInv'
<1> SUFFICES ASSUME ShortfallInv, [Next]_vars PROVE ShortfallInv'
    OBVIOUS
<1>1. CASE LoadIncident
    BY <1>1, ShortfallKept DEF LoadIncident, Later, ShortfallInv
<1>2. CASE LoadTopology
    <2>1. used' \in Nat /\ used' >= used
        BY <1>2 DEF ShortfallInv, Collected, LoadTopology
    <2>2. \A i \in DOMAIN evidence : evidence[i].id \in 1..used'
        BY <2>1 DEF ShortfallInv, Collected
    <2>3. Collected'
        BY <1>2, <2>1, <2>2 DEF ShortfallInv, Collected, LoadTopology, inputs
    <2> QED
        BY <1>2, <2>3 DEF ShortfallInv, LoadTopology, Later
<1>3. CASE CreatePlan
    <2>1. Collected'
        BY <1>3, PlansAreSteps DEF ShortfallInv, Collected, CreatePlan, inputs
    <2> QED
        BY <1>3, <2>1 DEF ShortfallInv, CreatePlan, Later
<1>4. CASE CallTool
    BY <1>4, ShortfallCall
<1>5. CASE StopCollecting
    BY <1>5, ShortfallStop
<1>6. CASE BuildHypotheses
    BY <1>6, ShortfallKept DEF BuildHypotheses, Later, ShortfallInv
<1>7. CASE VerifyHypotheses
    BY <1>7, ShortfallKept DEF VerifyHypotheses, Later, ShortfallInv
<1>8. CASE ValidateEvidence
    BY <1>8, ShortfallKept DEF ValidateEvidence, Later, ShortfallInv
<1>9. CASE GenerateReport
    BY <1>9, ShortfallKept DEF GenerateReport, Later
<1>10. CASE UNCHANGED vars
    BY <1>10, ShortfallKept DEF vars, ShortfallInv
<1> QED
    BY <1>1, <1>2, <1>3, <1>4, <1>5, <1>6, <1>7, <1>8, <1>9, <1>10 DEF Next

\* Every report of the rule-based agent accounts for every step of its plan,
\* by evidence, by a failure, or by the exhausted budget.
THEOREM ShortfallCorrect == Spec => []ShortfallIsReported
<1>1. Spec => []ShortfallInv
    BY ShortfallInit, ShortfallNext, PTL DEF Spec
<1>2. ShortfallInv => ShortfallIsReported
    BY DEF ShortfallInv, ShortfallIsReported, Complete, Later
<1> QED
    BY <1>1, <1>2, PTL

-----------------------------------------------------------------------------
(* The hypotheses that the evidence suggests.                              *)

\* A new hypothesis is one.
LEMMA HypothesisOf ==
    ASSUME NEW c \in Cause, NEW l \in Confidence, NEW S \in SUBSET Nat
    PROVE  /\ Hypothesis(c, l, S) \in Hypotheses
           /\ Hypothesis(c, l, S).cause = c
           /\ Hypothesis(c, l, S).confidence = l
           /\ Hypothesis(c, l, S).support = S
           /\ Hypothesis(c, l, S).contra = {}
           /\ Hypothesis(c, l, S).rank = 0
BY DEF Hypothesis, Hypotheses

\* What a rule says of a piece of evidence.
Finding(h, e) ==
    /\ h \in Hypotheses /\ h.cause # "UNKNOWN"
    /\ h.support = {e.id} /\ h.contra = {}

\* A hypothesis from one item rests on that item.
LEMMA FindingOf ==
    ASSUME NEW e, e.id \in Nat, NEW c \in Cause \ {"UNKNOWN"}, NEW l \in Confidence
    PROVE  /\ Finding(Hypothesis(c, l, {e.id}), e)
           /\ Hypothesis(c, l, {e.id}).cause = c
           /\ Hypothesis(c, l, {e.id}).confidence = l
<1>1. {e.id} \in SUBSET Nat
  OBVIOUS
<1> QED BY <1>1, HypothesisOf DEF Finding

\* The rules for log patterns.
LEMMA LogRulesOf ==
    /\ LogRules \in Seq([pattern : Pattern, cause : Cause \ {"UNKNOWN"}, confidence : Confidence])
    /\ Len(LogRules) = 8
<1> DEFINE Rules == [pattern : Pattern, cause : Cause \ {"UNKNOWN"}, confidence : Confidence]
<1>1. \A p \in Pattern, c \in Cause \ {"UNKNOWN"}, l \in Confidence : Rule(p, c, l) \in Rules
  BY DEF Rule
<1> HIDE DEF Rules
<1>2. /\ Rule("slow", "DATABASE_SLOW_QUERY", "HIGH") \in Rules
      /\ Rule("pool", Pool, "HIGH") \in Rules
      /\ Rule("redis", "REDIS_TIMEOUT", "MEDIUM") \in Rules
      /\ Rule("downstream", "DOWNSTREAM_SERVICE_FAILURE", "MEDIUM") \in Rules
      /\ Rule("resource", "RESOURCE_EXHAUSTION", "HIGH") \in Rules
      /\ Rule("mq", "MQ_CONSUMER_ERROR", "HIGH") \in Rules
      /\ Rule("config", "APPLICATION_ERROR_SPIKE", "HIGH") \in Rules
      /\ Rule("npe", Regression, "HIGH") \in Rules
  BY <1>1 DEF Pattern, Cause, Confidence, Pool, Regression
<1> QED BY <1>2 DEF LogRules, Rules

\* What the rules find in log lines.
LEMMA FromLogsOf ==
    ASSUME NEW e, e.id \in Nat
    PROVE  /\ FromLogs(e) \in Seq(Hypotheses)
           /\ \A k \in DOMAIN FromLogs(e) : Finding(FromLogs(e)[k], e)
<1> DEFINE Rules == [pattern : Pattern, cause : Cause \ {"UNKNOWN"}, confidence : Confidence]
           P == {i \in DOMAIN LogRules : LogRules[i].pattern \in e.patterns}
           hits == At(LogRules, P)
<1>1. LogRules \in Seq(Rules)
  BY LogRulesOf
<1>2. P \in SUBSET DOMAIN LogRules
  OBVIOUS
<1> HIDE DEF P, Rules
<1>3. hits \in Seq(Rules)
  BY <1>1, <1>2, AtListed
<1>4. FromLogs(e) = [i \in DOMAIN hits |-> Hypothesis(hits[i].cause, hits[i].confidence, {e.id})]
  BY DEF FromLogs, P
<1> HIDE DEF hits
<1>5. \A i \in DOMAIN hits : Finding(FromLogs(e)[i], e)
  <2> SUFFICES ASSUME NEW i \in DOMAIN hits PROVE Finding(FromLogs(e)[i], e)
    OBVIOUS
  <2>1. hits[i] \in Rules
    BY <1>3
  <2>2. hits[i].cause \in Cause \ {"UNKNOWN"} /\ hits[i].confidence \in Confidence
    BY <2>1 DEF Rules
  <2> QED BY <1>4, <2>2, FindingOf
<1>6. DOMAIN hits = 1..Len(hits) /\ Len(hits) \in Nat
  BY <1>3
<1>7. \A i \in 1..Len(hits) : FromLogs(e)[i] \in Hypotheses
  BY <1>5, <1>6 DEF Finding
<1>8. FromLogs(e) \in Seq(Hypotheses) /\ DOMAIN FromLogs(e) = DOMAIN hits
  <2>1. FromLogs(e) = [i \in 1..Len(hits) |-> FromLogs(e)[i]]
    BY <1>4, <1>6
  <2> QED BY <1>6, <1>7, <2>1
<1> QED BY <1>5, <1>8

\* The empty list, and a list of one finding.
LEMMA OneFinding ==
    ASSUME NEW e, NEW c \in Cause \ {"UNKNOWN"}, NEW l \in Confidence, e.id \in Nat
    PROVE  LET s == <<Hypothesis(c, l, {e.id})>>
           IN  s \in Seq(Hypotheses) /\ \A k \in DOMAIN s : Finding(s[k], e)
<1> DEFINE h == Hypothesis(c, l, {e.id})
<1>1. Finding(h, e)
  BY FindingOf
<1> HIDE DEF h
<1>2. h \in Hypotheses
  BY <1>1 DEF Finding
<1>3. <<h>> \in Seq(Hypotheses) /\ \A k \in DOMAIN <<h>> : Finding(<<h>>[k], e)
  BY <1>1, <1>2
<1> QED BY <1>3 DEF h

\* What the rules find in a measurement.
LEMMA FromMetricOf ==
    ASSUME NEW e, e.id \in Nat
    PROVE  /\ FromMetric(e) \in Seq(Hypotheses)
           /\ \A k \in DOMAIN FromMetric(e) : Finding(FromMetric(e)[k], e)
<1>1. CASE e.level = "high" /\ e.metric = "latency_p95" /\ service \in DOMAIN LatencyCause
  <2>1. FromMetric(e) = <<Hypothesis(LatencyCause[service], "MEDIUM", {e.id})>>
    BY <1>1 DEF FromMetric
  <2>2. LatencyCause[service] \in Cause \ {"UNKNOWN"} /\ "MEDIUM" \in Confidence
    BY <1>1 DEF LatencyCause, Cause, Confidence
  <2> QED BY <2>1, <2>2, OneFinding
<1>2. CASE /\ e.level = "high" /\ ~(e.metric = "latency_p95" /\ service \in DOMAIN LatencyCause)
           /\ e.metric \in DOMAIN MetricRule
  <2> DEFINE rule == MetricRule[e.metric]
  <2>1. FromMetric(e) = <<Hypothesis(rule.cause, rule.confidence, {e.id})>>
    BY <1>2 DEF FromMetric
  <2>2. rule.cause \in Cause \ {"UNKNOWN"} /\ rule.confidence \in Confidence
    BY <1>2 DEF MetricRule, Rule, Cause, Confidence, Pool
  <2> HIDE DEF rule
  <2> QED BY <2>1, <2>2, OneFinding
<1>3. CASE \/ e.level # "high"
           \/ /\ ~(e.metric = "latency_p95" /\ service \in DOMAIN LatencyCause)
              /\ e.metric \notin DOMAIN MetricRule
  <2>1. FromMetric(e) = <<>>
    BY <1>3 DEF FromMetric
  <2> QED BY <2>1
<1> QED BY <1>1, <1>2, <1>3

\* What the rules find in any item.
LEMMA SuggestedOf ==
    ASSUME NEW e \in Item
    PROVE  /\ Suggested(e) \in Seq(Hypotheses)
           /\ \A k \in DOMAIN Suggested(e) : Finding(Suggested(e)[k], e)
<1>1. e.id \in Nat /\ e.tool \in Tool
  BY ItemOf
<1>2. CASE e.tool = "query_logs"
  <2>1. Suggested(e) = FromLogs(e)
    BY <1>2, Zenon DEF Suggested
  <2> QED BY <1>1, <2>1, FromLogsOf
<1>3. CASE e.tool = "query_metrics"
  <2>1. Suggested(e) = FromMetric(e)
    BY <1>3, Zenon DEF Suggested
  <2> QED BY <1>1, <2>1, FromMetricOf
<1>4. CASE e.tool = "query_deployments"
  <2>1. Suggested(e) = FromDeployments(e)
    BY <1>4, Zenon DEF Suggested
  <2>2. CASE e.release = "old"
    <3>1. FromDeployments(e) = <<>>
      BY <2>2 DEF FromDeployments
    <3> QED BY <2>1, <3>1
  <2>3. CASE e.release # "old"
    <3> DEFINE l == IF e.release = "faulty" THEN "HIGH" ELSE "LOW"
    <3>1. FromDeployments(e) = <<Hypothesis(Regression, l, {e.id})>>
      BY <2>3 DEF FromDeployments
    <3>2. l \in Confidence /\ Regression \in Cause \ {"UNKNOWN"}
      BY DEF Confidence, Cause, Regression
    <3> HIDE DEF l
    <3> QED BY <1>1, <2>1, <3>1, <3>2, OneFinding
  <2> QED BY <2>2, <2>3
<1>5. CASE e.tool = "search_runbooks"
  <2>1. Suggested(e) = <<>>
    BY <1>5, Zenon DEF Suggested
  <2> QED BY <2>1
<1> QED BY <1>1, <1>2, <1>3, <1>4, <1>5 DEF Tool

\* What BuildHypotheses computes, by name.
SuggestedList == Flattened([i \in DOMAIN evidence |-> Suggested(evidence[i])])
RankedList == SortThenCut(RemoveMetricContradicted(MergeCauses(SuggestedList), evidence))

\* What the rules find in all of the evidence.
LEMMA SuggestedListOf ==
    ASSUME Collected
    PROVE  /\ SuggestedList \in Seq(Hypotheses)
           /\ \A k \in DOMAIN SuggestedList : \E i \in DOMAIN evidence :
                 /\ SuggestedList[k] \in ToSet(Suggested(evidence[i]))
                 /\ Finding(SuggestedList[k], evidence[i])
           /\ \A h : h \in Suggestions <=> \E k \in DOMAIN SuggestedList : SuggestedList[k] = h
<1> DEFINE ss == [i \in DOMAIN evidence |-> Suggested(evidence[i])]
           n == Len(evidence)
<1>1. DOMAIN evidence = 1..n /\ n \in Nat /\ \A i \in 1..n : evidence[i] \in Item
  BY DEF Collected
<1>2. \A i \in 1..n : /\ Suggested(evidence[i]) \in Seq(Hypotheses)
                      /\ \A k \in DOMAIN Suggested(evidence[i]) :
                            Finding(Suggested(evidence[i])[k], evidence[i])
  BY <1>1, SuggestedOf
<1>3. DOMAIN ss = 1..n /\ \A i \in 1..n : ss[i] = Suggested(evidence[i])
  BY <1>1
<1>4. SuggestedList = Flattened(ss)
  BY DEF SuggestedList
<1> HIDE DEF ss, n
<1>5. ss \in Seq(Seq(Hypotheses))
  <2>1. ss = [i \in 1..n |-> ss[i]]
    BY <1>3 DEF ss
  <2> QED BY <1>1, <1>2, <1>3, <2>1
<1>6. /\ SuggestedList \in Seq(Hypotheses)
      /\ \A k \in DOMAIN SuggestedList :
            \E i \in DOMAIN ss : \E j \in DOMAIN ss[i] : SuggestedList[k] = ss[i][j]
      /\ \A i \in DOMAIN ss : \A j \in DOMAIN ss[i] :
            \E k \in DOMAIN SuggestedList : SuggestedList[k] = ss[i][j]
  BY <1>4, <1>5, FlattenedListed
<1>7. \A i \in 1..n : \A h : h \in ToSet(Suggested(evidence[i])) <=>
          \E j \in DOMAIN ss[i] : ss[i][j] = h
  BY <1>3 DEF ToSet
<1>8. \A h : h \in Suggestions <=> \E i \in 1..n : h \in ToSet(Suggested(evidence[i]))
  BY <1>1 DEF Suggestions
<1>9. ASSUME NEW k \in DOMAIN SuggestedList
      PROVE  \E i \in DOMAIN evidence : /\ SuggestedList[k] \in ToSet(Suggested(evidence[i]))
                                        /\ Finding(SuggestedList[k], evidence[i])
  <2>1. PICK i \in 1..n : \E j \in DOMAIN ss[i] : SuggestedList[k] = ss[i][j]
    BY <1>3, <1>6
  <2>2. PICK j \in DOMAIN ss[i] : SuggestedList[k] = ss[i][j]
    BY <2>1
  <2>3. Finding(SuggestedList[k], evidence[i])
    BY <1>2, <1>3, <2>2
  <2>4. SuggestedList[k] \in ToSet(Suggested(evidence[i]))
    BY <1>7, <2>2
  <2> QED BY <1>1, <2>3, <2>4
<1>10. ASSUME NEW h PROVE h \in Suggestions <=> \E k \in DOMAIN SuggestedList : SuggestedList[k] = h
  <2>1. ASSUME h \in Suggestions PROVE \E k \in DOMAIN SuggestedList : SuggestedList[k] = h
    <3>1. PICK i \in 1..n : \E j \in DOMAIN ss[i] : ss[i][j] = h
      BY <1>7, <1>8, <2>1
    <3> QED BY <1>3, <1>6, <3>1
  <2>2. ASSUME NEW k \in DOMAIN SuggestedList, SuggestedList[k] = h PROVE h \in Suggestions
    <3>1. PICK i \in DOMAIN evidence : SuggestedList[k] \in ToSet(Suggested(evidence[i]))
      BY <1>9
    <3> QED BY <1>1, <1>8, <2>2, <3>1
  <2> QED BY <2>1, <2>2
<1> QED BY <1>6, <1>9, <1>10

\* The greatest of some numbers is the one that no other exceeds.
LEMMA MaxOf ==
    ASSUME NEW S \in SUBSET Nat, NEW m \in S, \A n \in S : n <= m
    PROVE  Max(S) = m
<1>1. \A n \in S : m >= n
  OBVIOUS
<1>2. \A x \in S : (\A y \in S : x >= y) => x = m
  OBVIOUS
<1> QED BY <1>1, <1>2 DEF Max

\* The levels weigh one to three, and only LOW weighs one.
LEMMA WeightOf == \A l \in Confidence : Weight[l] \in 1..3 /\ (Weight[l] = 1 <=> l = "LOW")
BY DEF Confidence, Weight

\* The strength of a cause is that of its strongest suggestion.
LEMMA StrengthOf ==
    ASSUME Collected, NEW c
    PROVE  /\ Strength(c) \in 0..3
           /\ (\A k \in DOMAIN SuggestedList : SuggestedList[k].cause # c) => Strength(c) = 0
           /\ \A k \in DOMAIN SuggestedList :
                 /\ SuggestedList[k].cause = c
                 /\ \A j \in DOMAIN SuggestedList : SuggestedList[j].cause = c =>
                       Weight[SuggestedList[j].confidence] <= Weight[SuggestedList[k].confidence]
                 => Strength(c) = Weight[SuggestedList[k].confidence]
<1> DEFINE sl == SuggestedList
           weights == {Weight[h.confidence] : h \in {g \in Suggestions : g.cause = c}}
<1>1. sl \in Seq(Hypotheses) /\ \A h : h \in Suggestions <=> \E k \in DOMAIN sl : sl[k] = h
  BY SuggestedListOf
<1>2. Strength(c) = IF weights = {} THEN 0 ELSE Max(weights)
  BY DEF Strength
<1> HIDE DEF sl
<1>3. \A k \in DOMAIN sl : Weight[sl[k].confidence] \in 1..3
  <2>1. \A k \in DOMAIN sl : sl[k] \in Hypotheses
    BY <1>1
  <2>2. \A k \in DOMAIN sl : sl[k].confidence \in Confidence
    BY <2>1 DEF Hypotheses
  <2> QED BY <2>2, WeightOf
<1>4. \A w : w \in weights <=> \E k \in DOMAIN sl : sl[k].cause = c /\ w = Weight[sl[k].confidence]
  BY <1>1
<1> HIDE DEF weights
<1>5. weights \in SUBSET (1..3)
  BY <1>3, <1>4
<1>6. Strength(c) \in 0..3
  <2>1. CASE weights = {}
    BY <1>2, <2>1
  <2>2. CASE weights # {}
    <3>1. \E m \in weights : \A n \in weights : n <= m
      <4>1. CASE 3 \in weights
        BY <1>5, <4>1
      <4>2. CASE 3 \notin weights /\ 2 \in weights
        BY <1>5, <4>2
      <4>3. CASE 3 \notin weights /\ 2 \notin weights
        <5>1. \A n \in weights : n = 1
          BY <1>5, <4>3
        <5> QED BY <2>2, <5>1
      <4> QED BY <4>1, <4>2, <4>3
    <3>2. PICK m \in weights : \A n \in weights : n <= m
      BY <3>1
    <3>3. weights \in SUBSET Nat
      BY <1>5
    <3>4. Max(weights) = m
      BY <3>2, <3>3, MaxOf
    <3> QED BY <1>2, <1>5, <2>2, <3>4
  <2> QED BY <2>1, <2>2
<1>7. (\A k \in DOMAIN sl : sl[k].cause # c) => Strength(c) = 0
  BY <1>2, <1>4
<1>8. ASSUME NEW k \in DOMAIN sl, sl[k].cause = c,
             \A j \in DOMAIN sl : sl[j].cause = c =>
                Weight[sl[j].confidence] <= Weight[sl[k].confidence]
      PROVE  Strength(c) = Weight[sl[k].confidence]
  <2>1. /\ weights \in SUBSET Nat
        /\ Weight[sl[k].confidence] \in weights
        /\ \A n \in weights : n <= Weight[sl[k].confidence]
    BY <1>4, <1>5, <1>8
  <2> QED BY <1>2, <2>1, MaxOf
<1> QED BY <1>6, <1>7, <1>8 DEF sl

\* What the evidence says of a hypothesis that the rules built: evidence speaks
\* for its cause, as strongly as its confidence tells, and none refutes it.
Supported(h) ==
    /\ Backed(h) /\ h.contra = {}
    /\ Weight[h.confidence] = Strength(h.cause) /\ Strength(h.cause) # 0
    /\ ~(h.cause = Pool /\ PoolIsLow(evidence))
    /\ \A n \in h.support : \E i \in DOMAIN evidence :
          /\ evidence[i].id = n
          /\ \E g \in ToSet(Suggested(evidence[i])) : g.cause = h.cause

\* The causes that the rules propose for the report.
Proposed(c) == Strength(c) # 0 /\ ~(c = Pool /\ PoolIsLow(evidence))

\* Merging and refuting leave distinct causes that the evidence supports.
LEMMA MergedSupported ==
    ASSUME Collected
    PROVE  LET ms == RemoveMetricContradicted(MergeCauses(SuggestedList), evidence)
           IN  /\ ms \in Seq(Hypotheses) /\ DistinctCauses(ms)
               /\ \A k \in DOMAIN ms : Supported(ms[k])
               /\ \A c : Proposed(c) => \E k \in DOMAIN ms : ms[k].cause = c
<1> DEFINE sl == SuggestedList
           mc == MergeCauses(sl)
           ms == RemoveMetricContradicted(mc, evidence)
<1>1. /\ sl \in Seq(Hypotheses)
      /\ \A k \in DOMAIN sl : \E i \in DOMAIN evidence :
            /\ sl[k] \in ToSet(Suggested(evidence[i]))
            /\ Finding(sl[k], evidence[i])
  BY SuggestedListOf
<1>2. \A c : /\ (\A k \in DOMAIN sl : sl[k].cause # c) => Strength(c) = 0
             /\ \A k \in DOMAIN sl :
                   /\ sl[k].cause = c
                   /\ \A j \in DOMAIN sl : sl[j].cause = c =>
                         Weight[sl[j].confidence] <= Weight[sl[k].confidence]
                   => Strength(c) = Weight[sl[k].confidence]
  BY StrengthOf
<1> HIDE DEF sl
<1>3. /\ mc \in Seq(Hypotheses) /\ DistinctCauses(mc)
      /\ \A k \in DOMAIN mc : \E i \in DOMAIN sl : mc[k] = Merged(sl, i)
      /\ \A i \in DOMAIN sl : \E k \in DOMAIN mc : mc[k].cause = sl[i].cause
  BY <1>1, MergedCauses
<1> HIDE DEF mc
<1>4. /\ ms \in Seq(Hypotheses) /\ DistinctCauses(ms)
      /\ \A k \in DOMAIN ms : /\ \E i \in DOMAIN mc : ms[k] = mc[i]
                              /\ PoolIsLow(evidence) => ms[k].cause # Pool
      /\ \A i \in DOMAIN mc : \/ PoolIsLow(evidence) /\ mc[i].cause = Pool
                              \/ \E k \in DOMAIN ms : ms[k] = mc[i]
  BY <1>3, Uncontradicted
<1> HIDE DEF ms
<1>5. ASSUME NEW i \in DOMAIN sl
      PROVE  /\ Backed(Merged(sl, i)) /\ Merged(sl, i).contra = {}
             /\ Weight[Merged(sl, i).confidence] = Strength(Merged(sl, i).cause)
             /\ Strength(Merged(sl, i).cause) # 0
             /\ \A n \in Merged(sl, i).support : \E k \in DOMAIN evidence :
                   /\ evidence[k].id = n
                   /\ \E g \in ToSet(Suggested(evidence[k])) : g.cause = Merged(sl, i).cause
  <2> DEFINE h == Merged(sl, i)
  <2>1. /\ h \in Hypotheses /\ h.cause = sl[i].cause
        /\ \A n : n \in h.support <=>
              \E j \in DOMAIN sl : sl[j].cause = sl[i].cause /\ n \in sl[j].support
        /\ \A n : n \in h.contra <=>
              \E j \in DOMAIN sl : sl[j].cause = sl[i].cause /\ n \in sl[j].contra
        /\ \E j \in DOMAIN sl : sl[j].cause = sl[i].cause /\ h.confidence = sl[j].confidence
        /\ \A j \in DOMAIN sl : sl[j].cause = sl[i].cause =>
              Weight[sl[j].confidence] <= Weight[h.confidence]
    BY <1>1, MergedOf
  <2> HIDE DEF h
  <2>2. Backed(h)
    <3>1. PICK k \in DOMAIN evidence : Finding(sl[i], evidence[k])
      BY <1>1
    <3>2. evidence[k].id \in sl[i].support
      BY <3>1 DEF Finding
    <3> QED BY <2>1, <3>2 DEF Backed
  <2>3. h.contra = {}
    <3>1. \A j \in DOMAIN sl : sl[j].contra = {}
      BY <1>1 DEF Finding
    <3> QED BY <2>1, <3>1
  <2>4. Weight[h.confidence] = Strength(h.cause)
    <3>1. PICK j \in DOMAIN sl : sl[j].cause = sl[i].cause /\ h.confidence = sl[j].confidence
      BY <2>1
    <3>2. \A m \in DOMAIN sl : sl[m].cause = h.cause =>
             Weight[sl[m].confidence] <= Weight[sl[j].confidence]
      BY <2>1, <3>1
    <3> QED BY <1>2, <2>1, <3>1, <3>2
  <2>5. Strength(h.cause) # 0
    <3>1. h.confidence \in Confidence
      BY <2>1 DEF Hypotheses
    <3>2. Weight[h.confidence] \in 1..3
      BY <3>1, WeightOf
    <3> QED BY <2>4, <3>2
  <2>6. ASSUME NEW n \in h.support
        PROVE  \E k \in DOMAIN evidence :
                  /\ evidence[k].id = n
                  /\ \E g \in ToSet(Suggested(evidence[k])) : g.cause = h.cause
    <3>1. PICK j \in DOMAIN sl : sl[j].cause = sl[i].cause /\ n \in sl[j].support
      BY <2>1
    <3>2. PICK k \in DOMAIN evidence : /\ sl[j] \in ToSet(Suggested(evidence[k]))
                                       /\ Finding(sl[j], evidence[k])
      BY <1>1
    <3>3. evidence[k].id = n
      BY <3>1, <3>2 DEF Finding
    <3> QED BY <2>1, <3>1, <3>2, <3>3
  <2> QED BY <2>2, <2>3, <2>4, <2>5, <2>6 DEF h
<1>6. ASSUME NEW k \in DOMAIN ms PROVE Supported(ms[k])
  <2>1. PICK m \in DOMAIN mc : ms[k] = mc[m]
    BY <1>4
  <2>2. PICK i \in DOMAIN sl : mc[m] = Merged(sl, i)
    BY <1>3
  <2>3. ms[k] = Merged(sl, i)
    BY <2>1, <2>2
  <2>4. ~(ms[k].cause = Pool /\ PoolIsLow(evidence))
    BY <1>4
  <2> QED BY <1>5, <2>3, <2>4 DEF Supported
<1>7. ASSUME NEW c, Proposed(c) PROVE \E k \in DOMAIN ms : ms[k].cause = c
  <2>1. PICK i \in DOMAIN sl : sl[i].cause = c
    BY <1>2, <1>7 DEF Proposed
  <2>2. PICK m \in DOMAIN mc : mc[m].cause = c
    BY <1>3, <2>1
  <2> QED BY <1>4, <1>7, <2>2 DEF Proposed
<1> QED BY <1>4, <1>6, <1>7 DEF ms, mc, sl

\* The three strongest causes, numbered.
LEMMA RankedListOf ==
    ASSUME Collected
    PROVE  /\ RankedList \in Seq(Hypotheses) /\ Len(RankedList) <= 3
           /\ DistinctCauses(RankedList)
           /\ \A k \in DOMAIN RankedList : Supported(RankedList[k])
           /\ \A c : Proposed(c) =>
                 \/ \E k \in DOMAIN RankedList : RankedList[k].cause = c
                 \/ /\ Len(RankedList) = 3
                    /\ \A k \in DOMAIN RankedList : Strength(RankedList[k].cause) >= Strength(c)
           /\ \A c : Proposed(c) =>
                 RankedList # <<>> /\ Strength(RankedList[1].cause) >= Strength(c)
<1> DEFINE ms == RemoveMetricContradicted(MergeCauses(SuggestedList), evidence)
           key == [i \in DOMAIN ms |-> 3 - Weight[ms[i].confidence]]
           r == RankedList
<1>1. /\ ms \in Seq(Hypotheses) /\ DistinctCauses(ms)
      /\ \A k \in DOMAIN ms : Supported(ms[k])
      /\ \A c : Proposed(c) => \E k \in DOMAIN ms : ms[k].cause = c
  BY MergedSupported
<1>2. r = TopThree(SortedBy(ms, key))
  BY DEF RankedList, SortThenCut, ByConfidence
<1> HIDE DEF ms
<1>3. \A i \in DOMAIN ms : Weight[ms[i].confidence] \in 1..3
  <2>1. \A i \in DOMAIN ms : ms[i] \in Hypotheses
    BY <1>1
  <2>2. \A i \in DOMAIN ms : ms[i].confidence \in Confidence
    BY <2>1 DEF Hypotheses
  <2> QED BY <2>2, WeightOf
<1>4. key \in [DOMAIN ms -> Nat] /\ \A i \in DOMAIN ms : key[i] = 3 - Strength(ms[i].cause)
  BY <1>1, <1>3 DEF Supported
<1> HIDE DEF key, r
<1>5. /\ r \in Seq(Hypotheses) /\ Len(r) = (IF Len(ms) < 3 THEN Len(ms) ELSE 3)
      /\ \E q : Selects(r, ms, key, q)
  BY <1>1, <1>2, <1>4, LeastThree
<1>6. PICK q : Selects(r, ms, key, q)
  BY <1>5
<1>7. /\ q \in [DOMAIN r -> DOMAIN ms]
      /\ \A k \in DOMAIN r : r[k] = ms[q[k]]
      /\ \A j, k \in DOMAIN r : j < k => Leads(key, q[j], q[k])
      /\ \A i \in DOMAIN ms : \/ \E k \in DOMAIN r : q[k] = i
                              \/ Len(r) = 3 /\ \A k \in DOMAIN r : Leads(key, q[k], i)
  BY <1>6 DEF Selects
<1>8. DOMAIN r = 1..Len(r) /\ Len(r) \in Nat /\ Len(r) <= 3
  <2> r \in Seq(Hypotheses) /\ Len(ms) \in Nat
    BY <1>1, <1>5
  <2>1. DOMAIN r = 1..Len(r) /\ Len(r) \in Nat
    OBVIOUS
  <2> QED BY <1>5, <2>1
<1>9. \A i \in DOMAIN ms : key[i] \in Nat /\ Strength(ms[i].cause) \in Nat
  BY <1>4, StrengthOf
<1>10. DOMAIN ms = 1..Len(ms) /\ Len(ms) \in Nat
  BY <1>1
<1>11. \A j, k \in DOMAIN r : j # k => q[j] # q[k]
  <2> SUFFICES ASSUME NEW j \in DOMAIN r, NEW k \in DOMAIN r, j < k PROVE q[j] # q[k]
    BY <1>8
  <2>1. key[q[j]] < key[q[k]] \/ q[j] < q[k]
    BY <1>7 DEF Leads
  <2>2. q[j] \in DOMAIN ms /\ q[k] \in DOMAIN ms
    BY <1>7
  <2> QED BY <1>9, <1>10, <2>1, <2>2
<1>12. DistinctCauses(r)
  <2>1. \A k \in DOMAIN r : r[k].cause = ms[q[k]].cause
    BY <1>7
  <2> QED BY <1>1, <1>5, <1>7, <1>11, <2>1, DistinctPicked
<1>13. \A k \in DOMAIN r : Supported(r[k])
  BY <1>1, <1>7
<1>14. ASSUME NEW c, Proposed(c)
       PROVE  /\ \/ \E k \in DOMAIN r : r[k].cause = c
                 \/ Len(r) = 3 /\ \A k \in DOMAIN r : Strength(r[k].cause) >= Strength(c)
              /\ r # <<>> /\ Strength(r[1].cause) >= Strength(c)
  <2>1. PICK i \in DOMAIN ms : ms[i].cause = c
    BY <1>1, <1>14
  <2>2. CASE \E k \in DOMAIN r : q[k] = i
    <3>1. PICK k \in DOMAIN r : q[k] = i
      BY <2>2
    <3>2. r[k].cause = c
      BY <1>7, <2>1, <3>1
    <3>3. 1 \in DOMAIN r /\ r # <<>>
      BY <1>8
    <3>4. key[q[1]] <= key[i]
      <4>1. q[1] \in DOMAIN ms
        BY <1>7, <3>3
      <4>2. CASE k = 1
        BY <1>9, <3>1, <4>1, <4>2
      <4>3. CASE k # 1
        <5>1. 1 < k
          BY <1>8, <4>3
        <5>2. key[q[1]] < key[q[k]] \/ key[q[1]] = key[q[k]]
          BY <1>7, <3>3, <5>1 DEF Leads
        <5> QED BY <1>9, <3>1, <4>1, <5>2
      <4> QED BY <4>2, <4>3
    <3>5. Strength(r[1].cause) >= Strength(c)
      <4>1. r[1] = ms[q[1]] /\ q[1] \in DOMAIN ms
        BY <1>7, <3>3
      <4>2. /\ key[q[1]] = 3 - Strength(r[1].cause) /\ key[i] = 3 - Strength(c)
            /\ Strength(r[1].cause) \in Nat /\ Strength(c) \in Nat
        BY <1>4, <1>9, <2>1, <4>1
      <4> QED BY <3>4, <4>2
    <3> QED BY <3>2, <3>3, <3>5
  <2>3. CASE ~\E k \in DOMAIN r : q[k] = i
    <3>1. Len(r) = 3 /\ \A k \in DOMAIN r : key[q[k]] < key[i] \/ key[q[k]] = key[i]
      BY <1>7, <2>3 DEF Leads
    <3>2. ASSUME NEW k \in DOMAIN r PROVE Strength(r[k].cause) >= Strength(c)
      <4>1. r[k] = ms[q[k]] /\ q[k] \in DOMAIN ms
        BY <1>7
      <4>2. /\ key[q[k]] = 3 - Strength(r[k].cause) /\ key[i] = 3 - Strength(c)
            /\ Strength(r[k].cause) \in Nat /\ Strength(c) \in Nat
        BY <1>4, <1>9, <2>1, <4>1
      <4>3. key[q[k]] < key[i] \/ key[q[k]] = key[i]
        BY <3>1
      <4> QED BY <4>2, <4>3
    <3>3. 1 \in DOMAIN r
      BY <1>8, <3>1
    <3>4. r # <<>>
      BY <3>3
    <3> QED BY <3>4, <3>1, <3>2, <3>3
  <2> QED BY <2>2, <2>3
<1> QED BY <1>5, <1>8, <1>12, <1>13, <1>14 DEF r

-----------------------------------------------------------------------------
(* What the nodes of the rule-based agent make of the hypotheses.          *)

\* A list of hypotheses as a diagnosis keeps it.
ListOK(hs) ==
    /\ hs \in Seq(Hypotheses) /\ Len(hs) <= 3
    /\ DistinctCauses(hs)
    /\ \A k \in DOMAIN hs : hs[k].rank \in 0..3

\* The references of h are collected evidence that speaks for its cause, and a
\* confidence above low is earned.
Grounded(h) ==
    /\ h.support \cup h.contra \subseteq Ids(evidence)
    /\ \A n \in h.support : \E i \in DOMAIN evidence :
          /\ evidence[i].id = n
          /\ \E g \in ToSet(Suggested(evidence[i])) : g.cause = h.cause
    /\ h.confidence # "LOW" => /\ h.contra = {}
                               /\ Strength(h.cause) >= 2
                               /\ ~(h.cause = Pool /\ PoolIsLow(evidence))

\* A proposed cause is in the list, or three as strong are.
Shortlisted(hs) ==
    \A c : Proposed(c) =>
        \/ \E k \in DOMAIN hs : hs[k].cause = c
        \/ Len(hs) = 3 /\ \A k \in DOMAIN hs : Strength(hs[k].cause) >= Strength(c)

\* If a cause is proposed with at least a medium confidence, so is the first of
\* the list, unless it is a regression that was refuted.
LedByStrong(hs) ==
    (\E c : Proposed(c) /\ Strength(c) >= 2) =>
        /\ hs # <<>> /\ Backed(hs[1])
        /\ hs[1].confidence # "LOW" \/ (hs[1].cause = Regression /\ hs[1].contra # {})

Argued(hs) == (\A k \in DOMAIN hs : Grounded(hs[k])) /\ Shortlisted(hs) /\ LedByStrong(hs)

\* A regression keeps its confidence only if no query found no deployment.
RegressionChecked(hs) ==
    \A k \in DOMAIN hs : hs[k].cause = Regression /\ hs[k].confidence # "LOW" => NoDeployment = {}

\* The numbers of the evidence.
LEMMA IdsOf == Collected => Ids(evidence) \in SUBSET Nat
<1> SUFFICES ASSUME Collected, NEW i \in DOMAIN evidence PROVE evidence[i].id \in Nat
  BY DEF Ids
<1>1. evidence[i] \in Item
  BY DEF Collected
<1> QED BY <1>1, ItemOf

\* What the evidence supports is grounded.
LEMMA SupportedGrounded ==
    ASSUME Collected, NEW h \in Hypotheses, Supported(h)
    PROVE  Grounded(h)
<1>1. h.support \cup h.contra \subseteq Ids(evidence)
  BY DEF Supported, Ids
<1>2. ASSUME h.confidence # "LOW" PROVE Strength(h.cause) >= 2
  <2>1. h.confidence \in Confidence
    BY DEF Hypotheses
  <2>2. Weight[h.confidence] \in 1..3 /\ Weight[h.confidence] # 1
    BY <1>2, <2>1, WeightOf
  <2> QED BY <2>2 DEF Supported
<1> QED BY <1>1, <1>2 DEF Grounded, Supported

\* What _build_hypotheses of the rules leaves.
BuiltByRules == IF RankedList = <<>> THEN <<Unknown>> ELSE BackedFirst(Numbered(RankedList))

\* It is the ranked list, numbered.
LEMMA BuiltList ==
    ASSUME Collected
    PROVE  /\ BuildHypotheses => hypotheses' = BuiltByRules
           /\ RankedList = <<>> => BuiltByRules = <<Unknown>>
           /\ RankedList # <<>> =>
                 /\ BuiltByRules = Numbered(RankedList)
                 /\ BuiltByRules # <<>> /\ DOMAIN BuiltByRules = DOMAIN RankedList
                 /\ Backed(BuiltByRules[1])
                 /\ \A k \in DOMAIN RankedList : BuiltByRules[k].cause = RankedList[k].cause
<1> DEFINE r == RankedList
           hs == BuiltByRules
           l == Numbered(r)
<1>1. r \in Seq(Hypotheses) /\ DistinctCauses(r) /\ \A k \in DOMAIN r : Supported(r[k])
  BY RankedListOf
<1>2. /\ hs = IF r = <<>> THEN <<Unknown>> ELSE BackedFirst(l)
      /\ BuildHypotheses => hypotheses' = hs
  BY DEF BuildHypotheses, RankedList, SuggestedList, BuiltByRules
<1> HIDE DEF r, hs
<1>3. CASE r = <<>>
  BY <1>2, <1>3 DEF r, hs
<1>4. CASE r # <<>>
  <2>1. /\ l \in Seq(Hypotheses) /\ Len(l) = Len(r)
        /\ \A i \in DOMAIN r : l[i].cause = r[i].cause /\ l[i].support = r[i].support
    BY <1>1, NumberedOf
  <2> HIDE DEF l
  <2>2. DOMAIN r = 1..Len(r) /\ Len(r) \in Nat /\ DOMAIN l = DOMAIN r
    <3> r \in Seq(Hypotheses) /\ l \in Seq(Hypotheses) /\ Len(l) = Len(r)
      BY <1>1, <2>1
    <3> QED OBVIOUS
  <2>3. 1 \in DOMAIN r /\ l # <<>>
    <3>1. 1 \in DOMAIN r
      BY <1>1, <1>4
    <3> QED BY <2>2, <3>1
  <2>4. Backed(l[1])
    BY <1>1, <2>1, <2>3 DEF Supported, Backed
  <2>5. hs = l
    BY <1>2, <1>4, <2>2, <2>3, <2>4 DEF BackedFirst
  <2> QED BY <1>2, <1>4, <2>1, <2>2, <2>3, <2>4, <2>5 DEF l, r, hs
<1> QED BY <1>3, <1>4

\* They are argued.
LEMMA BuiltOf ==
    ASSUME Collected, BuildHypotheses
    PROVE  ListOK(hypotheses') /\ Argued(hypotheses')
<1> DEFINE r == RankedList
           hs == hypotheses'
<1>1. /\ r \in Seq(Hypotheses) /\ Len(r) <= 3 /\ DistinctCauses(r)
      /\ \A k \in DOMAIN r : Supported(r[k])
      /\ \A c : Proposed(c) =>
            \/ \E k \in DOMAIN r : r[k].cause = c
            \/ Len(r) = 3 /\ \A k \in DOMAIN r : Strength(r[k].cause) >= Strength(c)
      /\ \A c : Proposed(c) => r # <<>> /\ Strength(r[1].cause) >= Strength(c)
  BY RankedListOf
<1> HIDE DEF r, hs
<1>2. r = <<>> => hs = <<Unknown>>
  BY BuiltList DEF r, hs
<1>3. CASE r = <<>>
  <2>1. hs = <<Unknown>>
    BY <1>2, <1>3
  <2>2. /\ Unknown \in Hypotheses /\ Unknown.rank = 1 /\ Unknown.confidence = "LOW"
        /\ Unknown.support = {} /\ Unknown.contra = {}
    BY DEF Unknown, Hypothesis, Hypotheses, Cause, Confidence
  <2> HIDE DEF Unknown
  <2>3. hs \in Seq(Hypotheses) /\ Len(hs) = 1 /\ DOMAIN hs = {1} /\ hs[1] = Unknown
    BY <2>1, <2>2
  <2>4. ListOK(hs)
    BY <2>2, <2>3 DEF ListOK, DistinctCauses
  <2>5. Grounded(Unknown)
    BY <2>2 DEF Grounded
  <2>6. \A c : ~Proposed(c)
    BY <1>1, <1>3
  <2>7. Argued(hs)
    BY <2>3, <2>5, <2>6 DEF Argued, Shortlisted, LedByStrong
  <2> QED BY <2>4, <2>7 DEF hs
<1>4. CASE r # <<>>
  <2> DEFINE l == Numbered(r)
  <2>1. /\ l \in Seq(Hypotheses) /\ Len(l) = Len(r) /\ DistinctCauses(l)
        /\ \A i \in DOMAIN r : /\ l[i].cause = r[i].cause
                               /\ l[i].confidence = r[i].confidence
                               /\ l[i].support = r[i].support
                               /\ l[i].contra = r[i].contra
                               /\ l[i].rank = i
    BY <1>1, NumberedOf
  <2> HIDE DEF l
  <2>2. DOMAIN r = 1..Len(r) /\ Len(r) \in Nat /\ DOMAIN l = DOMAIN r
    <3> r \in Seq(Hypotheses) /\ l \in Seq(Hypotheses) /\ Len(l) = Len(r)
      BY <1>1, <2>1
    <3> QED OBVIOUS
  <2>3. 1 \in DOMAIN r /\ l # <<>>
    <3>1. Len(r) # 0
      BY <1>1, <1>4
    <3>2. 1 \in DOMAIN r
      BY <2>2, <3>1
    <3> QED BY <2>2, <3>2
  <2>4. \A k \in DOMAIN r : Supported(l[k])
    BY <1>1, <2>1 DEF Supported, Backed
  <2>5. Backed(l[1])
    BY <2>3, <2>4 DEF Supported
  <2>6. hs = l
    BY <1>4, BuiltList DEF l, hs, r
  <2>7. ListOK(l)
    <3>1. \A k \in DOMAIN l : k \in 0..3
      BY <1>1, <2>2
    <3> QED BY <1>1, <2>1, <2>2, <3>1 DEF ListOK
  <2>8. \A k \in DOMAIN l : Grounded(l[k])
    <3>1. \A k \in DOMAIN l : l[k] \in Hypotheses
      BY <2>1
    <3> QED BY <2>2, <2>4, <3>1, SupportedGrounded
  <2>9. Shortlisted(l)
    BY <1>1, <2>1, <2>2 DEF Shortlisted
  <2>10. LedByStrong(l)
    <3> SUFFICES ASSUME NEW c, Proposed(c), Strength(c) >= 2 PROVE l[1].confidence # "LOW"
      BY <2>3, <2>5 DEF LedByStrong
    <3>1. Strength(l[1].cause) >= Strength(c)
      BY <1>1, <2>1, <2>3
    <3>2. Weight[l[1].confidence] = Strength(l[1].cause)
      BY <2>3, <2>4 DEF Supported
    <3>3. Strength(c) \in Nat /\ Strength(l[1].cause) \in Nat
      BY StrengthOf
    <3>4. Weight["LOW"] = 1
      BY DEF Weight
    <3> QED BY <3>1, <3>2, <3>3, <3>4
  <2> QED BY <2>6, <2>7, <2>8, <2>9, <2>10 DEF Argued, hs
<1> QED BY <1>3, <1>4

\* A hypothesis stays grounded when its confidence falls.
LEMMA GroundedStill ==
    ASSUME NEW g, NEW h, Grounded(g),
           h.cause = g.cause, h.support = g.support, h.contra \subseteq Ids(evidence),
           h.confidence = "LOW" \/ (h.confidence = g.confidence /\ h.contra = g.contra)
    PROVE  Grounded(h)
<1>1. g.support \cup h.contra \subseteq Ids(evidence)
  BY DEF Grounded
<1>2. \A n \in g.support : \E i \in DOMAIN evidence :
          /\ evidence[i].id = n
          /\ \E s \in ToSet(Suggested(evidence[i])) : s.cause = g.cause
  BY DEF Grounded
<1>3. h.confidence # "LOW" => /\ h.contra = {}
                             /\ Strength(g.cause) >= 2
                             /\ ~(g.cause = Pool /\ PoolIsLow(evidence))
  BY DEF Grounded
<1> QED BY <1>1, <1>2, <1>3 DEF Grounded

\* The deployment queries are evidence.
LEMMA DeployedOf == \A rs : Deployed(rs) \subseteq Ids(evidence)
BY DEF Deployed, Ids

\* A refuted regression is demoted and nothing else changes.
LEMMA DemotedOf ==
    ASSUME Collected, ListOK(hypotheses),
           NEW old \in SUBSET Ids(evidence), NoDeployment \subseteq old
    PROVE  LET t == DemoteRegression(old)
           IN  /\ ListOK(t) /\ RegressionChecked(t)
               /\ Argued(hypotheses) => Argued(t)
<1> DEFINE hs == hypotheses
           t == DemoteRegression(old)
           Demoted(k) == hs[k].cause = Regression /\ old # {}
<1>1. hs \in Seq(Hypotheses) /\ DOMAIN hs = 1..Len(hs) /\ Len(hs) \in Nat
  BY DEF ListOK
<1>2. t = [k \in 1..Len(hs) |->
              IF Demoted(k) THEN [hs[k] EXCEPT !.contra = @ \cup old, !.confidence = "LOW"]
              ELSE hs[k]]
  BY <1>1 DEF DemoteRegression
<1>3. old \in SUBSET Nat
  BY IdsOf
<1> HIDE DEF t
<1>4. \A k \in 1..Len(hs) : hs[k] \in Hypotheses
  BY <1>1
<1>5. ASSUME NEW k \in 1..Len(hs)
      PROVE  /\ t[k] \in Hypotheses
             /\ t[k].cause = hs[k].cause /\ t[k].support = hs[k].support /\ t[k].rank = hs[k].rank
             /\ t[k].confidence = IF Demoted(k) THEN "LOW" ELSE hs[k].confidence
             /\ t[k].contra = IF Demoted(k) THEN hs[k].contra \cup old ELSE hs[k].contra
  <2>1. CASE Demoted(k)
    <3>1. t[k] = [hs[k] EXCEPT !.contra = @ \cup old, !.confidence = "LOW"]
      BY <1>2, <2>1
    <3> QED BY <1>3, <1>4, <2>1, <3>1 DEF Hypotheses, Confidence
  <2>2. CASE ~Demoted(k)
    <3>1. t[k] = hs[k]
      BY <1>2, <2>2
    <3> QED BY <1>4, <2>2, <3>1
  <2> QED BY <2>1, <2>2
<1>6. t \in Seq(Hypotheses) /\ Len(t) = Len(hs) /\ DOMAIN t = 1..Len(hs)
  <2>1. t = [k \in 1..Len(hs) |-> t[k]]
    BY <1>2
  <2>2. \A k \in 1..Len(hs) : t[k] \in Hypotheses
    BY <1>5
  <2> QED BY <1>1, <2>1, <2>2
<1> HIDE DEF Demoted
<1>7. ListOK(t)
  <2>1. DistinctCauses(t)
    <3> SUFFICES ASSUME NEW i \in 1..Len(hs), NEW j \in 1..Len(hs), i # j
                 PROVE  t[i].cause # t[j].cause
      BY <1>6 DEF DistinctCauses
    <3>1. t[i].cause = hs[i].cause /\ t[j].cause = hs[j].cause
      BY <1>5
    <3>2. DistinctCauses(hs) /\ i \in DOMAIN hs /\ j \in DOMAIN hs
      BY <1>1 DEF ListOK
    <3> QED BY <3>1, <3>2 DEF DistinctCauses
  <2> QED BY <1>1, <1>5, <1>6, <2>1 DEF ListOK
<1>8. ASSUME Argued(hs), NEW k \in 1..Len(hs) PROVE Grounded(t[k])
  <2>1. Grounded(hs[k])
    BY <1>1, <1>8 DEF Argued
  <2>2. hs[k].contra \subseteq Ids(evidence)
    BY <2>1 DEF Grounded
  <2>3. CASE Demoted(k)
    <3>1. t[k].contra \subseteq Ids(evidence)
      BY <1>5, <2>2, <2>3
    <3> QED BY <1>5, <2>1, <2>3, <3>1, GroundedStill
  <2>4. CASE ~Demoted(k)
    <3>1. t[k].contra \subseteq Ids(evidence)
      BY <1>5, <2>2, <2>4
    <3> QED BY <1>5, <2>1, <2>4, <3>1, GroundedStill
  <2> QED BY <2>3, <2>4
<1>9. ASSUME Argued(hs) PROVE Shortlisted(t)
  <2> SUFFICES ASSUME NEW c, Proposed(c)
               PROVE  \/ \E k \in 1..Len(hs) : t[k].cause = c
                      \/ Len(t) = 3 /\ \A k \in 1..Len(hs) : Strength(t[k].cause) >= Strength(c)
    BY <1>6 DEF Shortlisted
  <2>1. \/ \E k \in 1..Len(hs) : hs[k].cause = c
        \/ Len(hs) = 3 /\ \A k \in 1..Len(hs) : Strength(hs[k].cause) >= Strength(c)
    BY <1>1, <1>9 DEF Argued, Shortlisted
  <2> QED BY <1>5, <1>6, <2>1
<1>10. ASSUME Argued(hs) PROVE LedByStrong(t)
  <2> SUFFICES ASSUME \E c : Proposed(c) /\ Strength(c) >= 2
               PROVE  /\ t # <<>> /\ Backed(t[1])
                      /\ t[1].confidence # "LOW" \/ (t[1].cause = Regression /\ t[1].contra # {})
    BY DEF LedByStrong
  <2>1. /\ hs # <<>> /\ Backed(hs[1])
        /\ hs[1].confidence # "LOW" \/ (hs[1].cause = Regression /\ hs[1].contra # {})
    BY <1>10 DEF Argued, LedByStrong
  <2>2. 1 \in 1..Len(hs) /\ t # <<>>
    <3>1. Len(hs) # 0
      BY <1>1, <2>1
    <3>2. 1 \in 1..Len(hs)
      BY <1>1, <3>1
    <3> QED BY <1>6, <3>2
  <2>3. Backed(t[1])
    BY <1>5, <2>1, <2>2 DEF Backed
  <2>4. CASE Demoted(1)
    BY <1>5, <2>2, <2>3, <2>4 DEF Demoted
  <2>5. CASE ~Demoted(1)
    BY <1>5, <2>1, <2>2, <2>3, <2>5
  <2> QED BY <2>4, <2>5
<1>11. RegressionChecked(t)
  <2> SUFFICES ASSUME NEW k \in 1..Len(hs), t[k].cause = Regression, t[k].confidence # "LOW"
               PROVE  NoDeployment = {}
    BY <1>6 DEF RegressionChecked
  <2>1. old = {}
    BY <1>5 DEF Demoted
  <2> QED BY <2>1
<1> QED BY <1>6, <1>7, <1>8, <1>9, <1>10, <1>11 DEF Argued, t

\* What _verify_hypotheses leaves.
LEMMA VerifiedOf ==
    ASSUME Collected, ListOK(hypotheses), VerifyHypotheses
    PROVE  /\ ListOK(hypotheses') /\ RegressionChecked(hypotheses')
           /\ Argued(hypotheses) => Argued(hypotheses')
<1>1. PICK aged \in SUBSET Deployed({"recent", "faulty"}) :
          hypotheses' = DemoteRegression(NoDeployment \cup aged)
  BY DEF VerifyHypotheses
<1>2. NoDeployment \cup aged \in SUBSET Ids(evidence)
  BY DeployedOf DEF NoDeployment
<1> QED BY <1>1, <1>2, DemotedOf

\* The validation leaves the order of the argued hypotheses as it is where it
\* matters, and their references.
LEMMA ValidatedArgued ==
    ASSUME Collected, ListOK(hypotheses), ValidateEvidence
    PROVE  /\ ListOK(hypotheses') /\ Ranked(hypotheses') /\ FullyTraceable(hypotheses', evidence)
           /\ Argued(hypotheses) /\ RegressionChecked(hypotheses) =>
                 Argued(hypotheses') /\ RegressionChecked(hypotheses')
<1> DEFINE hs == hypotheses
           d == DropUnknownReferences(hs, evidence)
           t == hypotheses'
<1>1. hs \in Seq(Hypotheses) /\ DistinctCauses(hs) /\ Len(hs) <= 3
  BY DEF ListOK
<1>2. t = FilterWithoutEvidence(d)
  BY DEF ValidateEvidence
<1>3. /\ t \in Seq(Hypotheses) /\ Len(t) = Len(hs)
      /\ DistinctCauses(t) /\ Ranked(t) /\ FullyTraceable(t, evidence)
  BY <1>1, <1>2, ValidatedOf
<1>4. /\ d \in Seq(Hypotheses) /\ DOMAIN d = DOMAIN hs
      /\ \A i \in DOMAIN hs : /\ d[i].cause = hs[i].cause
                              /\ d[i].confidence = hs[i].confidence
                              /\ d[i].support = hs[i].support \cap Ids(evidence)
                              /\ d[i].contra = hs[i].contra \cap Ids(evidence)
  BY <1>1, ReferencesDropped
<1> HIDE DEF d
<1>5. PICK p : Refiled(t, d, p)
  BY <1>2, <1>4, FilteredOf
<1> HIDE DEF t
<1>6. /\ \A k \in DOMAIN t :
            /\ p[k] \in DOMAIN hs
            /\ t[k].cause = d[p[k]].cause
            /\ t[k].support = d[p[k]].support
            /\ t[k].contra = d[p[k]].contra
            /\ t[k].confidence = IF Backed(t[k]) THEN d[p[k]].confidence ELSE "LOW"
      /\ \A i \in DOMAIN hs : \E k \in DOMAIN t : p[k] = i
      /\ d # <<>> /\ Backed(d[1]) => p[1] = 1
  BY <1>4, <1>5 DEF Refiled
<1>7. DOMAIN t = 1..Len(t) /\ Len(t) \in Nat /\ DOMAIN hs = 1..Len(hs)
  <2> t \in Seq(Hypotheses) /\ hs \in Seq(Hypotheses)
    BY <1>1, <1>3
  <2> QED OBVIOUS
<1>8. ListOK(t)
  <2>1. \A k \in DOMAIN t : t[k].rank = k /\ k \in 0..3
    BY <1>1, <1>3, <1>7 DEF Ranked
  <2> QED BY <1>1, <1>3, <2>1 DEF ListOK
<1>9. ASSUME Argued(hs), RegressionChecked(hs) PROVE Argued(t) /\ RegressionChecked(t)
  <2>1. \A i \in DOMAIN hs : Grounded(hs[i])
    BY <1>9 DEF Argued
  <2>2. \A i \in DOMAIN hs : d[i].support = hs[i].support /\ d[i].contra = hs[i].contra
    <3>1. \A i \in DOMAIN hs : hs[i].support \subseteq Ids(evidence) /\ hs[i].contra \subseteq Ids(evidence)
      BY <2>1 DEF Grounded
    <3> QED BY <1>4, <3>1
  <2>3. ASSUME NEW k \in DOMAIN t
        PROVE  /\ p[k] \in DOMAIN hs
               /\ t[k].cause = hs[p[k]].cause
               /\ t[k].support = hs[p[k]].support
               /\ t[k].contra = hs[p[k]].contra
               /\ t[k].confidence = IF Backed(t[k]) THEN hs[p[k]].confidence ELSE "LOW"
    BY <1>4, <1>6, <2>2
  <2>4. ASSUME NEW k \in DOMAIN t PROVE Grounded(t[k])
    <3>1. Grounded(hs[p[k]])
      BY <2>1, <2>3
    <3>2. hs[p[k]].contra \subseteq Ids(evidence)
      BY <3>1 DEF Grounded
    <3> QED BY <2>3, <3>1, <3>2, GroundedStill
  <2>5. Shortlisted(t)
    <3> SUFFICES ASSUME NEW c, Proposed(c)
                 PROVE  \/ \E k \in DOMAIN t : t[k].cause = c
                        \/ Len(t) = 3 /\ \A k \in DOMAIN t : Strength(t[k].cause) >= Strength(c)
      BY DEF Shortlisted
    <3>1. CASE \E i \in DOMAIN hs : hs[i].cause = c
      <4>1. PICK i \in DOMAIN hs : hs[i].cause = c
        BY <3>1
      <4>2. PICK k \in DOMAIN t : p[k] = i
        BY <1>6
      <4> QED BY <2>3, <4>1, <4>2
    <3>2. CASE Len(hs) = 3 /\ \A i \in DOMAIN hs : Strength(hs[i].cause) >= Strength(c)
      BY <1>3, <2>3, <3>2
    <3> QED BY <1>9, <3>1, <3>2 DEF Argued, Shortlisted
  <2>6. LedByStrong(t)
    <3> SUFFICES ASSUME \E c : Proposed(c) /\ Strength(c) >= 2
                 PROVE  /\ t # <<>> /\ Backed(t[1])
                        /\ t[1].confidence # "LOW" \/ (t[1].cause = Regression /\ t[1].contra # {})
      BY DEF LedByStrong
    <3>1. /\ hs # <<>> /\ Backed(hs[1])
          /\ hs[1].confidence # "LOW" \/ (hs[1].cause = Regression /\ hs[1].contra # {})
      BY <1>9 DEF Argued, LedByStrong
    <3>2. Len(hs) # 0
      BY <1>1, <3>1
    <3>3. 1 \in DOMAIN hs /\ 1 \in DOMAIN t
      BY <1>3, <1>7, <3>2
    <3>4. t # <<>> /\ d # <<>>
      BY <1>4, <3>3
    <3>5. p[1] = 1
      BY <1>6, <2>2, <3>1, <3>3, <3>4 DEF Backed
    <3> QED BY <2>3, <3>1, <3>3, <3>4, <3>5 DEF Backed
  <2>7. RegressionChecked(t)
    <3> SUFFICES ASSUME NEW k \in DOMAIN t, t[k].cause = Regression, t[k].confidence # "LOW"
                 PROVE  NoDeployment = {}
      BY DEF RegressionChecked
    <3>1. hs[p[k]].cause = Regression /\ hs[p[k]].confidence # "LOW" /\ p[k] \in DOMAIN hs
      BY <2>3
    <3> QED BY <1>9, <3>1 DEF RegressionChecked
  <2> QED BY <2>4, <2>5, <2>6, <2>7 DEF Argued
<1> QED BY <1>3, <1>8, <1>9 DEF t

-----------------------------------------------------------------------------
(* What a diagnosis by the rules ends with.                                *)

\* What the proofs say of the evidence stays true while the evidence stays.
LEMMA SameSuggestions ==
    ASSUME Collected, service' = service, evidence' = evidence
    PROVE  /\ \A i \in DOMAIN evidence : Suggested(evidence[i])' = Suggested(evidence[i])
           /\ Suggestions' = Suggestions
<1>1. ASSUME NEW e \in Item PROVE Suggested(e)' = Suggested(e)
  <2>1. e.tool \in Tool
    BY ItemOf
  <2>2. CASE e.tool = "query_logs"
    <3>1. Suggested(e) = FromLogs(e)
      BY <2>2, Zenon DEF Suggested
    <3>2. Suggested(e)' = FromLogs(e)
      BY <2>2, Zenon DEF Suggested
    <3> QED BY <3>1, <3>2
  <2>3. CASE e.tool = "query_metrics"
    <3>1. Suggested(e) = FromMetric(e)
      BY <2>3, Zenon DEF Suggested
    <3>2. Suggested(e)' = FromMetric(e)'
      BY <2>3, Zenon DEF Suggested
    <3>3. FromMetric(e)' = FromMetric(e)
      BY DEF FromMetric
    <3> QED BY <3>1, <3>2, <3>3
  <2>4. CASE e.tool = "query_deployments"
    <3>1. Suggested(e) = FromDeployments(e)
      BY <2>4, Zenon DEF Suggested
    <3>2. Suggested(e)' = FromDeployments(e)
      BY <2>4, Zenon DEF Suggested
    <3> QED BY <3>1, <3>2
  <2>5. CASE e.tool = "search_runbooks"
    <3>1. Suggested(e) = <<>>
      BY <2>5, Zenon DEF Suggested
    <3>2. Suggested(e)' = <<>>
      BY <2>5, Zenon DEF Suggested
    <3> QED BY <3>1, <3>2
  <2> QED BY <2>1, <2>2, <2>3, <2>4, <2>5 DEF Tool
<1>2. \A i \in DOMAIN evidence : Suggested(evidence[i])' = Suggested(evidence[i])
  <2> SUFFICES ASSUME NEW i \in DOMAIN evidence
               PROVE  Suggested(evidence[i])' = Suggested(evidence[i])
    OBVIOUS
  <2>1. evidence[i] \in Item /\ evidence[i]' = evidence[i]
    BY DEF Collected
  <2> QED BY <1>1, <2>1
<1>3. Suggestions' = Suggestions
  BY <1>2 DEF Suggestions
<1> QED BY <1>2, <1>3

\* Hypotheses stay as well argued while the service and the evidence stay.
LEMMA SameArguments ==
    ASSUME Collected, service' = service, evidence' = evidence, NEW hs
    PROVE  /\ \A c : Strength(c)' = Strength(c)
           /\ Argued(hs) => Argued(hs)'
           /\ RegressionChecked(hs) => RegressionChecked(hs)'
<1>1. /\ \A i \in DOMAIN evidence : Suggested(evidence[i])' = Suggested(evidence[i])
      /\ Suggestions' = Suggestions
  BY SameSuggestions
<1>2. \A c : Strength(c)' = Strength(c)
  BY <1>1 DEF Strength
<1>3. \A c : Proposed(c)' <=> Proposed(c)
  BY <1>2 DEF Proposed, PoolIsLow
<1>4. ASSUME NEW h, Grounded(h) PROVE Grounded(h)'
  <2>1. Ids(evidence)' = Ids(evidence)
    OBVIOUS
  <2>2. ASSUME NEW n \in h.support
        PROVE  (\E i \in DOMAIN evidence :
                  /\ evidence[i].id = n
                  /\ \E g \in ToSet(Suggested(evidence[i])) : g.cause = h.cause)'
    <3>1. PICK i \in DOMAIN evidence :
              /\ evidence[i].id = n
              /\ \E g \in ToSet(Suggested(evidence[i])) : g.cause = h.cause
      BY <1>4 DEF Grounded
    <3>2. Suggested(evidence[i])' = Suggested(evidence[i])
      BY <1>1
    <3> QED BY <3>1, <3>2
  <2>3. (h.confidence # "LOW" => /\ h.contra = {}
                                 /\ Strength(h.cause) >= 2
                                 /\ ~(h.cause = Pool /\ PoolIsLow(evidence)))'
    BY <1>2, <1>4 DEF Grounded, PoolIsLow
  <2> QED BY <1>4, <2>1, <2>2, <2>3 DEF Grounded
<1>5. ASSUME Argued(hs) PROVE Argued(hs)'
  <2>1. (\A k \in DOMAIN hs : Grounded(hs[k]))'
    BY <1>4, <1>5 DEF Argued
  <2>2. Shortlisted(hs)'
    BY <1>2, <1>3, <1>5 DEF Argued, Shortlisted
  <2>3. LedByStrong(hs)'
    BY <1>2, <1>3, <1>5 DEF Argued, LedByStrong
  <2> QED BY <2>1, <2>2, <2>3 DEF Argued
<1>6. RegressionChecked(hs) => RegressionChecked(hs)'
  BY DEF RegressionChecked, NoDeployment, Deployed
<1> QED BY <1>2, <1>5, <1>6

-----------------------------------------------------------------------------
(* The plan of the agent with a language model.                            *)

\* The lists that a model can send are lists.
LEMMA BoundedSeqOf ==
    ASSUME NEW S, NEW n \in Nat, NEW s \in BoundedSeq(S, n)
    PROVE  s \in Seq(S) /\ Len(s) <= n
<1>1. PICK m \in 0..n : s \in [1..m -> S]
  BY DEF BoundedSeq, SeqOf
<1> QED BY <1>1

\* The beginning of a list.
LEMMA FirstOfList ==
    ASSUME NEW X, NEW s \in Seq(X), NEW n \in Nat
    PROVE  /\ FirstOf(s, n) \in Seq(X)
           /\ Len(FirstOf(s, n)) = (IF Len(s) < n THEN Len(s) ELSE n)
           /\ \A k \in 1..Len(s) : k <= n => FirstOf(s, n)[k] = s[k]
<1> DEFINE m == IF Len(s) < n THEN Len(s) ELSE n
<1>1. Len(s) \in Nat /\ m \in Nat /\ m <= Len(s)
  OBVIOUS
<1>2. FirstOf(s, n) = SubSeq(s, 1, m)
  BY DEF FirstOf
<1>3. \A k \in 1..Len(s) : k <= n => k \in 1..m
  BY <1>1
<1> HIDE DEF m
<1>4. /\ SubSeq(s, 1, m) \in Seq(X) /\ Len(SubSeq(s, 1, m)) = m
      /\ \A k \in 1..m : SubSeq(s, 1, m)[k] = s[k]
  BY <1>1
<1> QED BY <1>2, <1>3, <1>4 DEF m

\* The required steps are steps, and no two of them are the same.
LEMMA RequiredSteps ==
    ASSUME NEW a \in Alert
    PROVE  /\ RequiredFor[a] \in Seq(Step)
           /\ \A i, j \in DOMAIN RequiredFor[a] : i # j => RequiredFor[a][i] # RequiredFor[a][j]
<1>1. /\ Measure("request_rate") \in Step /\ Logs \in Step
  BY DEF Logs, Measure, Step, Tool, Metric
<1>2. CASE a = "THROUGHPUT_LOW"
  <2>1. RequiredFor[a] = <<Measure("request_rate"), Logs>>
    BY <1>2 DEF RequiredFor, PlanFor
  <2>2. Measure("request_rate") # Logs
    BY DEF Measure, Logs
  <2> QED BY <1>1, <2>1, <2>2
<1>3. CASE a # "THROUGHPUT_LOW"
  <2>1. RequiredFor[a] = PlanFor[a]
    BY <1>3 DEF RequiredFor, PlanFor, Alert
  <2>2. PlanFor[a] \in Seq(Step)
    BY PlansAreSteps
  <2>3. CASE a = "P95_LATENCY_HIGH"
    <3>1. PlanFor[a] = <<Measure("latency_p95"), Measure("db_pool_active_ratio"),
                         Logs, Deployments>>
      BY <2>3 DEF PlanFor
    <3>2. /\ Measure("latency_p95") # Measure("db_pool_active_ratio")
          /\ Measure("latency_p95") # Logs /\ Measure("latency_p95") # Deployments
          /\ Measure("db_pool_active_ratio") # Logs
          /\ Measure("db_pool_active_ratio") # Deployments
          /\ Logs # Deployments
      BY DEF Measure, Logs, Deployments
    <3> QED BY <2>1, <2>2, <3>1, <3>2
  <2>4. CASE a = "ERROR_RATE_HIGH"
    <3>1. PlanFor[a] = <<Logs, Measure("error_rate"), Deployments>>
      BY <2>4 DEF PlanFor
    <3>2. /\ Logs # Measure("error_rate") /\ Logs # Deployments
          /\ Measure("error_rate") # Deployments
      BY DEF Measure, Logs, Deployments
    <3> QED BY <2>1, <2>2, <3>1, <3>2
  <2>5. CASE a = "MQ_LAG_HIGH"
    <3>1. PlanFor[a] = <<Measure("mq_lag"), Logs>>
      BY <2>5 DEF PlanFor
    <3>2. Measure("mq_lag") # Logs
      BY DEF Measure, Logs
    <3> QED BY <2>1, <2>2, <3>1, <3>2
  <2> QED BY <1>3, <2>3, <2>4, <2>5 DEF Alert
<1> QED BY <1>2, <1>3

\* The plan leads with the required steps, as far as the budget goes.
PlanLeads ==
    \A i \in DOMAIN RequiredFor[alert] :
        i <= budget => i <= Len(plan) /\ plan[i] = RequiredFor[alert][i]

\* The plan with the model's proposals is a list of steps.
LEMMA LLMPlanOf ==
    ASSUME Collected, LLMCreatePlan
    PROVE  plan' \in Seq(Step) /\ PlanLeads'
<1> DEFINE required == RequiredFor[alert]
<1>1. budget \in Nat /\ alert \in Alert /\ MaxSteps \in Nat
  BY CollectionAssumption, LLMAssumption DEF Collected
<1>2. PICK steps \in BoundedSeq(Proposals, MaxSteps) :
          plan' = MergeRequiredSteps(At(steps, {i \in DOMAIN steps : steps[i].tool \in Tool}),
                                     required, budget)
  BY DEF LLMCreatePlan
<1>3. steps \in Seq(Proposals)
  BY <1>1, BoundedSeqOf
<1> DEFINE P == {i \in DOMAIN steps : steps[i].tool \in Tool}
           known == At(steps, P)
           all == required \o known
           D == {i \in DOMAIN all : \A j \in 1..i - 1 : all[j] # all[i]}
           distinct == At(all, D)
<1>4. known \in Seq(Step)
  <2>1. P \in SUBSET DOMAIN steps
    OBVIOUS
  <2>2. \A i \in P : steps[i] \in Step
    <3> SUFFICES ASSUME NEW i \in P PROVE steps[i] \in Step
      OBVIOUS
    <3>1. steps[i] \in Proposals /\ steps[i].tool \in Tool
      BY <1>3
    <3> QED BY <3>1, LLMAssumption DEF Step
  <2> HIDE DEF P
  <2>3. known \in Seq(Proposals)
    BY <1>3, <2>1, AtListed
  <2>4. PICK q : Picks(known, steps, q, P)
    BY <1>3, <2>1, AtListed
  <2> HIDE DEF known
  <2>5. \A k \in 1..Len(known) : known[k] \in Step
    BY <2>2, <2>4 DEF Picks
  <2> QED BY <2>3, <2>5
<1> HIDE DEF known
<1>5. /\ required \in Seq(Step)
      /\ \A i, j \in DOMAIN required : i # j => required[i] # required[j]
  BY <1>1, RequiredSteps
<1> DEFINE m == Len(required)
<1> HIDE DEF required
<1>6. m \in Nat /\ DOMAIN required = 1..m
  BY <1>5
<1>7. /\ all \in Seq(Step) /\ 1..m \subseteq DOMAIN all
      /\ \A i \in 1..m : all[i] = required[i]
  BY <1>4, <1>5
<1> HIDE DEF all
<1>8. D \in SUBSET DOMAIN all /\ 1..m \subseteq D
  <2> SUFFICES ASSUME NEW i \in 1..m PROVE i \in D
    OBVIOUS
  <2>1. \A j \in 1..i - 1 : j \in 1..m /\ j # i
    BY <1>6
  <2>2. \A j \in 1..i - 1 : all[j] # all[i]
    BY <1>5, <1>6, <1>7, <2>1
  <2> QED BY <1>7, <2>2
<1>9. plan' = FirstOf(distinct, budget)
  BY <1>2 DEF MergeRequiredSteps, Distinct, known, all
<1> HIDE DEF D
<1>10. distinct \in Seq(Step) /\ m <= Len(distinct) /\ \A i \in 1..m : distinct[i] = all[i]
  BY <1>6, <1>7, <1>8, AtListed, PrefixKept
<1> HIDE DEF distinct
<1>11. /\ plan' \in Seq(Step)
       /\ Len(plan') = (IF Len(distinct) < budget THEN Len(distinct) ELSE budget)
       /\ \A k \in 1..Len(distinct) : k <= budget => plan'[k] = distinct[k]
  BY <1>1, <1>9, <1>10, FirstOfList
<1>12. ASSUME NEW i \in 1..m, i <= budget
       PROVE  i <= Len(plan') /\ plan'[i] = required[i]
  <2>1. Len(distinct) \in Nat /\ i \in 1..Len(distinct)
    BY <1>6, <1>10
  <2>2. i <= Len(plan')
    BY <1>1, <1>11, <1>12, <2>1
  <2> QED BY <1>7, <1>10, <1>11, <1>12, <2>1, <2>2
<1>13. alert' = alert /\ budget' = budget
  BY DEF LLMCreatePlan, inputs
<1>14. PlanLeads'
  BY <1>6, <1>12, <1>13 DEF PlanLeads, required
<1> QED BY <1>11, <1>14

-----------------------------------------------------------------------------
(* The hypotheses of the agent with a language model.                      *)

\* What the guardrails find in an item.
LEMMA EvidentInOf ==
    ASSUME NEW e \in Item
    PROVE  /\ EvidentIn(e) \in Seq(Hypotheses)
           /\ \A k \in DOMAIN EvidentIn(e) : Finding(EvidentIn(e)[k], e)
<1> DEFINE found == FromLogs(e)
           P == {i \in DOMAIN found : found[i].cause \in {"DATABASE_SLOW_QUERY", Pool}}
<1>1. e.id \in Nat
  BY ItemOf
<1>2. CASE e.tool = "query_logs"
  <2>1. EvidentIn(e) = At(found, P)
    BY <1>2, Zenon DEF EvidentIn
  <2>2. found \in Seq(Hypotheses) /\ \A k \in DOMAIN found : Finding(found[k], e)
    BY <1>1, FromLogsOf
  <2>3. P \in SUBSET DOMAIN found
    OBVIOUS
  <2> HIDE DEF found, P
  <2>4. At(found, P) \in Seq(Hypotheses) /\ \E q : Picks(At(found, P), found, q, P)
    BY <2>2, <2>3, AtListed
  <2>5. PICK q : Picks(At(found, P), found, q, P)
    BY <2>4
  <2> DEFINE t == At(found, P)
  <2>6. t \in Seq(Hypotheses) /\ Picks(t, found, q, P)
    BY <2>4, <2>5
  <2> HIDE DEF t
  <2>7. \A k \in DOMAIN t : Finding(t[k], e)
    BY <2>2, <2>3, <2>6 DEF Picks
  <2> QED BY <2>1, <2>6, <2>7 DEF t
<1>3. CASE e.tool = "query_metrics" /\ e.level = "high" /\ e.metric = "db_pool_active_ratio"
  <2>1. EvidentIn(e) = <<Hypothesis(Pool, "HIGH", {e.id})>>
    BY <1>3, Zenon DEF EvidentIn
  <2>2. Pool \in Cause \ {"UNKNOWN"} /\ "HIGH" \in Confidence
    BY DEF Cause, Confidence, Pool
  <2> QED BY <1>1, <2>1, <2>2, OneFinding
<1>4. CASE e.tool = "query_metrics" /\ e.level = "high" /\ e.metric = "latency_p95"
  <2>1. EvidentIn(e) = <<Hypothesis("DATABASE_SLOW_QUERY", "HIGH", {e.id})>>
    BY <1>4, Zenon DEF EvidentIn
  <2>2. "DATABASE_SLOW_QUERY" \in Cause \ {"UNKNOWN"} /\ "HIGH" \in Confidence
    BY DEF Cause, Confidence
  <2> QED BY <1>1, <2>1, <2>2, OneFinding
<1>5. CASE /\ e.tool # "query_logs"
           /\ ~(e.tool = "query_metrics" /\ e.level = "high" /\ e.metric = "db_pool_active_ratio")
           /\ ~(e.tool = "query_metrics" /\ e.level = "high" /\ e.metric = "latency_p95")
  <2>1. EvidentIn(e) = <<>>
    BY <1>5, Zenon DEF EvidentIn
  <2> QED BY <2>1
<1> QED BY <1>2, <1>3, <1>4, <1>5

\* The unknown cause.
LEMMA UnknownOf ==
    /\ Hypothesis("UNKNOWN", "LOW", {}) \in Hypotheses
    /\ Unknown \in Hypotheses /\ Unknown.rank = 1
BY DEF Unknown, Hypothesis, Hypotheses, Cause, Confidence

\* What the guardrails find in all of the evidence.
LEMMA GuardrailsOf == Collected => Guardrails \in Seq(Hypotheses)
<1> SUFFICES ASSUME Collected PROVE Guardrails \in Seq(Hypotheses)
  OBVIOUS
<1> DEFINE ss == [i \in DOMAIN evidence |-> EvidentIn(evidence[i])]
           n == Len(evidence)
           evident == Flattened(ss)
<1>1. DOMAIN evidence = 1..n /\ n \in Nat /\ \A i \in 1..n : evidence[i] \in Item
  BY DEF Collected
<1>2. \A i \in 1..n : EvidentIn(evidence[i]) \in Seq(Hypotheses)
  BY <1>1, EvidentInOf
<1>3. ss = [i \in 1..n |-> ss[i]] /\ \A i \in 1..n : ss[i] = EvidentIn(evidence[i])
  BY <1>1
<1>4. Guardrails = IF evident = <<>> THEN <<Hypothesis("UNKNOWN", "LOW", {})>> ELSE TopThree(evident)
  BY DEF Guardrails
<1> HIDE DEF ss, n
<1>5. ss \in Seq(Seq(Hypotheses))
  BY <1>1, <1>2, <1>3
<1>6. evident \in Seq(Hypotheses)
  BY <1>5, FlattenedListed
<1> HIDE DEF evident
<1>7. TopThree(evident) \in Seq(Hypotheses)
  BY <1>6, TopThreeOf
<1>8. <<Hypothesis("UNKNOWN", "LOW", {})>> \in Seq(Hypotheses)
  BY UnknownOf
<1> QED BY <1>4, <1>7, <1>8

\* What the model claims are hypotheses, whatever evidence it invents.
LEMMA ClaimedOf ==
    ASSUME Collected, evidence # <<>>
    PROVE  Claimed \subseteq Hypotheses
<1>1. Ids(evidence) \in SUBSET Nat
  BY IdsOf
<1>2. Ids(evidence) # {}
  <2>1. 1 \in DOMAIN evidence
    <3> evidence \in Seq(Item)
      BY DEF Collected
    <3>1. Len(evidence) \in Nat /\ Len(evidence) # 0 /\ DOMAIN evidence = 1..Len(evidence)
      OBVIOUS
    <3> QED BY <3>1
  <2> QED BY <2>1 DEF Ids
<1>3. \E m \in Ids(evidence) : \A n \in Ids(evidence) : m <= n
  BY <1>1, <1>2, LeastNumber
<1>4. Min(Ids(evidence)) \in Nat
  <2>1. Min(Ids(evidence)) \in Ids(evidence)
    BY <1>3 DEF Min
  <2> QED BY <1>1, <2>1
<1>5. \A s \in Citations : s.support \in SUBSET Nat /\ s.contra \in SUBSET Nat
  <2> DEFINE m == Min(Ids(evidence))
  <2>1. Citations = {[support |-> {}, contra |-> {}], [support |-> {0}, contra |-> {}]}
                    \cup [support : {{m}}, contra : {{}, {0}}]
    BY DEF Citations
  <2>2. m \in Nat
    BY <1>4
  <2> HIDE DEF m
  <2> QED BY <2>1, <2>2
<1> SUFFICES ASSUME NEW h \in Claimed PROVE h \in Hypotheses
  OBVIOUS
<1>6. PICK c \in Claims, s \in Citations :
          h = [Hypothesis(c.cause, c.confidence, s.support) EXCEPT !.contra = s.contra]
  BY DEF Claimed
<1>7. c.cause \in Cause /\ c.confidence \in Confidence
  BY LLMAssumption
<1>8. s.support \in SUBSET Nat /\ s.contra \in SUBSET Nat
  BY <1>5
<1>9. Hypothesis(c.cause, c.confidence, s.support) \in Hypotheses
  BY <1>7, <1>8, HypothesisOf
<1> QED BY <1>6, <1>8, <1>9 DEF Hypotheses

\* The least key is that of a backed cause with a high confidence.
LEMMA LLMKeyOf ==
    ASSUME NEW h \in Hypotheses
    PROVE  /\ LLMKey(h) \in Nat
           /\ LLMKey(h) = 0 <=> h.confidence = "HIGH" /\ Backed(h) /\ h.cause # "UNKNOWN"
<1>1. h.confidence \in Confidence
  BY DEF Hypotheses
<1>2. Weight[h.confidence] \in 1..3 /\ (Weight[h.confidence] = 3 <=> h.confidence = "HIGH")
  BY <1>1 DEF Confidence, Weight
<1> QED BY <1>2 DEF LLMKey

\* The ranking of the agent with a language model: three causes, and a backed
\* cause with a high confidence that is among the first two merged ones stays,
\* with nothing weaker before it.
LEMMA RankCausesOf ==
    ASSUME NEW hs \in Seq(Hypotheses)
    PROVE  /\ RankCauses(hs) \in Seq(Hypotheses) /\ Len(RankCauses(hs)) <= 3
           /\ DistinctCauses(RankCauses(hs))
           /\ \A i \in DOMAIN MergeCauses(hs) :
                 i <= 2 /\ LLMKey(MergeCauses(hs)[i]) = 0 =>
                    \E k \in DOMAIN RankCauses(hs) :
                       /\ RankCauses(hs)[k] = MergeCauses(hs)[i]
                       /\ \A j \in 1..k : LLMKey(RankCauses(hs)[j]) = 0
<1> DEFINE mc == MergeCauses(hs)
           key == [i \in DOMAIN mc |-> LLMKey(mc[i])]
           r == RankCauses(hs)
<1>1. mc \in Seq(Hypotheses) /\ DistinctCauses(mc)
  BY MergedCauses
<1>2. r = TopThree(SortedBy(mc, key))
  BY DEF RankCauses
<1> HIDE DEF mc, r
<1>3. DOMAIN mc = 1..Len(mc) /\ Len(mc) \in Nat /\ \A i \in DOMAIN mc : mc[i] \in Hypotheses
  BY <1>1
<1>4. \A h \in Hypotheses : LLMKey(h) \in Nat
  BY LLMKeyOf
<1>5. key \in [DOMAIN mc -> Nat] /\ \A i \in DOMAIN mc : key[i] = LLMKey(mc[i])
  BY <1>3, <1>4
<1> HIDE DEF key
<1>6. /\ r \in Seq(Hypotheses) /\ Len(r) = (IF Len(mc) < 3 THEN Len(mc) ELSE 3)
      /\ \E q : Selects(r, mc, key, q)
  BY <1>1, <1>2, <1>5, LeastThree
<1>7. PICK q : Selects(r, mc, key, q)
  BY <1>6
<1>8. DOMAIN r \in SUBSET Nat
  BY <1>6
<1>9. /\ q \in [DOMAIN r -> DOMAIN mc] /\ \A k \in DOMAIN r : r[k].cause = mc[q[k]].cause
      /\ \A j, k \in DOMAIN r : j < k => Leads(key, q[j], q[k])
  BY <1>7 DEF Selects
<1>10. \A j, k \in DOMAIN r : j # k => q[j] # q[k]
  <2> SUFFICES ASSUME NEW j \in DOMAIN r, NEW k \in DOMAIN r, j < k PROVE q[j] # q[k]
    BY <1>8
  <2>1. Leads(key, q[j], q[k]) /\ q[j] \in DOMAIN mc /\ q[k] \in DOMAIN mc
    BY <1>9
  <2>2. key[q[j]] \in Nat /\ key[q[k]] \in Nat /\ q[j] \in Nat /\ q[k] \in Nat
    BY <1>3, <1>5, <2>1
  <2> QED BY <2>1, <2>2 DEF Leads
<1>11. DistinctCauses(r)
  BY <1>1, <1>6, <1>9, <1>10, DistinctPicked
<1>12. Len(r) <= 3 /\ DOMAIN r = 1..Len(r) /\ Len(r) \in Nat
  <2> r \in Seq(Hypotheses)
    BY <1>6
  <2>1. DOMAIN r = 1..Len(r) /\ Len(r) \in Nat
    OBVIOUS
  <2> QED BY <1>3, <1>6, <2>1
<1>13. ASSUME NEW i \in DOMAIN mc, i <= 2, LLMKey(mc[i]) = 0
       PROVE  \E k \in DOMAIN r : r[k] = mc[i] /\ \A j \in 1..k : LLMKey(r[j]) = 0
  <2>1. key[i] = 0 /\ i \in Nat
    BY <1>3, <1>5, <1>13
  <2>2. \A j \in DOMAIN r : /\ q[j] \in DOMAIN mc /\ r[j] = mc[q[j]]
                            /\ q[j] \in Nat /\ 1 <= q[j] /\ key[q[j]] \in Nat
    BY <1>3, <1>5, <1>7 DEF Selects
  <2>3. \A j \in DOMAIN r : Leads(key, q[j], i) => key[q[j]] = 0 /\ q[j] < i
    BY <2>1, <2>2 DEF Leads
  <2>4. CASE \E k \in DOMAIN r : q[k] = i
    <3>1. PICK k \in DOMAIN r : q[k] = i
      BY <2>4
    <3>2. ASSUME NEW j \in 1..k PROVE LLMKey(r[j]) = 0
      <4>1. j \in DOMAIN r /\ (j < k \/ j = k)
        BY <1>12, <3>1
      <4>2. key[q[j]] = 0
        BY <1>9, <2>1, <2>3, <3>1, <4>1
      <4> QED BY <1>5, <2>2, <4>1, <4>2
    <3> QED BY <2>2, <3>1, <3>2
  <2>5. CASE Len(r) = 3 /\ \A k \in DOMAIN r : Leads(key, q[k], i)
    <3>1. 1 \in DOMAIN r /\ 2 \in DOMAIN r
      BY <1>12, <2>5
    <3>2. key[q[1]] = 0 /\ q[1] < i /\ key[q[2]] = 0 /\ q[2] < i
      BY <2>3, <2>5, <3>1
    <3>3. Leads(key, q[1], q[2])
      BY <1>9, <3>1
    <3>4. q[1] < q[2]
      BY <3>2, <3>3 DEF Leads
    <3> QED BY <1>13, <2>1, <2>2, <3>1, <3>2, <3>4
  <2> QED BY <1>7, <2>4, <2>5 DEF Selects
<1> QED BY <1>6, <1>11, <1>12, <1>13 DEF r, mc

\* What _llm_build_hypotheses leaves.
LEMMA LLMBuiltOf ==
    ASSUME Collected, LLMBuildHypotheses
    PROVE  ListOK(hypotheses')
<1>1. CASE evidence = <<>>
  <2>1. hypotheses' = <<Unknown>>
    BY <1>1 DEF LLMBuildHypotheses
  <2>2. <<Unknown>> \in Seq(Hypotheses) /\ Len(<<Unknown>>) = 1 /\ <<Unknown>>[1] = Unknown
    BY UnknownOf
  <2> QED BY <2>1, <2>2, UnknownOf DEF ListOK, DistinctCauses
<1>2. CASE evidence # <<>>
  <2>1. PICK claims \in BoundedSeq(Claimed, MaxClaims) :
            hypotheses' = Numbered(RemoveMetricContradicted(RankGuardrailsFirst(claims), evidence))
    BY <1>2 DEF LLMBuildHypotheses
  <2>2. claims \in Seq(Claimed)
    <3>1. MaxClaims \in Nat
      BY LLMAssumption
    <3> QED BY <3>1, BoundedSeqOf
  <2>3. claims \in Seq(Hypotheses)
    <3>1. Claimed \subseteq Hypotheses
      BY <1>2, ClaimedOf
    <3> QED BY <2>2, <3>1
  <2> DEFINE all == Guardrails \o claims
             r == RankCauses(all)
             u == RemoveMetricContradicted(r, evidence)
  <2>4. all \in Seq(Hypotheses)
    BY <2>3, GuardrailsOf
  <2>5. hypotheses' = Numbered(u)
    BY <2>1 DEF RankGuardrailsFirst
  <2> HIDE DEF all
  <2>6. r \in Seq(Hypotheses) /\ Len(r) <= 3 /\ DistinctCauses(r)
    BY <2>4, RankCausesOf
  <2> HIDE DEF r
  <2>7. u \in Seq(Hypotheses) /\ Len(u) <= Len(r) /\ DistinctCauses(u)
    BY <2>6, Uncontradicted
  <2> HIDE DEF u
  <2>8. Len(u) \in Nat /\ Len(r) \in Nat /\ Len(u) <= 3 /\ DOMAIN u = 1..Len(u)
    BY <2>6, <2>7
  <2> DEFINE t == Numbered(u)
  <2>9. /\ t \in Seq(Hypotheses) /\ Len(t) = Len(u) /\ DistinctCauses(t)
        /\ \A k \in DOMAIN u : t[k].rank = k
    BY <2>7, NumberedOf
  <2> HIDE DEF t
  <2>10. DOMAIN t = DOMAIN u
    BY <2>8, <2>9
  <2>11. \A k \in DOMAIN t : t[k].rank \in 0..3
    BY <2>8, <2>9, <2>10
  <2>12. ListOK(t)
    BY <2>8, <2>9, <2>11 DEF ListOK
  <2> QED BY <2>5, <2>12 DEF t
<1> QED BY <1>1, <1>2

-----------------------------------------------------------------------------
(* What both agents report.                                                *)

\* The values of the three states of a diagnosis.
StatusOK ==
    /\ node \in {"load", "topology", "plan", "collect", "build", "verify",
                 "validate", "report", "done", "raised"}
    /\ report \in {"none", "DIAGNOSED", "INCONCLUSIVE", "FAILED"}
    /\ incident \in {"OPEN", "INVESTIGATING", "DIAGNOSED", "INCONCLUSIVE"}

\* The hypotheses have different causes at every node, and from the validation
\* on they can be reported as they are.
ReportInv ==
    /\ ShortfallInv
    /\ StatusOK
    /\ ListOK(hypotheses)
    /\ node \in {"report", "done"} => Ranked(hypotheses) /\ FullyTraceable(hypotheses, evidence)
    /\ StrongDiagnosisStands

\* The type invariant, from that of reports.
LEMMA ReportTypes == ReportInv => TypeOK
<1> SUFFICES ASSUME ReportInv PROVE TypeOK
  OBVIOUS
<1>1. \A i \in DOMAIN plan : plan[i].tool \in Tool
  <2>1. \A i \in DOMAIN plan : plan[i] \in Step
    BY DEF ReportInv, ShortfallInv, Collected
  <2> QED BY <2>1 DEF Step
<1>2. \A i \in DOMAIN evidence : evidence[i].id \in 1..used /\ evidence[i].tool \in Tool
  <2>1. \A i \in DOMAIN evidence : evidence[i] \in Item /\ evidence[i].id \in 1..used
    BY DEF ReportInv, ShortfallInv, Collected
  <2> QED BY <2>1, ItemOf
<1>3. \A i \in DOMAIN failures : failures[i] \in Tool \cup {"budget"}
  BY DEF ReportInv, ShortfallInv, Collected
<1>4. \A i \in DOMAIN hypotheses : IsHypothesis(hypotheses[i])
  <2>1. \A i \in DOMAIN hypotheses : hypotheses[i] \in Hypotheses /\ hypotheses[i].rank \in 0..3
    BY DEF ReportInv, ListOK
  <2> QED BY <2>1 DEF IsHypothesis, Hypotheses
<1>5. alert \in Alert /\ service \in Service /\ budget \in Budgets /\ used \in Nat
  BY DEF ReportInv, ShortfallInv, Collected
<1>6. Len(hypotheses) <= 3
  BY DEF ReportInv, ListOK
<1> QED BY <1>1, <1>2, <1>3, <1>4, <1>5, <1>6 DEF TypeOK, ReportInv, StatusOK

\* The invariant of reports holds at the start.
LEMMA ReportInit == AgentInit => ReportInv
<1> SUFFICES ASSUME AgentInit PROVE ReportInv
  OBVIOUS
<1>1. ListOK(hypotheses)
  BY DEF AgentInit, ListOK, DistinctCauses
<1>2. ShortfallInv
  BY ShortfallInit
<1> QED BY <1>1, <1>2 DEF AgentInit, ReportInv, StatusOK, StrongDiagnosisStands

\* A node before the validation that leaves the hypotheses alone.
LEMMA ReportKept ==
    ASSUME ReportInv, ShortfallInv', StatusOK',
           node' \notin {"report", "done"}, report' = report, hypotheses' = hypotheses
    PROVE  ReportInv'
<1>1. ListOK(hypotheses)'
  BY DEF ReportInv, ListOK, DistinctCauses
<1>2. StrongDiagnosisStands'
  BY DEF ReportInv, StrongDiagnosisStands, Backed
<1> QED BY <1>1, <1>2 DEF ReportInv

\* A node that replaces the hypotheses before there is a report.
LEMMA ReportRevised ==
    ASSUME ReportInv, ShortfallInv', StatusOK', ListOK(hypotheses'),
           node # "done", report' = report,
           node' \in {"report", "done"} =>
               Ranked(hypotheses') /\ FullyTraceable(hypotheses', evidence')
    PROVE  ReportInv'
<1>1. report' = "none"
  BY DEF ReportInv, ShortfallInv
<1>2. ListOK(hypotheses)'
  BY DEF ListOK, DistinctCauses
<1>3. Ranked(hypotheses') = Ranked(hypotheses)'
  BY DEF Ranked, Backed
<1>4. FullyTraceable(hypotheses', evidence') = FullyTraceable(hypotheses, evidence)'
  BY DEF FullyTraceable, Ids
<1> QED BY <1>1, <1>2, <1>3, <1>4 DEF ReportInv, StrongDiagnosisStands

\* The node that reports.
LEMMA ReportGiven ==
    ASSUME ReportInv, ShortfallInv', StatusOK', node = "report", node' = "done",
           hypotheses' = hypotheses, evidence' = evidence, StrongDiagnosisStands'
    PROVE  ReportInv'
<1>1. ListOK(hypotheses)'
  BY DEF ReportInv, ListOK, DistinctCauses
<1>2. Ranked(hypotheses)' /\ FullyTraceable(hypotheses, evidence)'
  BY DEF ReportInv, Ranked, Backed, FullyTraceable, Ids
<1> QED BY <1>1, <1>2 DEF ReportInv

\* The status that the rules determine, for hypotheses that can be traced.
LEMMA StatusOf ==
    ASSUME FullyTraceable(hypotheses, evidence)
    PROVE  /\ DetermineStatus(hypotheses, evidence) \in {"DIAGNOSED", "INCONCLUSIVE"}
           /\ DetermineStatus(hypotheses, evidence) = "DIAGNOSED" <=>
                 /\ hypotheses # <<>>
                 /\ Backed(hypotheses[1]) /\ hypotheses[1].confidence # "LOW"
BY DEF DetermineStatus

\* The report of the rules keeps it.
LEMMA ReportByRules == ReportInv /\ GenerateReport /\ ShortfallInv' => ReportInv'
<1> SUFFICES ASSUME ReportInv, GenerateReport, ShortfallInv' PROVE ReportInv'
  OBVIOUS
<1>1. FullyTraceable(hypotheses, evidence)
  BY DEF ReportInv, GenerateReport
<1>2. StatusOK'
  BY <1>1, StatusOf DEF StatusOK, GenerateReport
<1>3. StrongDiagnosisStands'
  BY <1>1, StatusOf DEF StrongDiagnosisStands, GenerateReport, Backed
<1> QED BY <1>2, <1>3, ReportGiven DEF GenerateReport

\* The report with the model's status keeps it.
LEMMA ReportByModel == ReportInv /\ LLMGenerateReport /\ ShortfallInv' => ReportInv'
<1> SUFFICES ASSUME ReportInv, LLMGenerateReport, ShortfallInv' PROVE ReportInv'
  OBVIOUS
<1> DEFINE governed == DetermineStatus(hypotheses, evidence)
           solid == \E i \in DOMAIN hypotheses : /\ hypotheses[i].confidence = "HIGH"
                                                 /\ Backed(hypotheses[i])
<1>1. FullyTraceable(hypotheses, evidence)
  BY DEF ReportInv, LLMGenerateReport
<1>2. /\ governed \in {"DIAGNOSED", "INCONCLUSIVE"}
      /\ governed = "DIAGNOSED" <=>
            /\ hypotheses # <<>>
            /\ Backed(hypotheses[1]) /\ hypotheses[1].confidence # "LOW"
  BY <1>1, StatusOf
<1>3. PICK proposed \in {"none", "DIAGNOSED", "INCONCLUSIVE", "FAILED"} :
          report' = StatusFor(proposed)
  BY DEF LLMGenerateReport
<1>4. report' = IF \/ proposed = "none"
                   \/ governed = "DIAGNOSED" /\ proposed # "DIAGNOSED" /\ solid
                THEN governed ELSE proposed
  BY <1>3 DEF StatusFor
<1> HIDE DEF governed
<1>5. StatusOK'
  BY <1>2, <1>4 DEF StatusOK, LLMGenerateReport
<1>6. ASSUME hypotheses # <<>>, Backed(hypotheses[1]), hypotheses[1].confidence = "HIGH"
      PROVE  report' = "DIAGNOSED"
  <2>1. hypotheses \in Seq(Hypotheses)
    BY DEF ReportInv, ListOK
  <2>2. Len(hypotheses) # 0
    BY <1>6, <2>1
  <2>3. 1 \in DOMAIN hypotheses
    BY <2>1, <2>2
  <2>4. solid
    BY <1>6, <2>3
  <2> HIDE DEF solid
  <2> QED BY <1>2, <1>4, <1>6, <2>4
<1>7. StrongDiagnosisStands'
  BY <1>6 DEF StrongDiagnosisStands, LLMGenerateReport, Backed
<1> QED BY <1>5, <1>7, ReportGiven DEF LLMGenerateReport

\* A step that changes nothing keeps it.
LEMMA ReportStutter == ReportInv /\ ShortfallInv' /\ UNCHANGED vars => ReportInv'
<1> SUFFICES ASSUME ReportInv, ShortfallInv', UNCHANGED vars PROVE ReportInv'
  OBVIOUS
<1>1. StatusOK'
  BY DEF ReportInv, StatusOK, vars
<1>2. CASE node \notin {"report", "done"}
  BY <1>1, <1>2, ReportKept DEF vars
<1>3. CASE node \in {"report", "done"}
  <2>1. ListOK(hypotheses)' /\ StrongDiagnosisStands'
    BY DEF ReportInv, ListOK, DistinctCauses, StrongDiagnosisStands, Backed, vars
  <2>2. Ranked(hypotheses)' /\ FullyTraceable(hypotheses, evidence)'
    BY <1>3 DEF ReportInv, Ranked, Backed, FullyTraceable, Ids, vars
  <2> QED BY <1>1, <2>1, <2>2 DEF ReportInv
<1> QED BY <1>2, <1>3

\* The nodes that both agents run.
LEMMA ReportShared ==
    ASSUME ReportInv, CallTool \/ StopCollecting \/ ValidateEvidence, ShortfallInv'
    PROVE  ReportInv'
<1>1. CASE CallTool
  BY <1>1, ReportKept DEF CallTool, ReportInv, StatusOK
<1>2. CASE StopCollecting
  BY <1>2, ReportKept DEF StopCollecting, ReportInv, StatusOK
<1>3. CASE ValidateEvidence
  <2>1. Collected /\ ListOK(hypotheses)
    BY DEF ReportInv, ShortfallInv
  <2>2. /\ ListOK(hypotheses') /\ Ranked(hypotheses') /\ FullyTraceable(hypotheses', evidence)
    BY <1>3, <2>1, ValidatedArgued
  <2>3. StatusOK' /\ node # "done" /\ report' = report /\ evidence' = evidence
    BY <1>3 DEF ValidateEvidence, ReportInv, StatusOK
  <2> QED BY <2>2, <2>3, ReportRevised
<1> QED BY <1>1, <1>2, <1>3

\* Every step of the rule-based agent keeps it.
LEMMA ReportNext == ReportInv /\ [Next]_vars => ReportInv'
<1> SUFFICES ASSUME ReportInv, [Next]_vars PROVE ReportInv'
  OBVIOUS
<1>1. ShortfallInv' /\ Collected /\ ListOK(hypotheses)
  BY ShortfallNext DEF ReportInv, ShortfallInv
<1>2. CASE LoadIncident
  BY <1>1, <1>2, ReportKept DEF LoadIncident, ReportInv, StatusOK
<1>3. CASE LoadTopology
  BY <1>1, <1>3, ReportKept DEF LoadTopology, ReportInv, StatusOK
<1>4. CASE CreatePlan
  BY <1>1, <1>4, ReportKept DEF CreatePlan, ReportInv, StatusOK
<1>5. CASE CallTool \/ StopCollecting \/ ValidateEvidence
  BY <1>1, <1>5, ReportShared
<1>6. CASE BuildHypotheses
  <2>1. ListOK(hypotheses')
    BY <1>1, <1>6, BuiltOf
  <2> QED BY <1>1, <1>6, <2>1, ReportRevised DEF BuildHypotheses, ReportInv, StatusOK
<1>7. CASE VerifyHypotheses
  <2>1. ListOK(hypotheses')
    BY <1>1, <1>7, VerifiedOf
  <2> QED BY <1>1, <1>7, <2>1, ReportRevised DEF VerifyHypotheses, ReportInv, StatusOK
<1>8. CASE GenerateReport
  BY <1>1, <1>8, ReportByRules
<1>9. CASE UNCHANGED vars
  BY <1>1, <1>9, ReportStutter
<1> QED BY <1>2, <1>3, <1>4, <1>5, <1>6, <1>7, <1>8, <1>9 DEF Next

\* A request to the model that fails, or whose answer cannot be read.
LEMMA ShortfallLLMStep == ShortfallInv /\ LLMStep => ShortfallInv'
<1> SUFFICES ASSUME ShortfallInv, LLMStep PROVE ShortfallInv'
  OBVIOUS
<1>1. CASE LLMLoadIncident
  BY <1>1, ShortfallKept DEF LLMLoadIncident, Later, ShortfallInv
<1>2. CASE LLMCreatePlan
  <2>1. plan' \in Seq(Step)
    BY <1>2, LLMPlanOf DEF ShortfallInv
  <2>2. Collected'
    BY <1>2, <2>1 DEF ShortfallInv, Collected, LLMCreatePlan, inputs
  <2> QED BY <1>2, <2>2 DEF ShortfallInv, LLMCreatePlan, Later
<1>3. CASE CallTool
  BY <1>3, ShortfallCall
<1>4. CASE StopCollecting
  BY <1>4, ShortfallStop
<1>5. CASE LLMBuildHypotheses
  BY <1>5, ShortfallKept DEF LLMBuildHypotheses, Later, ShortfallInv
<1>6. CASE ValidateEvidence
  BY <1>6, ShortfallKept DEF ValidateEvidence, Later, ShortfallInv
<1>7. CASE LLMGenerateReport
  BY <1>7, ShortfallKept DEF LLMGenerateReport, Later
<1>8. CASE LLMRaises
  BY <1>8, ShortfallKept DEF LLMRaises, Later, ShortfallInv
<1> QED BY <1>1, <1>2, <1>3, <1>4, <1>5, <1>6, <1>7, <1>8 DEF LLMStep

\* Every step of a diagnosis with the model keeps it.
LEMMA ReportLLMStep == ReportInv /\ LLMStep => ReportInv'
<1> SUFFICES ASSUME ReportInv, LLMStep PROVE ReportInv'
  OBVIOUS
<1>1. ShortfallInv' /\ Collected
  BY ShortfallLLMStep DEF ReportInv, ShortfallInv
<1>2. CASE LLMLoadIncident
  BY <1>1, <1>2, ReportKept DEF LLMLoadIncident, ReportInv, StatusOK
<1>3. CASE LLMCreatePlan
  BY <1>1, <1>3, ReportKept DEF LLMCreatePlan, ReportInv, StatusOK
<1>4. CASE CallTool \/ StopCollecting \/ ValidateEvidence
  BY <1>1, <1>4, ReportShared
<1>5. CASE LLMBuildHypotheses
  <2>1. ListOK(hypotheses')
    BY <1>1, <1>5, LLMBuiltOf
  <2> QED BY <1>1, <1>5, <2>1, ReportRevised DEF LLMBuildHypotheses, ReportInv, StatusOK
<1>6. CASE LLMGenerateReport
  BY <1>1, <1>6, ReportByModel
<1>7. CASE LLMRaises
  BY <1>1, <1>7, ReportKept DEF LLMRaises, ReportInv, StatusOK
<1> QED BY <1>2, <1>3, <1>4, <1>5, <1>6, <1>7 DEF LLMStep

\* So does every step of the agent with a model and its fallback.
LEMMA ReportLLMNext == ReportInv /\ [LLMNext]_llmVars => ReportInv'
<1> SUFFICES ASSUME ReportInv, [LLMNext]_llmVars PROVE ReportInv'
  OBVIOUS
<1>1. CASE available /\ LLMStep
  BY <1>1, ReportLLMStep
<1>2. CASE ~available /\ Next
  BY <1>2, ReportNext
<1>3. CASE UNCHANGED llmVars
  BY <1>3, ReportNext DEF llmVars
<1> QED BY <1>1, <1>2, <1>3 DEF LLMNext

\* What follows of the invariant for a report.
LEMMA ReportFacts ==
    ReportInv => /\ TypeOK /\ ShortfallIsReported /\ ReportIsRanked /\ ReferencesAreReal
                 /\ StrongDiagnosisStands
<1> SUFFICES ASSUME ReportInv
             PROVE  /\ TypeOK /\ ShortfallIsReported /\ ReportIsRanked /\ ReferencesAreReal
                    /\ StrongDiagnosisStands
  OBVIOUS
<1>1. report # "none" => node = "done"
  BY DEF ReportInv, ShortfallInv
<1>2. ShortfallIsReported
  BY <1>1 DEF ReportInv, ShortfallInv, ShortfallIsReported, Complete, Later
<1>3. report # "none" => Ranked(hypotheses) /\ FullyTraceable(hypotheses, evidence)
  BY <1>1 DEF ReportInv
<1>4. ReportIsRanked
  BY <1>3 DEF ReportIsRanked, Ranked
<1> QED BY <1>2, <1>3, <1>4, ReportTypes DEF ReferencesAreReal, ReportInv

\* The variables of a diagnosis by the rules hold what the code can store.
THEOREM TypeCorrect == Spec => []TypeOK
<1>1. Spec => []ReportInv
  BY ReportInit, ReportNext, PTL DEF Spec
<1>2. ReportInv => TypeOK
  BY ReportFacts
<1> QED BY <1>1, <1>2, PTL

\* The invariant of reports holds of the agent with a model.
LEMMA LLMReportCorrect == LLMSpec => []ReportInv
<1>1. LLMInit => ReportInv
  BY ReportInit DEF LLMInit
<1> QED BY <1>1, ReportLLMNext, PTL DEF LLMSpec

\* Neither agent stores anything else, whatever the model answers and claims.
THEOREM LLMTypeCorrect == LLMSpec => []TypeOK
BY LLMReportCorrect, ReportFacts, PTL

\* Every report of either agent accounts for every step of its plan.
THEOREM LLMShortfallCorrect == LLMSpec => []ShortfallIsReported
BY LLMReportCorrect, ReportFacts, PTL

\* The ranks of every report of either agent are its order, its causes are
\* distinct, and no cause without evidence stands before one with evidence,
\* whatever causes the model claims and however often.
THEOREM RankedCorrect == LLMSpec => []ReportIsRanked
BY LLMReportCorrect, ReportFacts, PTL

\* No report of either agent cites evidence that was not collected, whatever
\* evidence the model invents.
THEOREM ReferencesCorrect == LLMSpec => []ReferencesAreReal
BY LLMReportCorrect, ReportFacts, PTL

\* No status that the model proposes takes back a diagnosis whose leading
\* cause is backed and highly confident.
THEOREM StrongDiagnosisCorrect == LLMSpec => []StrongDiagnosisStands
BY LLMReportCorrect, ReportFacts, PTL

-----------------------------------------------------------------------------
(* What the report of the rule-based agent rests on.                       *)

\* The hypotheses are argued from the evidence at every node that has them, a
\* regression is checked from the verification on, and a report is the status
\* of the hypotheses that it lists.
RuleInv ==
    /\ ReportInv
    /\ node \in {"verify", "validate", "report", "done"} => Argued(hypotheses)
    /\ node \in {"validate", "report", "done"} => RegressionChecked(hypotheses)
    /\ report # "none" => report = DetermineStatus(hypotheses, evidence)

\* The invariant of the rules holds at the start.
LEMMA RuleInit == AgentInit => RuleInv
<1> SUFFICES ASSUME AgentInit PROVE RuleInv
  OBVIOUS
<1>1. ReportInv
  BY ReportInit
<1> QED BY <1>1 DEF AgentInit, RuleInv

\* A node before the hypotheses.
LEMMA RuleEarly ==
    ASSUME RuleInv, ReportInv', node' \in {"topology", "plan", "collect", "build"}
    PROVE  RuleInv'
<1>1. report' = "none"
  BY DEF ReportInv, ShortfallInv
<1> QED BY <1>1 DEF RuleInv

\* A node that keeps the evidence and leaves argued hypotheses.
LEMMA RuleArgued ==
    ASSUME RuleInv, ReportInv', service' = service, evidence' = evidence,
           node' \in {"verify", "validate", "report"},
           Argued(hypotheses'),
           node' # "verify" => RegressionChecked(hypotheses')
    PROVE  RuleInv'
<1>1. Collected
  BY DEF RuleInv, ReportInv, ShortfallInv
<1>2. PICK l : l = hypotheses'
  OBVIOUS
<1>3. Argued(hypotheses)' /\ (node' # "verify" => RegressionChecked(hypotheses)')
  <2>1. Argued(l)' /\ (node' # "verify" => RegressionChecked(l)')
    BY <1>1, <1>2, SameArguments
  <2> QED BY <1>2, <2>1
<1>4. report' = "none"
  BY DEF ReportInv, ShortfallInv
<1> QED BY <1>3, <1>4 DEF RuleInv

\* The hypotheses and the evidence stay, and a report is their status.
LEMMA RuleReported ==
    ASSUME RuleInv, ReportInv', service' = service, evidence' = evidence,
           hypotheses' = hypotheses,
           node' = node \/ (node = "report" /\ node' = "done"),
           report' # "none" => report' = DetermineStatus(hypotheses, evidence)
    PROVE  RuleInv'
<1>1. Collected
  BY DEF RuleInv, ReportInv, ShortfallInv
<1>2. /\ node' \in {"verify", "validate", "report", "done"} => Argued(hypotheses)'
      /\ node' \in {"validate", "report", "done"} => RegressionChecked(hypotheses)'
  BY <1>1, SameArguments DEF RuleInv
<1>3. DetermineStatus(hypotheses, evidence)' = DetermineStatus(hypotheses, evidence)
  OBVIOUS
<1> QED BY <1>2, <1>3 DEF RuleInv

\* Every step of the rule-based agent keeps the invariant of the rules.
LEMMA RuleNext == RuleInv /\ [Next]_vars => RuleInv'
<1> SUFFICES ASSUME RuleInv, [Next]_vars PROVE RuleInv'
  OBVIOUS
<1>1. ReportInv' /\ Collected /\ ListOK(hypotheses)
  BY ReportNext DEF RuleInv, ReportInv, ShortfallInv
<1>2. CASE LoadIncident \/ LoadTopology \/ CreatePlan \/ CallTool \/ StopCollecting
  <2>1. node' \in {"topology", "plan", "collect", "build"}
    BY <1>2 DEF LoadIncident, LoadTopology, CreatePlan, CallTool, StopCollecting
  <2> QED BY <1>1, <2>1, RuleEarly
<1>3. CASE BuildHypotheses
  <2>1. Argued(hypotheses')
    BY <1>1, <1>3, BuiltOf
  <2>2. service' = service /\ evidence' = evidence /\ node' = "verify"
    BY <1>3 DEF BuildHypotheses, inputs
  <2> QED BY <1>1, <2>1, <2>2, RuleArgued
<1>4. CASE VerifyHypotheses
  <2>1. node = "verify" /\ service' = service /\ evidence' = evidence /\ node' = "validate"
    BY <1>4 DEF VerifyHypotheses, inputs
  <2>2. Argued(hypotheses)
    BY <2>1 DEF RuleInv
  <2>3. Argued(hypotheses') /\ RegressionChecked(hypotheses')
    BY <1>1, <1>4, <2>2, VerifiedOf
  <2> QED BY <1>1, <2>1, <2>3, RuleArgued
<1>5. CASE ValidateEvidence
  <2>1. node = "validate" /\ service' = service /\ evidence' = evidence /\ node' = "report"
    BY <1>5 DEF ValidateEvidence, inputs
  <2>2. Argued(hypotheses) /\ RegressionChecked(hypotheses)
    BY <2>1 DEF RuleInv
  <2>3. Argued(hypotheses') /\ RegressionChecked(hypotheses')
    BY <1>1, <1>5, <2>2, ValidatedArgued
  <2> QED BY <1>1, <2>1, <2>3, RuleArgued
<1>6. CASE GenerateReport
  BY <1>1, <1>6, RuleReported DEF GenerateReport, inputs
<1>7. CASE UNCHANGED vars
  BY <1>1, <1>7, RuleReported DEF vars, inputs, RuleInv
<1> QED BY <1>2, <1>3, <1>4, <1>5, <1>6, <1>7 DEF Next

\* The invariant of the rules holds.
LEMMA RuleCorrect == Spec => []RuleInv
BY RuleInit, RuleNext, PTL DEF Spec

\* The facts about a report that its three properties start from.
LEMMA RuleReportFacts ==
    ASSUME RuleInv, report # "none"
    PROVE  /\ Collected /\ ListOK(hypotheses)
           /\ Argued(hypotheses) /\ RegressionChecked(hypotheses)
           /\ report = "DIAGNOSED" <=>
                 /\ hypotheses # <<>>
                 /\ Backed(hypotheses[1]) /\ hypotheses[1].confidence # "LOW"
           /\ hypotheses # <<>> => 1 \in DOMAIN hypotheses
<1>1. node = "done"
  BY DEF RuleInv, ReportInv, ShortfallInv
<1>2. Collected /\ ListOK(hypotheses) /\ FullyTraceable(hypotheses, evidence)
  BY <1>1 DEF RuleInv, ReportInv, ShortfallInv
<1>3. report = DetermineStatus(hypotheses, evidence)
  BY DEF RuleInv
<1>4. hypotheses # <<>> => 1 \in DOMAIN hypotheses
  <2> SUFFICES ASSUME hypotheses # <<>> PROVE 1 \in DOMAIN hypotheses
    OBVIOUS
  <2>1. hypotheses \in Seq(Hypotheses) /\ Len(hypotheses) # 0
    BY <1>2 DEF ListOK
  <2> QED BY <2>1
<1> QED BY <1>1, <1>2, <1>3, <1>4, StatusOf DEF RuleInv

\* It implies that diagnoses are supported.
LEMMA DiagnosisFacts == RuleInv => DiagnosisIsSupported
<1> SUFFICES ASSUME RuleInv, report = "DIAGNOSED"
             PROVE  /\ Strength(hypotheses[1].cause) >= 2
                    /\ ~Refuted(hypotheses[1].cause)
                    /\ \E i \in DOMAIN evidence :
                          /\ evidence[i].id \in hypotheses[1].support
                          /\ \E h \in ToSet(Suggested(evidence[i])) : h.cause = hypotheses[1].cause
  BY DEF DiagnosisIsSupported, Weight
<1> DEFINE top == hypotheses[1]
<1>1. /\ ListOK(hypotheses) /\ Argued(hypotheses) /\ RegressionChecked(hypotheses)
      /\ 1 \in DOMAIN hypotheses /\ Backed(top) /\ top.confidence # "LOW"
  BY RuleReportFacts
<1>2. Grounded(top)
  BY <1>1 DEF Argued
<1>3. top.contra = {} /\ Strength(top.cause) >= 2 /\ ~(top.cause = Pool /\ PoolIsLow(evidence))
  BY <1>1, <1>2 DEF Grounded
<1>4. ~Contradicted(top.cause)
  <2> SUFFICES ASSUME NEW i \in DOMAIN hypotheses, hypotheses[i].cause = top.cause
               PROVE  hypotheses[i].contra = {}
    BY DEF Contradicted
  <2>1. i = 1
    BY <1>1 DEF ListOK, DistinctCauses
  <2> QED BY <1>3, <2>1
<1>5. ~(top.cause = Regression /\ NoDeployment # {})
  BY <1>1 DEF RegressionChecked
<1>6. PICK n \in top.support : TRUE
  BY <1>1 DEF Backed
<1>7. PICK i \in DOMAIN evidence : /\ evidence[i].id = n
                                   /\ \E g \in ToSet(Suggested(evidence[i])) : g.cause = top.cause
  BY <1>2, <1>6 DEF Grounded
<1> QED BY <1>3, <1>4, <1>5, <1>6, <1>7 DEF Refuted

\* It implies that the strongest are listed.
LEMMA ListedFacts == RuleInv => StrongestAreListed
<1> SUFFICES ASSUME RuleInv, report # "none", NEW c \in Cause \ Listed, Proposed(c)
             PROVE  Len(hypotheses) = 3 /\ \A d \in Listed : Strength(d) >= Strength(c)
  BY DEF StrongestAreListed, Proposed
<1>1. Shortlisted(hypotheses)
  BY RuleReportFacts DEF Argued
<1>2. ~\E k \in DOMAIN hypotheses : hypotheses[k].cause = c
  BY DEF Listed
<1> QED BY <1>1, <1>2 DEF Shortlisted, Listed

\* It implies that an inconclusive report has a reason.
LEMMA InconclusiveFacts == RuleInv => InconclusiveHasReason
<1> SUFFICES ASSUME RuleInv, report = "INCONCLUSIVE",
                    NEW c \in Cause, Strength(c) > 1, ~Refuted(c)
             PROVE  hypotheses[1].cause = Regression /\ Refuted(Regression)
  <2>1. RuleInv => \A c \in Cause : Strength(c) \in Nat
    <3> SUFFICES ASSUME RuleInv, NEW c \in Cause PROVE Strength(c) \in Nat
      OBVIOUS
    <3>1. Collected
      BY DEF RuleInv, ReportInv, ShortfallInv
    <3> QED BY <3>1, StrengthOf
  <2> QED BY <2>1 DEF InconclusiveHasReason, Weight
<1>1. LedByStrong(hypotheses)
  BY RuleReportFacts DEF Argued
<1>2. Strength(c) \in Nat
  BY StrengthOf, RuleReportFacts
<1>3. Proposed(c) /\ Strength(c) >= 2
  BY <1>2 DEF Proposed, Refuted
<1>4. /\ hypotheses # <<>> /\ Backed(hypotheses[1])
      /\ hypotheses[1].confidence # "LOW" \/ (hypotheses[1].cause = Regression
                                              /\ hypotheses[1].contra # {})
  BY <1>1, <1>3 DEF LedByStrong
<1>5. /\ hypotheses[1].cause = Regression /\ hypotheses[1].contra # {}
      /\ 1 \in DOMAIN hypotheses
  BY <1>4, RuleReportFacts
<1>6. Contradicted(Regression)
  BY <1>5 DEF Contradicted
<1> QED BY <1>5, <1>6 DEF Refuted

\* Whatever the tools return and however often the clock is read, a diagnosis
\* by the rules names a cause that collected evidence supports with at least a
\* medium confidence and that no evidence refutes.
THEOREM DiagnosisCorrect == Spec => []DiagnosisIsSupported
BY RuleCorrect, DiagnosisFacts, PTL

\* The merge, the refutation by the pool's usage, the sort and the cut leave a
\* cause out of the report only for three that are at least as strong.
THEOREM ListedCorrect == Spec => []StrongestAreListed
BY RuleCorrect, ListedFacts, PTL

\* An inconclusive report by the rules does not hide an unrefuted cause of
\* medium or high confidence, unless a refuted regression led the list.
THEOREM InconclusiveCorrect == Spec => []InconclusiveHasReason
BY RuleCorrect, InconclusiveFacts, PTL

-----------------------------------------------------------------------------
(* The cause that leads the report of the rule-based agent.                *)

\* No suggestion is stronger than its cause, and one is as strong.
LEMMA StrengthFrom ==
    ASSUME Collected, NEW c
    PROVE  /\ \A h \in Suggestions : h.cause = c => Weight[h.confidence] <= Strength(c)
           /\ Strength(c) # 0 =>
                 \E h \in Suggestions : h.cause = c /\ Weight[h.confidence] = Strength(c)
<1> DEFINE weights == {Weight[h.confidence] : h \in {g \in Suggestions : g.cause = c}}
<1>1. Strength(c) = IF weights = {} THEN 0 ELSE Max(weights)
  BY DEF Strength
<1>2. weights \in SUBSET (1..3)
  <2> SUFFICES ASSUME NEW h \in Suggestions PROVE Weight[h.confidence] \in 1..3
    OBVIOUS
  <2>1. h \in Hypotheses
    BY SuggestedListOf
  <2>2. h.confidence \in Confidence
    BY <2>1 DEF Hypotheses
  <2> QED BY <2>2, WeightOf
<1>3. /\ \A h \in Suggestions : h.cause = c => Weight[h.confidence] \in weights
      /\ \A w \in weights : \E h \in Suggestions : h.cause = c /\ Weight[h.confidence] = w
  OBVIOUS
<1> HIDE DEF weights
<1>4. CASE weights = {}
  BY <1>1, <1>3, <1>4
<1>5. CASE weights # {}
  <2>1. \E m \in weights : \A n \in weights : n <= m
    <3>1. CASE 3 \in weights
      BY <1>2, <3>1
    <3>2. CASE 3 \notin weights /\ 2 \in weights
      BY <1>2, <3>2
    <3>3. CASE 3 \notin weights /\ 2 \notin weights
      <4>1. \A n \in weights : n = 1
        BY <1>2, <3>3
      <4> QED BY <1>5, <4>1
    <3> QED BY <3>1, <3>2, <3>3
  <2>2. PICK m \in weights : \A n \in weights : n <= m
    BY <2>1
  <2>3. weights \in SUBSET Nat
    BY <1>2
  <2>4. Strength(c) = m
    BY <1>1, <1>5, <2>2, <2>3, MaxOf
  <2> QED BY <1>3, <2>2, <2>4
<1> QED BY <1>4, <1>5

\* The cause of the first suggestion leads the ranked list if none is stronger.
LEMMA FirstVoiceLeads ==
    ASSUME Collected, SuggestedList # <<>>, Proposed(SuggestedList[1].cause),
           \A c : Proposed(c) => Strength(c) <= Strength(SuggestedList[1].cause)
    PROVE  RankedList # <<>> /\ RankedList[1].cause = SuggestedList[1].cause
<1> DEFINE sl == SuggestedList
           mc == MergeCauses(sl)
           ms == RemoveMetricContradicted(mc, evidence)
           key == [i \in DOMAIN ms |-> 3 - Weight[ms[i].confidence]]
           r == RankedList
<1>1. sl \in Seq(Hypotheses) /\ 1 \in DOMAIN sl
  <2>1. sl \in Seq(Hypotheses) /\ sl # <<>>
    BY SuggestedListOf
  <2> HIDE DEF sl
  <2> QED BY <2>1
<1>2. \A c : Strength(c) \in Nat
  BY StrengthOf
<1>3. /\ ms \in Seq(Hypotheses) /\ \A k \in DOMAIN ms : Supported(ms[k])
      /\ r = TopThree(SortedBy(ms, key))
  BY MergedSupported DEF RankedList, SortThenCut, ByConfidence
<1> DEFINE top == sl[1].cause
<1>4. Proposed(top) /\ \A c : Proposed(c) => Strength(c) <= Strength(top)
  OBVIOUS
<1> HIDE DEF sl
<1>5. 1 \in DOMAIN mc /\ mc[1].cause = top /\ mc \in Seq(Hypotheses)
  BY <1>1, MergedHead
<1> HIDE DEF mc, top
<1>6. 1 \in DOMAIN ms /\ ms[1].cause = top
  <2>1. CASE PoolIsLow(evidence)
    <3> DEFINE P == {i \in DOMAIN mc : mc[i].cause # Pool}
    <3>1. ms = At(mc, P)
      BY <2>1 DEF RemoveMetricContradicted
    <3>2. P \in SUBSET DOMAIN mc /\ 1..1 \subseteq P
      BY <1>4, <1>5, <2>1 DEF Proposed
    <3> HIDE DEF P, ms
    <3>3. 1 <= Len(ms) /\ ms[1] = mc[1]
      <4>1. 1 \in Nat /\ 1 \in 1..1
        OBVIOUS
      <4> QED BY <1>5, <3>1, <3>2, <4>1, PrefixKept
    <3>4. Len(ms) \in Nat /\ DOMAIN ms = 1..Len(ms)
      BY <1>3
    <3> QED BY <1>5, <3>3, <3>4
  <2>2. CASE ~PoolIsLow(evidence)
    BY <1>5, <2>2 DEF RemoveMetricContradicted
  <2> QED BY <2>1, <2>2
<1> HIDE DEF ms
<1>7. ASSUME NEW i \in DOMAIN ms
      PROVE  /\ key[i] = 3 - Strength(ms[i].cause) /\ key[i] \in Nat
             /\ Strength(ms[i].cause) <= Strength(top)
  <2>1. Supported(ms[i]) /\ ms[i] \in Hypotheses
    BY <1>3
  <2>2. Weight[ms[i].confidence] = Strength(ms[i].cause) /\ ms[i].confidence \in Confidence
    BY <2>1 DEF Supported, Hypotheses
  <2>3. Proposed(ms[i].cause)
    BY <2>1 DEF Supported, Proposed
  <2>4. key[i] = 3 - Weight[ms[i].confidence] /\ Weight[ms[i].confidence] \in 1..3
    BY <2>2, WeightOf
  <2> HIDE DEF key
  <2> QED BY <1>4, <2>2, <2>3, <2>4
<1>8. key \in [DOMAIN ms -> Nat]
  <2>1. DOMAIN key = DOMAIN ms /\ key = [i \in DOMAIN ms |-> key[i]]
    OBVIOUS
  <2> HIDE DEF key
  <2> QED BY <1>7, <2>1
<1> HIDE DEF key, r
<1>9. /\ r \in Seq(Hypotheses) /\ Len(r) = (IF Len(ms) < 3 THEN Len(ms) ELSE 3)
      /\ \E q : Selects(r, ms, key, q)
  BY <1>3, <1>8, LeastThree
<1>10. PICK q : Selects(r, ms, key, q)
  BY <1>9
<1>11. 1 \in DOMAIN r
  <2>1. Len(ms) \in Nat /\ 1 <= Len(ms) /\ DOMAIN ms = 1..Len(ms)
    BY <1>3, <1>6
  <2>2. Len(r) \in Nat /\ 1 <= Len(r)
    BY <1>9, <2>1
  <2> QED BY <1>9, <2>2
<1>12. q[1] = 1
  <2>1. q[1] \in DOMAIN ms /\ q[1] \in Nat /\ q[1] >= 1
    <3>1. q[1] \in DOMAIN ms
      BY <1>10, <1>11 DEF Selects
    <3> QED BY <1>3, <3>1
  <2>2. key[1] <= key[q[1]]
    BY <1>2, <1>6, <1>7, <2>1
  <2>3. q[1] # 1 => Leads(key, q[1], 1)
    <3> SUFFICES ASSUME q[1] # 1 PROVE Leads(key, q[1], 1)
      OBVIOUS
    <3>1. CASE \E k \in DOMAIN r : q[k] = 1
      <4>1. PICK k \in DOMAIN r : q[k] = 1
        BY <3>1
      <4>2. 1 < k
        BY <1>9, <4>1
      <4> QED BY <1>10, <1>11, <4>1, <4>2 DEF Selects
    <3>2. CASE ~\E k \in DOMAIN r : q[k] = 1
      BY <1>6, <1>10, <1>11, <3>2 DEF Selects
    <3> QED BY <3>1, <3>2
  <2>4. key[1] \in Nat /\ key[q[1]] \in Nat
    BY <1>6, <1>7, <2>1
  <2> QED BY <2>1, <2>2, <2>3, <2>4 DEF Leads
<1>13. r # <<>> /\ r[1] = ms[1]
  BY <1>10, <1>11, <1>12 DEF Selects
<1> QED BY <1>6, <1>13 DEF r, top, sl

\* What the list of hypotheses says of the strength of the causes: it is not
\* empty and names no cause that nothing speaks for, none that is proposed is
\* stronger than the first, and the cause of the first suggestion is the first
\* of the strongest.
Headed(hs) ==
    /\ hs # <<>>
    /\ \A k \in DOMAIN hs : hs[k].cause # "UNKNOWN" => Strength(hs[k].cause) # 0
    /\ \A c : Proposed(c) => Backed(hs[1]) /\ Strength(c) <= Strength(hs[1].cause)
    /\ LET voice == SuggestedList[1].cause
       IN  /\ SuggestedList # <<>> /\ Proposed(voice)
           /\ \A c : Proposed(c) => Strength(c) <= Strength(voice)
           => hs[1].cause = voice

\* The hypotheses that the rules build are headed by the strongest.
LEMMA HeadedBuilt ==
    ASSUME Collected, BuildHypotheses
    PROVE  Headed(hypotheses')
<1> DEFINE r == RankedList
           hs == hypotheses'
<1>1. /\ r \in Seq(Hypotheses)
      /\ \A k \in DOMAIN r : Supported(r[k])
      /\ \A c : Proposed(c) => r # <<>> /\ Strength(r[1].cause) >= Strength(c)
  BY RankedListOf
<1>2. \A c : Strength(c) \in Nat
  BY StrengthOf
<1>3. /\ r = <<>> => hs = <<Unknown>>
      /\ r # <<>> => /\ hs # <<>> /\ DOMAIN hs = DOMAIN r /\ Backed(hs[1])
                     /\ \A k \in DOMAIN r : hs[k].cause = r[k].cause
  BY BuiltList
<1> HIDE DEF r, hs
<1>4. ASSUME NEW k \in DOMAIN hs, hs[k].cause # "UNKNOWN" PROVE Strength(hs[k].cause) # 0
  <2>1. CASE r = <<>>
    <3>1. k = 1 /\ hs[k] = Unknown
      BY <1>3, <2>1
    <3>2. Unknown.cause = "UNKNOWN"
      BY DEF Unknown, Hypothesis
    <3> QED BY <1>4, <3>1, <3>2
  <2>2. CASE r # <<>>
    BY <1>1, <1>3, <2>2 DEF Supported
  <2> QED BY <2>1, <2>2
<1>5. r # <<>> => 1 \in DOMAIN r
  BY <1>1
<1>6. ASSUME NEW c, Proposed(c)
      PROVE  Backed(hs[1]) /\ Strength(c) <= Strength(hs[1].cause)
  <2>1. r # <<>> /\ Strength(r[1].cause) >= Strength(c)
    BY <1>1, <1>6
  <2> QED BY <1>2, <1>3, <1>5, <2>1
<1>7. ASSUME SuggestedList # <<>>, Proposed(SuggestedList[1].cause),
             \A c : Proposed(c) => Strength(c) <= Strength(SuggestedList[1].cause)
      PROVE  hs[1].cause = SuggestedList[1].cause
  <2>1. r # <<>> /\ r[1].cause = SuggestedList[1].cause
    BY <1>7, FirstVoiceLeads DEF r
  <2> QED BY <1>3, <1>5, <2>1
<1>8. hs # <<>>
  BY <1>3
<1> QED BY <1>4, <1>6, <1>7, <1>8 DEF Headed, hs

\* A list stays headed when its hypotheses keep their causes and the first, if
\* it has evidence, its place.
LEMMA HeadedStill ==
    ASSUME NEW hs, NEW t, Headed(hs), t # <<>>,
           \A k \in DOMAIN t : \E i \in DOMAIN hs : t[k].cause = hs[i].cause,
           Backed(hs[1]) => Backed(t[1]) /\ t[1].cause = hs[1].cause
    PROVE  Headed(t)
BY DEF Headed

\* What _verify_hypotheses leaves is headed as before.
LEMMA HeadedVerified ==
    ASSUME ListOK(hypotheses), Headed(hypotheses), VerifyHypotheses
    PROVE  Headed(hypotheses')
<1> DEFINE hs == hypotheses
           t == hypotheses'
<1>1. PICK old : t = DemoteRegression(old)
  BY DEF VerifyHypotheses
<1>2. hs \in Seq(Hypotheses)
  BY DEF ListOK
<1>3. DOMAIN t = DOMAIN hs /\ \A k \in DOMAIN hs : t[k] =
          IF hs[k].cause = Regression /\ old # {}
          THEN [hs[k] EXCEPT !.contra = @ \cup old, !.confidence = "LOW"]
          ELSE hs[k]
  BY <1>1 DEF DemoteRegression
<1> HIDE DEF hs, t
<1>4. \A k \in DOMAIN hs : t[k].cause = hs[k].cause /\ t[k].support = hs[k].support
  <2> SUFFICES ASSUME NEW k \in DOMAIN hs
               PROVE  t[k].cause = hs[k].cause /\ t[k].support = hs[k].support
    OBVIOUS
  <2>1. hs[k] \in Hypotheses
    BY <1>2
  <2> QED BY <1>3, <2>1 DEF Hypotheses
<1>5. Headed(hs) /\ hs # <<>>
  BY DEF hs, Headed
<1>6. 1 \in DOMAIN hs
  BY <1>2, <1>5
<1>7. t # <<>>
  <2>1. DOMAIN t # {}
    BY <1>3, <1>6
  <2>2. ASSUME NEW f, f = <<>> PROVE DOMAIN f = {}
    BY <2>2
  <2> QED BY <2>1, <2>2
<1> QED BY <1>3, <1>4, <1>5, <1>6, <1>7, HeadedStill DEF Backed, t

\* And so is what the validation leaves.
LEMMA HeadedValidated ==
    ASSUME ListOK(hypotheses), Argued(hypotheses), Headed(hypotheses), ValidateEvidence
    PROVE  Headed(hypotheses')
<1> DEFINE hs == hypotheses
           d == DropUnknownReferences(hs, evidence)
           t == hypotheses'
<1>1. hs \in Seq(Hypotheses) /\ t = FilterWithoutEvidence(d)
  BY DEF ListOK, ValidateEvidence
<1>2. /\ d \in Seq(Hypotheses) /\ DOMAIN d = DOMAIN hs
      /\ \A i \in DOMAIN hs : /\ d[i].cause = hs[i].cause
                              /\ d[i].support = hs[i].support \cap Ids(evidence)
  BY <1>1, ReferencesDropped
<1>3. \A i \in DOMAIN hs : Grounded(hs[i])
  BY DEF Argued
<1>4. Headed(hs)
  OBVIOUS
<1> HIDE DEF hs, d
<1>5. t \in Seq(Hypotheses) /\ \E p : Refiled(t, d, p)
  BY <1>1, <1>2, FilteredOf
<1> HIDE DEF t
<1>6. PICK p : Refiled(t, d, p)
  BY <1>5
<1>7. \A k \in DOMAIN t : p[k] \in DOMAIN hs /\ t[k].cause = hs[p[k]].cause
                         /\ t[k].support = d[p[k]].support
  BY <1>2, <1>6 DEF Refiled
<1>8. 1 \in DOMAIN hs /\ t # <<>>
  <2>1. 1 \in DOMAIN hs
    BY <1>1, <1>4 DEF Headed
  <2>2. PICK k \in DOMAIN t : p[k] = 1
    BY <1>2, <1>6, <2>1 DEF Refiled
  <2> QED BY <2>1, <2>2
<1>9. ASSUME Backed(hs[1]) PROVE Backed(t[1]) /\ t[1].cause = hs[1].cause
  <2>1. 1 \in DOMAIN hs
    BY <1>8
  <2>2. d[1].support = hs[1].support
    <3>1. hs[1].support \subseteq Ids(evidence)
      BY <1>3, <2>1 DEF Grounded
    <3> QED BY <1>2, <2>1, <3>1
  <2>3. Backed(d[1]) /\ d # <<>>
    BY <1>2, <1>9, <2>1, <2>2 DEF Backed
  <2>4. p[1] = 1
    BY <1>6, <2>3 DEF Refiled
  <2>5. 1 \in DOMAIN t
    <3>1. PICK k \in DOMAIN t : p[k] = 1
      BY <1>2, <1>6, <2>1 DEF Refiled
    <3> QED BY <1>5, <3>1
  <2> QED BY <1>7, <2>2, <2>3, <2>4, <2>5 DEF Backed
<1> QED BY <1>4, <1>7, <1>8, <1>9, HeadedStill DEF t

\* The list is headed from the nodes that build it on.
HeadInv ==
    /\ RuleInv
    /\ node \in {"verify", "validate", "report", "done"} => Headed(hypotheses)

\* The invariant of the first cause holds at the start.
LEMMA HeadInit == AgentInit => HeadInv
BY RuleInit DEF AgentInit, HeadInv

\* A list stays headed while the service and the evidence stay.
LEMMA SameHeads ==
    ASSUME Collected, service' = service, evidence' = evidence, NEW hs, Headed(hs)
    PROVE  Headed(hs)'
<1>1. \A c : Strength(c)' = Strength(c)
  BY SameArguments
<1>2. \A c : Proposed(c)' <=> Proposed(c)
  BY <1>1 DEF Proposed, PoolIsLow
<1>3. SuggestedList' = SuggestedList
  <2>1. \A i \in DOMAIN evidence : Suggested(evidence[i])' = Suggested(evidence[i])
    BY SameSuggestions
  <2>2. [i \in DOMAIN evidence |-> Suggested(evidence[i])]'
            = [i \in DOMAIN evidence |-> Suggested(evidence[i])]
    BY <2>1
  <2> QED BY <2>2 DEF SuggestedList
<1> QED BY <1>1, <1>2, <1>3 DEF Headed

\* Every step of the rule-based agent keeps the list headed.
LEMMA HeadNext == HeadInv /\ [Next]_vars => HeadInv'
<1> SUFFICES ASSUME HeadInv, [Next]_vars PROVE HeadInv'
  OBVIOUS
<1>1. RuleInv' /\ RuleInv /\ Collected /\ ListOK(hypotheses)
  BY RuleNext DEF HeadInv, RuleInv, ReportInv, ShortfallInv
<1>2. ASSUME Headed(hypotheses'), service' = service, evidence' = evidence PROVE HeadInv'
  <2>1. PICK l : l = hypotheses'
    OBVIOUS
  <2>2. Headed(l)'
    BY <1>1, <1>2, <2>1, SameHeads
  <2> QED BY <1>1, <2>1, <2>2 DEF HeadInv
<1>3. CASE LoadIncident \/ LoadTopology \/ CreatePlan \/ CallTool \/ StopCollecting
  BY <1>1, <1>3 DEF HeadInv, LoadIncident, LoadTopology, CreatePlan, CallTool, StopCollecting
<1>4. CASE BuildHypotheses
  BY <1>1, <1>2, <1>4, HeadedBuilt DEF BuildHypotheses, inputs
<1>5. CASE VerifyHypotheses
  BY <1>1, <1>2, <1>5, HeadedVerified DEF VerifyHypotheses, inputs, HeadInv
<1>6. CASE ValidateEvidence
  BY <1>1, <1>2, <1>6, HeadedValidated DEF ValidateEvidence, inputs, HeadInv, RuleInv
<1>7. CASE GenerateReport \/ UNCHANGED vars
  <2>1. /\ service' = service /\ evidence' = evidence /\ hypotheses' = hypotheses
        /\ node' = node \/ node = "report"
    BY <1>7 DEF GenerateReport, vars, inputs
  <2>2. CASE node \in {"verify", "validate", "report", "done"}
    BY <1>2, <2>1, <2>2 DEF HeadInv
  <2>3. CASE node \notin {"verify", "validate", "report", "done"}
    BY <1>1, <2>1, <2>3 DEF HeadInv
  <2> QED BY <2>2, <2>3
<1> QED BY <1>3, <1>4, <1>5, <1>6, <1>7 DEF Next

\* The first cause of a report by the rules is as strong as any, but for a pool
\* whose measured usage is low.
THEOREM LeaderCorrect == Spec => []StrongestLeads
<1>1. HeadInv => StrongestLeads
  <2> SUFFICES ASSUME HeadInv, report # "none", NEW c \in Cause,
                      ~(c = Pool /\ PoolIsLow(evidence))
               PROVE  hypotheses # <<>> /\ Strength(c) <= Strength(hypotheses[1].cause)
    BY DEF StrongestLeads
  <2>1. Collected /\ Headed(hypotheses)
    BY DEF HeadInv, RuleInv, ReportInv, ShortfallInv
  <2>2. Strength(c) \in Nat /\ Strength(hypotheses[1].cause) \in Nat
    BY <2>1, StrengthOf
  <2>3. Proposed(c) => Strength(c) <= Strength(hypotheses[1].cause)
    BY <2>1 DEF Headed
  <2> QED BY <2>1, <2>2, <2>3 DEF Headed, Proposed
<1> QED BY <1>1, HeadInit, HeadNext, PTL DEF Spec

-----------------------------------------------------------------------------
(* The steps that the agent with a language model requires.                *)

\* The number of a piece of evidence is the place of its step in the plan.
Placed ==
    /\ \A i \in DOMAIN evidence : /\ evidence[i].id <= Len(plan)
                                  /\ evidence[i] \in Results(plan[evidence[i].id], evidence[i].id)
    /\ \A i, j \in DOMAIN evidence : i < j => evidence[i].id < evidence[j].id

\* Until the collection starts nothing was called; then every call is a step of
\* the plan, and the plan leads with the required steps.
Required ==
    /\ node \in {"load", "plan"} => used = 0 /\ evidence = <<>> /\ failures = <<>>
    /\ node = "collect" => Taken = used
    /\ node \in Later \cup {"collect"} => PlanLeads /\ Placed
    /\ node \in Later => Taken = Len(plan) \/ Taken >= budget

RequiredInv ==
    /\ ReportInv
    /\ BudgetInv
    /\ available => Required

\* The invariant of the required steps holds at the start.
LEMMA RequiredInit == LLMInit => RequiredInv
<1> SUFFICES ASSUME LLMInit PROVE RequiredInv
  OBVIOUS
<1>1. ReportInv /\ BudgetInv
  BY ReportInit, BudgetInit DEF LLMInit
<1> QED BY <1>1 DEF LLMInit, AgentInit, RequiredInv, Required, Later

\* A node after the collection, or one that ends the diagnosis.
LEMMA RequiredKept ==
    ASSUME Required, node \in Later \/ node' = "raised",
           node' \in Later \/ node' = "raised",
           alert' = alert, budget' = budget, UNCHANGED <<plan, evidence, failures>>
    PROVE  Required'
<1>1. CASE node' = "raised"
  BY <1>1 DEF Required, Later
<1>2. CASE node \in Later /\ node' \in Later
  <2>1. PlanLeads' /\ Placed'
    BY <1>2 DEF Required, PlanLeads, Placed
  <2>2. Taken' = Taken
    BY DEF Taken
  <2> QED BY <1>2, <2>1, <2>2 DEF Required, Later
<1> QED BY <1>1, <1>2

\* A call adds the evidence of the step at the place of its number.
LEMMA PlacedCall ==
    ASSUME Collected, Placed, Taken = used, CallTool
    PROVE  Placed'
<1> DEFINE n == used + 1
<1>1. /\ used \in Nat /\ n \in Nat /\ n <= Len(plan) /\ plan' = plan
      /\ Len(plan) \in Nat /\ evidence \in Seq(Item)
  BY DEF Collected, CallTool
<1>2. CASE \E e \in Results(plan[n], n) : evidence' = Append(evidence, e)
  <2>1. PICK e \in Results(plan[n], n) : evidence' = Append(evidence, e)
    BY <1>2
  <2>2. e.id = n
    <3>1. plan[n] \in Step
      BY <1>1 DEF Collected
    <3> QED BY <1>1, <3>1, ResultOf
  <2> HIDE DEF n
  <2>3. /\ \A i \in DOMAIN evidence' : i \in DOMAIN evidence \/ i = Len(evidence) + 1
        /\ \A i \in DOMAIN evidence : evidence'[i] = evidence[i] /\ i \in 1..Len(evidence)
        /\ evidence'[Len(evidence) + 1] = e
        /\ Len(evidence) \in Nat
    BY <1>1, <2>1
  <2>4. ASSUME NEW i \in DOMAIN evidence'
        PROVE  /\ evidence'[i].id <= Len(plan)
               /\ evidence'[i] \in Results(plan[evidence'[i].id], evidence'[i].id)
    <3>1. CASE i \in DOMAIN evidence
      BY <2>3, <3>1 DEF Placed
    <3>2. CASE i = Len(evidence) + 1
      BY <1>1, <2>1, <2>2, <2>3, <3>2
    <3> QED BY <2>3, <3>1, <3>2
  <2>5. ASSUME NEW i \in DOMAIN evidence', NEW j \in DOMAIN evidence', i < j
        PROVE  evidence'[i].id < evidence'[j].id
    <3>1. i \in DOMAIN evidence
      BY <2>3, <2>5
    <3>2. evidence[i].id \in 1..used
      BY <3>1 DEF Collected
    <3>3. CASE j \in DOMAIN evidence
      BY <2>3, <2>5, <3>1, <3>3 DEF Placed
    <3>4. CASE j = Len(evidence) + 1
      <4>1. evidence'[i].id \in 1..used /\ evidence'[j].id = used + 1
        BY <2>2, <2>3, <3>1, <3>2, <3>4 DEF n
      <4> QED BY <1>1, <4>1
    <3> QED BY <2>3, <3>3, <3>4
  <2>6. \A i \in DOMAIN evidence' : /\ evidence'[i].id <= Len(plan')
                                    /\ evidence'[i] \in Results(plan'[evidence'[i].id], evidence'[i].id)
    BY <1>1, <2>4
  <2> QED BY <2>5, <2>6 DEF Placed
<1>3. CASE evidence' = evidence
  BY <1>1, <1>3 DEF Placed
<1> QED BY <1>2, <1>3 DEF CallTool

\* A call takes the next step in order.
LEMMA RequiredCall ==
    ASSUME Collected, Required, CallTool
    PROVE  Required'
<1>1. node = "collect" /\ node' = "collect" /\ alert' = alert /\ budget' = budget /\ plan' = plan
      /\ used' = used + 1
  BY DEF CallTool, inputs
<1>2. Taken = used /\ PlanLeads /\ Placed
  BY <1>1 DEF Required
<1>3. Taken' = Taken + 1
  BY CallOf
<1>4. PlanLeads' /\ Placed'
  BY <1>1, <1>2, PlacedCall DEF PlanLeads
<1> QED BY <1>1, <1>2, <1>3, <1>4 DEF Required, Later

\* The exhausted budget leaves the steps that were taken.
LEMMA RequiredStop ==
    ASSUME Collected, Required, StopCollecting
    PROVE  Required'
<1>1. /\ node = "collect" /\ node' = "build" /\ alert' = alert /\ budget' = budget
      /\ plan' = plan /\ evidence' = evidence /\ used' = used
  BY DEF StopCollecting, inputs
<1>2. Taken = used /\ PlanLeads /\ Placed
  BY <1>1 DEF Required
<1>3. PlanLeads' /\ Placed'
  BY <1>1, <1>2 DEF PlanLeads, Placed
<1>4. Taken' = Len(plan) \/ Taken' >= budget
  <2>1. CASE Taken = Len(plan) /\ UNCHANGED failures
    BY <1>1, <2>1 DEF Taken
  <2>2. CASE used >= budget /\ failures' = Append(failures, "budget")
    <3>1. /\ Len(failures') = Len(failures) + 1 /\ Len(failures) \in Nat
          /\ Len(evidence) \in Nat
      BY <2>2 DEF Collected
    <3>2. Taken \in Nat /\ Taken' = Taken + 1
      BY <1>1, <3>1 DEF Taken
    <3>3. budget \in Nat
      BY CollectionAssumption DEF Collected
    <3> QED BY <1>2, <2>2, <3>2, <3>3
  <2> QED BY <2>1, <2>2 DEF StopCollecting
<1> QED BY <1>1, <1>3, <1>4 DEF Required, Later

\* Every step of a diagnosis with the model keeps the invariant.
LEMMA RequiredStep ==
    ASSUME Collected, Required, LLMStep
    PROVE  Required'
<1>1. CASE LLMLoadIncident
  BY <1>1 DEF LLMLoadIncident, Required, Later
<1>2. CASE LLMCreatePlan
  <2>1. PlanLeads'
    BY <1>2, LLMPlanOf
  <2>2. node' = "collect" /\ used' = 0 /\ evidence' = <<>> /\ failures' = <<>>
    BY <1>2 DEF LLMCreatePlan, Required
  <2>3. Placed' /\ Taken' = 0
    BY <2>2 DEF Placed, Taken
  <2> QED BY <2>1, <2>2, <2>3 DEF Required, Later
<1>3. CASE CallTool
  BY <1>3, RequiredCall
<1>4. CASE StopCollecting
  BY <1>4, RequiredStop
<1>5. CASE LLMBuildHypotheses
  BY <1>5, RequiredKept DEF LLMBuildHypotheses, Later, inputs
<1>6. CASE ValidateEvidence
  BY <1>6, RequiredKept DEF ValidateEvidence, Later, inputs
<1>7. CASE LLMGenerateReport
  BY <1>7, RequiredKept DEF LLMGenerateReport, Later, inputs
<1>8. CASE LLMRaises
  BY <1>8, RequiredKept DEF LLMRaises, Later, inputs
<1> QED BY <1>1, <1>2, <1>3, <1>4, <1>5, <1>6, <1>7, <1>8 DEF LLMStep

\* So does every step of the agent with a model and its fallback.
LEMMA RequiredNext == RequiredInv /\ [LLMNext]_llmVars => RequiredInv'
<1> SUFFICES ASSUME RequiredInv, [LLMNext]_llmVars PROVE RequiredInv'
  OBVIOUS
<1>1. ReportInv' /\ BudgetInv' /\ Collected
  BY ReportLLMNext, BudgetLLMNext DEF RequiredInv, ReportInv, ShortfallInv
<1>2. CASE available /\ LLMStep /\ UNCHANGED available
  BY <1>1, <1>2, RequiredStep DEF RequiredInv
<1>3. CASE ~available /\ Next /\ UNCHANGED available
  BY <1>1, <1>3 DEF RequiredInv
<1>4. CASE UNCHANGED llmVars
  <2>1. Required => Required'
    BY <1>4 DEF Required, Later, PlanLeads, Placed, Taken, llmVars, vars, inputs
  <2> QED BY <1>1, <1>4, <2>1 DEF RequiredInv, llmVars
<1> QED BY <1>2, <1>3, <1>4 DEF LLMNext

\* The invariant of the required steps holds.
LEMMA RequiredCorrect == LLMSpec => []RequiredInv
BY RequiredInit, RequiredNext, PTL DEF LLMSpec

\* It implies that the required steps are taken.
LEMMA RequiredFacts == RequiredInv => RequiredStepsTaken
<1> SUFFICES ASSUME RequiredInv, available, report # "none",
                    NEW i \in DOMAIN RequiredFor[alert], i <= budget
             PROVE  Taken >= i /\ plan[i] = RequiredFor[alert][i]
  BY DEF RequiredStepsTaken
<1>1. node \in Later
  BY DEF RequiredInv, ReportInv, ShortfallInv, Later
<1>2. PlanLeads /\ (Taken = Len(plan) \/ Taken >= budget)
  BY <1>1 DEF RequiredInv, Required
<1>3. i <= Len(plan) /\ plan[i] = RequiredFor[alert][i]
  BY <1>2 DEF PlanLeads
<1>4. i \in Nat /\ budget \in Nat
  <2>1. alert \in Alert /\ budget \in Nat
    BY CollectionAssumption DEF RequiredInv, ReportInv, ShortfallInv, Collected
  <2>2. RequiredFor[alert] \in Seq(Step)
    BY <2>1, RequiredSteps
  <2> QED BY <2>1, <2>2
<1>5. Taken \in Nat
  BY DEF Taken, RequiredInv, ReportInv, ShortfallInv, Collected
<1> QED BY <1>2, <1>3, <1>4, <1>5

\* Whatever steps the model proposes and whichever calls fail, the agent
\* executes the steps that it requires itself, in order and before any other,
\* as far as the budget goes.
THEOREM RequiredStepsCorrect == LLMSpec => []RequiredStepsTaken
BY RequiredCorrect, RequiredFacts, PTL

-----------------------------------------------------------------------------
(* The causes that the required evidence shows.                            *)

SlowQuery == "DATABASE_SLOW_QUERY"

\* What the agent's own rules find: one of two causes, with a high confidence.
Certain(h, n) ==
    /\ h \in Hypotheses
    /\ h.cause \in {SlowQuery, Pool}
    /\ h.confidence = "HIGH" /\ h.support = {n}

\* The log rules for a slow query and for the pool are the first two, and certain.
LEMMA CertainRules ==
    \A x \in DOMAIN LogRules : LogRules[x].cause \in {SlowQuery, Pool} =>
        x \in 1..2 /\ LogRules[x].confidence = "HIGH"
<1>1. /\ DOMAIN LogRules = 1..8
      /\ LogRules[1].confidence = "HIGH" /\ LogRules[2].confidence = "HIGH"
  BY DEF LogRules, Rule
<1>2. /\ LogRules[3].cause \notin {SlowQuery, Pool} /\ LogRules[4].cause \notin {SlowQuery, Pool}
      /\ LogRules[5].cause \notin {SlowQuery, Pool} /\ LogRules[6].cause \notin {SlowQuery, Pool}
      /\ LogRules[7].cause \notin {SlowQuery, Pool} /\ LogRules[8].cause \notin {SlowQuery, Pool}
  BY DEF LogRules, Rule, SlowQuery, Pool, Regression
<1> QED BY <1>1, <1>2

\* Logs show each of the two causes at most once.
LEMMA CertainLogs ==
    ASSUME NEW e \in Item, e.tool = "query_logs"
    PROVE  /\ Len(EvidentIn(e)) <= 2
           /\ \A k \in DOMAIN EvidentIn(e) : Certain(EvidentIn(e)[k], e.id)
<1> DEFINE R == {x \in DOMAIN LogRules : LogRules[x].pattern \in e.patterns}
           hits == At(LogRules, R)
           found == FromLogs(e)
           P == {i \in DOMAIN found : found[i].cause \in {SlowQuery, Pool}}
           t == At(found, P)
<1>1. t = EvidentIn(e)
  BY Zenon DEF EvidentIn, SlowQuery
<1>2. e.id \in Nat /\ found \in Seq(Hypotheses) /\ \A k \in DOMAIN found : Finding(found[k], e)
  BY ItemOf, FromLogsOf
<1>3. found = [i \in DOMAIN hits |-> Hypothesis(hits[i].cause, hits[i].confidence, {e.id})]
  BY DEF FromLogs
<1>4. R \in SUBSET DOMAIN LogRules /\ P \in SUBSET DOMAIN found
  OBVIOUS
<1>5. \A i \in P : found[i].cause \in {SlowQuery, Pool}
  OBVIOUS
<1> DEFINE Rules == [pattern : Pattern, cause : Cause \ {"UNKNOWN"}, confidence : Confidence]
<1>6. LogRules \in Seq(Rules)
  BY LogRulesOf
<1> HIDE DEF R, P, Rules
<1>7. /\ hits \in Seq(Rules)
      /\ \E q : /\ Picks(hits, LogRules, q, R)
                /\ \A j, k \in 1..Len(hits) : j < k => q[j] < q[k]
  BY <1>4, <1>6, AtListed
<1> HIDE DEF found, hits
<1>8. PICK q : /\ Picks(hits, LogRules, q, R)
               /\ \A j, k \in 1..Len(hits) : j < k => q[j] < q[k]
  BY <1>7
<1>9. /\ t \in Seq(Hypotheses)
      /\ \E p : Picks(t, found, p, P) /\ \A j, k \in 1..Len(t) : j < k => p[j] < p[k]
  BY <1>2, <1>4, AtListed
<1> HIDE DEF t
<1>10. PICK p : Picks(t, found, p, P) /\ \A j, k \in 1..Len(t) : j < k => p[j] < p[k]
  BY <1>9
<1>11. DOMAIN hits = 1..Len(hits) /\ DOMAIN found = DOMAIN hits
  BY <1>3, <1>7
<1>12. DOMAIN t = 1..Len(t) /\ Len(t) \in Nat
  <2> t \in Seq(Hypotheses)
    BY <1>9
  <2> QED OBVIOUS
<1>13. ASSUME NEW k \in 1..Len(t)
       PROVE  p[k] \in 1..Len(hits) /\ q[p[k]] \in 1..2 /\ Certain(t[k], e.id)
  <2>1. p[k] \in P /\ t[k] = found[p[k]]
    BY <1>10 DEF Picks
  <2>2. p[k] \in 1..Len(hits) /\ found[p[k]].cause \in {SlowQuery, Pool}
    BY <1>4, <1>5, <1>11, <2>1
  <2>3. q[p[k]] \in DOMAIN LogRules /\ hits[p[k]] = LogRules[q[p[k]]]
    BY <1>4, <1>8, <2>2 DEF Picks
  <2>4. Finding(t[k], e)
    BY <1>2, <1>11, <2>1, <2>2
  <2> DEFINE c == hits[p[k]].cause
             l == hits[p[k]].confidence
  <2>5. t[k] = Hypothesis(c, l, {e.id})
    BY <1>3, <1>11, <2>1, <2>2
  <2>6. t[k].cause = c /\ t[k].confidence = l
    <3> HIDE DEF c, l
    <3> QED BY <2>5 DEF Hypothesis
  <2>7. q[p[k]] \in 1..2 /\ l = "HIGH"
    BY <2>1, <2>2, <2>3, <2>6, CertainRules
  <2> QED BY <2>1, <2>2, <2>4, <2>6, <2>7 DEF Certain, Finding
<1>14. Len(t) <= 2
  <2> SUFFICES ASSUME Len(t) >= 3 PROVE FALSE
    BY <1>12
  <2>1. 1 \in 1..Len(t) /\ 2 \in 1..Len(t) /\ 3 \in 1..Len(t)
    BY <1>12
  <2>2. p[1] < p[2] /\ p[2] < p[3]
    BY <1>10, <2>1
  <2>3. q[p[1]] < q[p[2]] /\ q[p[2]] < q[p[3]]
    BY <1>8, <1>13, <2>1, <2>2
  <2> QED BY <1>13, <2>1, <2>3
<1> QED BY <1>1, <1>12, <1>13, <1>14

\* What the evidence of a step can show.
LEMMA CertainOf ==
    ASSUME NEW s \in Step, NEW n \in Nat, NEW e \in Results(s, n)
    PROVE  /\ EvidentIn(e) \in Seq(Hypotheses)
           /\ \A k \in DOMAIN EvidentIn(e) : Certain(EvidentIn(e)[k], n)
           /\ Len(EvidentIn(e)) <= 2
           /\ s.tool = "query_deployments" => EvidentIn(e) = <<>>
           /\ s.tool = "query_metrics" =>
                 /\ Len(EvidentIn(e)) <= 1
                 /\ s.metric = "latency_p95" =>
                       \A k \in DOMAIN EvidentIn(e) : EvidentIn(e)[k].cause = SlowQuery
                 /\ s.metric = "db_pool_active_ratio" =>
                       \A k \in DOMAIN EvidentIn(e) : EvidentIn(e)[k].cause = Pool
                 /\ s.metric \notin {"latency_p95", "db_pool_active_ratio"} => EvidentIn(e) = <<>>
<1>1. e \in Item /\ e.id = n /\ s.tool \in Tool
  BY ResultOf DEF Item, Step
<1>2. EvidentIn(e) \in Seq(Hypotheses)
  BY <1>1, EvidentInOf
<1>3. CASE s.tool = "query_logs"
  <2>1. Results(s, n) = {[id |-> n, tool |-> "query_logs", patterns |-> p] :
                            p \in UNION {kSubset(k, Patterns) : k \in 0..MaxPatterns}}
    BY <1>3, Zenon DEF Results
  <2>2. e.tool = "query_logs"
    BY <2>1
  <2> QED BY <1>1, <1>2, <1>3, <2>2, CertainLogs
<1>4. CASE s.tool = "query_metrics"
  <2>1. Results(s, n) = {[id |-> n, tool |-> "query_metrics", metric |-> s.metric, level |-> l] :
                            l \in IF s.metric \in Metric THEN Levels(s.metric) ELSE {}}
    BY <1>4, Zenon DEF Results
  <2>2. e.tool = "query_metrics" /\ e.metric = s.metric
    BY <2>1
  <2>3. CASE e.level = "high" /\ e.metric = "db_pool_active_ratio"
    <3>1. EvidentIn(e) = <<Hypothesis(Pool, "HIGH", {e.id})>>
      BY <2>2, <2>3, Zenon DEF EvidentIn
    <3>2. Certain(Hypothesis(Pool, "HIGH", {e.id}), n) /\ Hypothesis(Pool, "HIGH", {e.id}).cause = Pool
      BY <1>1 DEF Certain, Hypothesis, Hypotheses, Pool, Cause, Confidence
    <3> QED BY <1>2, <1>4, <2>2, <2>3, <3>1, <3>2
  <2>4. CASE e.level = "high" /\ e.metric = "latency_p95"
    <3>1. EvidentIn(e) = <<Hypothesis(SlowQuery, "HIGH", {e.id})>>
      BY <2>2, <2>4, Zenon DEF EvidentIn, SlowQuery
    <3>2. /\ Certain(Hypothesis(SlowQuery, "HIGH", {e.id}), n)
          /\ Hypothesis(SlowQuery, "HIGH", {e.id}).cause = SlowQuery
      BY <1>1 DEF Certain, Hypothesis, Hypotheses, SlowQuery, Cause, Confidence
    <3> QED BY <1>2, <1>4, <2>2, <2>4, <3>1, <3>2
  <2>5. CASE /\ ~(e.level = "high" /\ e.metric = "db_pool_active_ratio")
             /\ ~(e.level = "high" /\ e.metric = "latency_p95")
    <3>1. EvidentIn(e) = <<>>
      BY <2>2, <2>5, Zenon DEF EvidentIn
    <3> QED BY <1>2, <1>4, <3>1
  <2> QED BY <2>3, <2>4, <2>5
<1>5. CASE s.tool \in {"query_deployments", "search_runbooks"}
  <2>1. e.tool = s.tool
    <3>1. CASE s.tool = "query_deployments"
      <4>1. Results(s, n) = {[id |-> n, tool |-> "query_deployments", release |-> r] : r \in Release}
        BY <3>1, Zenon DEF Results
      <4> QED BY <3>1, <4>1
    <3>2. CASE s.tool = "search_runbooks"
      <4>1. Results(s, n) = {[id |-> n, tool |-> "search_runbooks"]}
        BY <3>2, Zenon DEF Results
      <4> QED BY <3>2, <4>1
    <3> QED BY <1>5, <3>1, <3>2
  <2>2. e.tool # "query_logs" /\ e.tool # "query_metrics"
    BY <1>5, <2>1
  <2>3. EvidentIn(e) = <<>>
    BY <2>2, Zenon DEF EvidentIn
  <2> QED BY <1>2, <1>5, <2>3
<1> QED BY <1>1, <1>3, <1>4, <1>5 DEF Tool

\* Where the logs are among the required steps of an alert that requires no
\* other step that shows a cause.
LogsAt == IF alert = "ERROR_RATE_HIGH" THEN 1 ELSE 2

\* What the n-th required step can show.
LEMMA RequiredShows ==
    ASSUME Collected, NEW n \in DOMAIN RequiredFor[alert],
           NEW e \in Results(RequiredFor[alert][n], n), NEW k \in DOMAIN EvidentIn(e)
    PROVE  /\ n \in 1..3 /\ k \in 1..2
           /\ alert = "P95_LATENCY_HIGH" /\ n = 1 => k = 1 /\ EvidentIn(e)[k].cause = SlowQuery
           /\ alert = "P95_LATENCY_HIGH" /\ n = 2 => k = 1 /\ EvidentIn(e)[k].cause = Pool
           /\ alert # "P95_LATENCY_HIGH" => n = LogsAt
<1> DEFINE s == RequiredFor[alert][n]
<1>1. alert \in Alert /\ RequiredFor[alert] \in Seq(Step)
  BY RequiredSteps DEF Collected
<1>2. n \in Nat /\ s \in Step
  BY <1>1
<1>3. EvidentIn(e) \in Seq(Hypotheses) /\ Len(EvidentIn(e)) <= 2 /\ EvidentIn(e) # <<>>
  BY <1>2, CertainOf
<1>4. k \in 1..Len(EvidentIn(e)) /\ Len(EvidentIn(e)) \in Nat
  BY <1>3
<1>5. k \in 1..2
  BY <1>3, <1>4
<1>6. s.tool # "query_deployments"
  BY <1>2, <1>3, CertainOf
<1>7. s.tool = "query_metrics" =>
          /\ k = 1
          /\ s.metric \in {"latency_p95", "db_pool_active_ratio"}
          /\ s.metric = "latency_p95" => EvidentIn(e)[k].cause = SlowQuery
          /\ s.metric = "db_pool_active_ratio" => EvidentIn(e)[k].cause = Pool
  BY <1>2, <1>3, <1>4, CertainOf
<1>8. /\ Deployments.tool = "query_deployments"
      /\ \A m : Measure(m).tool = "query_metrics" /\ Measure(m).metric = m
  BY DEF Deployments, Measure
<1>9. CASE alert = "P95_LATENCY_HIGH"
  <2>1. RequiredFor[alert] = <<Measure("latency_p95"), Measure("db_pool_active_ratio"),
                               Logs, Deployments>>
    BY <1>9 DEF RequiredFor, PlanFor
  <2>2. /\ n \in 1..4
        /\ n = 1 => s = Measure("latency_p95")
        /\ n = 2 => s = Measure("db_pool_active_ratio")
        /\ n = 4 => s = Deployments
    BY <2>1
  <2> HIDE DEF s
  <2> QED BY <1>5, <1>6, <1>7, <1>8, <1>9, <2>2
<1>10. CASE alert = "ERROR_RATE_HIGH"
  <2>1. RequiredFor[alert] = <<Logs, Measure("error_rate"), Deployments>>
    BY <1>10 DEF RequiredFor, PlanFor
  <2>2. n \in 1..3 /\ (n = 2 => s = Measure("error_rate")) /\ (n = 3 => s = Deployments)
    BY <2>1
  <2> HIDE DEF s
  <2>3. n = 1
    BY <1>6, <1>7, <1>8, <2>2
  <2> QED BY <1>5, <1>10, <2>3 DEF LogsAt
<1>11. CASE alert = "THROUGHPUT_LOW"
  <2>1. RequiredFor[alert] = <<Measure("request_rate"), Logs>>
    BY <1>11 DEF RequiredFor, PlanFor
  <2>2. n \in 1..2 /\ (n = 1 => s = Measure("request_rate"))
    BY <2>1
  <2> HIDE DEF s
  <2>3. n = 2
    BY <1>7, <1>8, <2>2
  <2> QED BY <1>5, <1>11, <2>3 DEF LogsAt
<1>12. CASE alert = "MQ_LAG_HIGH"
  <2>1. RequiredFor[alert] = <<Measure("mq_lag"), Logs>>
    BY <1>12 DEF RequiredFor, PlanFor
  <2>2. n \in 1..2 /\ (n = 1 => s = Measure("mq_lag"))
    BY <2>1
  <2> HIDE DEF s
  <2>3. n = 2
    BY <1>7, <1>8, <2>2
  <2> QED BY <1>5, <1>12, <2>3 DEF LogsAt
<1> QED BY <1>1, <1>9, <1>10, <1>11, <1>12 DEF Alert

\* What the agent's own rules find in the evidence, by name.
Shown == [i \in DOMAIN evidence |-> EvidentIn(evidence[i])]
EvidentList == Flattened(Shown)

\* What the guardrails find in each item is certain.
LEMMA ShownOf ==
    ASSUME Collected, Placed
    PROVE  /\ Shown \in Seq(Seq(Hypotheses)) /\ DOMAIN Shown = DOMAIN evidence
           /\ \A i \in DOMAIN evidence :
                 /\ Shown[i] = EvidentIn(evidence[i])
                 /\ \A k \in DOMAIN Shown[i] : Certain(Shown[i][k], evidence[i].id)
<1> DEFINE n == Len(evidence)
<1>1. DOMAIN evidence = 1..n /\ n \in Nat /\ \A i \in 1..n : evidence[i] \in Item
  BY DEF Collected
<1>2. Shown = [i \in 1..n |-> Shown[i]] /\ \A i \in 1..n : Shown[i] = EvidentIn(evidence[i])
  BY <1>1 DEF Shown
<1>3. ASSUME NEW i \in 1..n
      PROVE  /\ Shown[i] \in Seq(Hypotheses)
             /\ \A k \in DOMAIN Shown[i] : Certain(Shown[i][k], evidence[i].id)
  <2> DEFINE m == evidence[i].id
  <2>1. m \in 1..used /\ m <= Len(plan) /\ evidence[i] \in Results(plan[m], m) /\ used \in Nat
    BY <1>1 DEF Collected, Placed
  <2>2. m \in Nat /\ plan[m] \in Step
    BY <2>1 DEF Collected
  <2> HIDE DEF m
  <2>3. /\ EvidentIn(evidence[i]) \in Seq(Hypotheses)
        /\ \A k \in DOMAIN EvidentIn(evidence[i]) : Certain(EvidentIn(evidence[i])[k], m)
    BY <2>1, <2>2, CertainOf
  <2> QED BY <1>2, <2>3 DEF m
<1> HIDE DEF n
<1>4. Shown \in Seq(Seq(Hypotheses)) /\ DOMAIN Shown = 1..n
  BY <1>1, <1>2, <1>3
<1> QED BY <1>1, <1>2, <1>3, <1>4

\* A required step's place, and what it shows there.
LEMMA RequiredPlace ==
    ASSUME Collected, Placed, PlanLeads, used <= budget,
           NEW i \in DOMAIN evidence, evidence[i].id <= Len(RequiredFor[alert]),
           NEW k \in DOMAIN EvidentIn(evidence[i])
    PROVE  LET n == evidence[i].id
           IN  /\ n \in 1..3 /\ k \in 1..2
               /\ alert = "P95_LATENCY_HIGH" /\ n = 1 =>
                     k = 1 /\ EvidentIn(evidence[i])[k].cause = SlowQuery
               /\ alert = "P95_LATENCY_HIGH" /\ n = 2 =>
                     k = 1 /\ EvidentIn(evidence[i])[k].cause = Pool
               /\ alert # "P95_LATENCY_HIGH" => n = LogsAt
<1> DEFINE n == evidence[i].id
<1>1. n \in 1..used /\ used \in Nat /\ budget \in Nat /\ alert \in Alert
  BY CollectionAssumption DEF Collected
<1>2. RequiredFor[alert] \in Seq(Step)
  BY <1>1, RequiredSteps
<1>3. n \in DOMAIN RequiredFor[alert] /\ n <= budget
  BY <1>1, <1>2
<1>4. plan[n] = RequiredFor[alert][n]
  BY <1>3 DEF PlanLeads
<1>5. evidence[i] \in Results(plan[n], n)
  BY DEF Placed
<1> HIDE DEF n
<1>6. evidence[i] \in Results(RequiredFor[alert][n], n)
  BY <1>4, <1>5
<1> QED BY <1>3, <1>6, RequiredShows DEF n

\* The first three findings have all the causes that the required evidence shows.
LEMMA EvidentFirst ==
    ASSUME Collected, Placed, PlanLeads, used <= budget,
           NEW i \in DOMAIN evidence, evidence[i].id <= Len(RequiredFor[alert]),
           NEW j \in DOMAIN Shown[i]
    PROVE  \E k \in DOMAIN EvidentList : k <= 3 /\ EvidentList[k].cause = Shown[i][j].cause
<1> DEFINE F == EvidentList
           m == Len(RequiredFor[alert])
<1>1. /\ Shown \in Seq(Seq(Hypotheses)) /\ DOMAIN Shown = DOMAIN evidence
      /\ \A x \in DOMAIN evidence :
            /\ Shown[x] = EvidentIn(evidence[x])
            /\ \A k \in DOMAIN Shown[x] : Certain(Shown[x][k], evidence[x].id)
  BY ShownOf
<1>2. F \in Seq(Hypotheses) /\ \E p : Lines(F, Shown, p)
  BY <1>1, FlattenedListed DEF EvidentList
<1>3. PICK p : Lines(F, Shown, p)
  BY <1>2
<1> HIDE DEF F
<1>4. PICK f \in DOMAIN F : p[f] = <<i, j>>
  BY <1>1, <1>3 DEF Lines
<1>5. F[f] = Shown[i][j] /\ F[f].cause \in {SlowQuery, Pool}
  BY <1>1, <1>3, <1>4 DEF Lines, Certain
<1>6. CASE f <= 3
  BY <1>4, <1>5, <1>6 DEF F
<1>7. CASE f > 3
  <2>1. 1 \in DOMAIN F /\ 2 \in DOMAIN F /\ 3 \in DOMAIN F /\ f \in Nat
    <3>1. Len(F) \in Nat /\ DOMAIN F = 1..Len(F)
      BY <1>2
    <3> QED BY <1>4, <1>7, <3>1
  <2> DEFINE Id(k) == evidence[p[k][1]].id
             N(k) == IF alert # "P95_LATENCY_HIGH" THEN p[k][2]
                     ELSE IF Id(k) = 3 THEN 2 + p[k][2] ELSE Id(k)
  <2>2. DOMAIN evidence \subseteq Nat /\ \A x \in DOMAIN evidence : evidence[x].id \in Nat
    BY DEF Collected
  <2>3. m \in Nat
    <3>1. RequiredFor[alert] \in Seq(Step)
      BY RequiredSteps DEF Collected
    <3> QED BY <3>1
  <2>4. \A k \in DOMAIN F : /\ p[k][1] \in DOMAIN evidence
                            /\ p[k][2] \in DOMAIN Shown[p[k][1]]
                            /\ F[k] = Shown[p[k][1]][p[k][2]]
    BY <1>1, <1>3 DEF Lines
  <2>5. \A k, l \in DOMAIN F : k < l => \/ p[k][1] < p[l][1]
                                        \/ p[k][1] = p[l][1] /\ p[k][2] < p[l][2]
    BY <1>3 DEF Lines
  <2>6. \A k, l \in DOMAIN F : k < l => \/ Id(k) < Id(l)
                                        \/ Id(k) = Id(l) /\ p[k][2] < p[l][2]
    BY <2>4, <2>5 DEF Placed
  <2>7. Id(f) <= m
    BY <1>4
  <2>8. ASSUME NEW k \in DOMAIN F, Id(k) <= Id(f)
        PROVE  /\ Id(k) \in 1..3 /\ p[k][2] \in 1..2
               /\ alert = "P95_LATENCY_HIGH" /\ Id(k) = 1 => p[k][2] = 1 /\ F[k].cause = SlowQuery
               /\ alert = "P95_LATENCY_HIGH" /\ Id(k) = 2 => p[k][2] = 1 /\ F[k].cause = Pool
               /\ alert # "P95_LATENCY_HIGH" => Id(k) = LogsAt
    <3>1. Id(k) \in Nat /\ Id(f) \in Nat
      BY <1>4, <2>2, <2>4
    <3>2. Id(k) <= m
      BY <2>3, <2>7, <2>8, <3>1
    <3>3. p[k][1] \in DOMAIN evidence /\ p[k][2] \in DOMAIN EvidentIn(evidence[p[k][1]])
      BY <1>1, <2>4
    <3>4. F[k] = EvidentIn(evidence[p[k][1]])[p[k][2]]
      BY <1>1, <2>4
    <3> QED BY <3>2, <3>3, <3>4, RequiredPlace
  <2> HIDE DEF Id, m
  <2>9. \A k \in {1, 2, 3, f} : k \in DOMAIN F /\ (Id(k) < Id(f) \/ Id(k) = Id(f))
    BY <1>7, <2>1, <2>6, <1>4
  <2>10. \A k \in {1, 2, 3, f} : Id(k) \in Nat /\ Id(k) <= Id(f)
    <3>1. \A k \in DOMAIN F : Id(k) \in Nat
      BY <2>2, <2>4 DEF Id
    <3> QED BY <2>9, <3>1, <1>4
  <2>11. /\ N(1) \in 1..4 /\ N(2) \in 1..4 /\ N(3) \in 1..4 /\ N(f) \in 1..4
         /\ alert # "P95_LATENCY_HIGH" => N(1) \in 1..2 /\ N(2) \in 1..2 /\ N(3) \in 1..2
    BY <2>8, <2>9, <2>10
  <2>12. ASSUME NEW k \in {1, 2, 3, f}, NEW l \in {1, 2, 3, f}, k < l
         PROVE  N(k) < N(l)
    <3>1. Id(k) < Id(l) \/ (Id(k) = Id(l) /\ p[k][2] < p[l][2])
      BY <2>6, <2>9, <2>12
    <3> QED BY <2>8, <2>9, <2>10, <3>1
  <2>13. N(1) < N(2) /\ N(2) < N(3) /\ N(3) < N(f)
    BY <1>7, <2>1, <2>12
  <2>14. alert = "P95_LATENCY_HIGH" /\ N(1) = 1 /\ N(2) = 2
    <3> HIDE DEF N
    <3> QED BY <2>11, <2>13
  <2>15. Id(1) = 1 /\ Id(2) = 2
    BY <2>8, <2>9, <2>10, <2>14
  <2>16. F[1].cause = SlowQuery /\ F[2].cause = Pool
    BY <2>8, <2>9, <2>10, <2>14, <2>15
  <2> QED BY <1>5, <2>1, <2>16 DEF F
<1>8. f \in Nat
  BY <1>2, <1>4
<1> QED BY <1>6, <1>7, <1>8

\* The guardrails are certain causes, among them all that the required evidence
\* shows.
LEMMA GuardrailsShow ==
    ASSUME Collected, Placed, PlanLeads, used <= budget, NEW h \in Evident
    PROVE  /\ Guardrails \in Seq(Hypotheses)
           /\ \A g \in DOMAIN Guardrails : \E n \in Ids(evidence) : Certain(Guardrails[g], n)
           /\ \E g \in DOMAIN Guardrails : Guardrails[g].cause = h.cause
<1> DEFINE F == EvidentList
<1>1. /\ Shown \in Seq(Seq(Hypotheses)) /\ DOMAIN Shown = DOMAIN evidence
      /\ \A x \in DOMAIN evidence :
            /\ Shown[x] = EvidentIn(evidence[x])
            /\ \A k \in DOMAIN Shown[x] : Certain(Shown[x][k], evidence[x].id)
  BY ShownOf
<1>2. PICK e \in RequiredEvidence : h \in ToSet(EvidentIn(e))
  BY DEF Evident
<1>3. PICK i \in DOMAIN evidence : e = evidence[i] /\ e.id <= Len(RequiredFor[alert])
  BY <1>2 DEF RequiredEvidence, ToSet
<1>4. PICK j \in DOMAIN Shown[i] : h = Shown[i][j]
  BY <1>1, <1>2, <1>3 DEF ToSet
<1>5. PICK k \in DOMAIN F : k <= 3 /\ F[k].cause = h.cause
  BY <1>3, <1>4, EvidentFirst
<1>6. /\ F \in Seq(Hypotheses)
      /\ \A x \in DOMAIN F : \E y \in DOMAIN Shown : \E z \in DOMAIN Shown[y] : F[x] = Shown[y][z]
  BY <1>1, FlattenedListed DEF EvidentList
<1>7. \A x \in DOMAIN F : \E n \in Ids(evidence) : Certain(F[x], n)
  <2> SUFFICES ASSUME NEW x \in DOMAIN F PROVE \E n \in Ids(evidence) : Certain(F[x], n)
    OBVIOUS
  <2>1. PICK y \in DOMAIN Shown : \E z \in DOMAIN Shown[y] : F[x] = Shown[y][z]
    BY <1>6
  <2>2. Certain(F[x], evidence[y].id) /\ evidence[y].id \in Ids(evidence)
    BY <1>1, <2>1 DEF Ids
  <2> QED BY <2>2
<1>8. Guardrails = TopThree(F)
  <2>1. F # <<>>
    BY <1>5, <1>6
  <2> QED BY <2>1 DEF Guardrails, EvidentList, Shown
<1> DEFINE G == TopThree(F)
<1> HIDE DEF F
<1>9. /\ G \in Seq(Hypotheses) /\ Len(G) = (IF Len(F) < 3 THEN Len(F) ELSE 3)
      /\ \A x \in DOMAIN G : x \in DOMAIN F /\ G[x] = F[x]
  BY <1>6, TopThreeOf
<1> HIDE DEF G
<1>10. k \in DOMAIN G
  <2>1. k \in 1..Len(F) /\ Len(F) \in Nat
    BY <1>5, <1>6
  <2>2. k \in 1..Len(G)
    BY <1>5, <1>9, <2>1
  <2> QED BY <1>9, <2>2
<1>11. \A x \in DOMAIN G : \E n \in Ids(evidence) : Certain(G[x], n)
  BY <1>7, <1>9
<1>12. G[k].cause = h.cause
  BY <1>5, <1>9, <1>10
<1>13. Guardrails = G
  BY <1>8 DEF G
<1> QED BY <1>9, <1>10, <1>11, <1>12, <1>13

\* Every cause that the required evidence shows and no pool usage refutes is in
\* the list, with collected evidence, and nothing up to it is less than highly
\* confident.
EvidentKept(hs) ==
    \A h \in Evident :
        \/ h.cause = Pool /\ PoolIsLow(evidence)
        \/ \E k \in DOMAIN hs : /\ hs[k].cause = h.cause
                                /\ hs[k].support \cap Ids(evidence) # {}
                                /\ \A j \in 1..k : hs[j].confidence = "HIGH"

\* A shown cause is kept among the hypotheses that are built.
LEMMA EvidentBuilt ==
    ASSUME Collected, Placed, PlanLeads, used <= budget, LLMBuildHypotheses
    PROVE  EvidentKept(hypotheses')
<1> SUFFICES ASSUME NEW h \in Evident, ~(h.cause = Pool /\ PoolIsLow(evidence))
             PROVE  \E k \in DOMAIN hypotheses' :
                       /\ hypotheses'[k].cause = h.cause
                       /\ hypotheses'[k].support \cap Ids(evidence) # {}
                       /\ \A j \in 1..k : hypotheses'[j].confidence = "HIGH"
  BY DEF EvidentKept
<1>1. evidence # <<>>
  <2>1. PICK e \in RequiredEvidence : h \in ToSet(EvidentIn(e))
    BY DEF Evident
  <2> QED BY <2>1 DEF RequiredEvidence, ToSet
<1>2. PICK claims \in BoundedSeq(Claimed, MaxClaims) :
          hypotheses' = Numbered(RemoveMetricContradicted(RankGuardrailsFirst(claims), evidence))
  BY <1>1 DEF LLMBuildHypotheses
<1>3. claims \in Seq(Hypotheses)
  <2>1. MaxClaims \in Nat
    BY LLMAssumption
  <2>2. claims \in Seq(Claimed) /\ Claimed \subseteq Hypotheses
    BY <1>1, <2>1, BoundedSeqOf, ClaimedOf
  <2> QED BY <2>2
<1> DEFINE G == Guardrails
           all == G \o claims
           mc == MergeCauses(all)
           r == RankCauses(all)
           u == RemoveMetricContradicted(r, evidence)
<1>4. hypotheses' = Numbered(u)
  BY <1>2 DEF RankGuardrailsFirst
<1>5. /\ G \in Seq(Hypotheses)
      /\ \A g \in DOMAIN G : \E n \in Ids(evidence) : Certain(G[g], n)
      /\ \E g \in DOMAIN G : G[g].cause = h.cause
  BY GuardrailsShow
<1>6. PICK g \in DOMAIN G : G[g].cause = h.cause
  BY <1>5
<1>7. PICK n \in Ids(evidence) : Certain(G[g], n)
  BY <1>5
<1> HIDE DEF G
<1>8. /\ all \in Seq(Hypotheses) /\ Len(G) \in 0..Len(all)
      /\ \A i \in 1..Len(G) : i \in DOMAIN G /\ all[i] = G[i]
      /\ g \in 1..Len(G) /\ g \in DOMAIN all
  BY <1>3, <1>5, <1>6
<1>9. \A i \in 1..Len(G) : all[i].cause \in {SlowQuery, Pool}
  BY <1>5, <1>8 DEF Certain
<1> HIDE DEF all
<1>10. PICK k \in DOMAIN mc :
          /\ k <= 2
          /\ \E i \in DOMAIN all : all[i].cause = all[g].cause /\ mc[k] = Merged(all, i)
  BY <1>8, <1>9, MergedFirst
<1>11. PICK i \in DOMAIN all : all[i].cause = all[g].cause /\ mc[k] = Merged(all, i)
  BY <1>10
<1>12. /\ mc[k] \in Hypotheses /\ mc[k].cause = all[g].cause
       /\ n \in mc[k].support
       /\ Weight[all[g].confidence] <= Weight[mc[k].confidence]
  <2>1. n \in all[g].support
    BY <1>7, <1>8 DEF Certain
  <2> QED BY <1>8, <1>11, <2>1, MergedOf
<1>13. mc[k].confidence = "HIGH"
  <2>1. all[g].confidence = "HIGH" /\ mc[k].confidence \in Confidence
    BY <1>7, <1>8, <1>12 DEF Certain, Hypotheses
  <2> QED BY <1>12, <2>1 DEF Confidence, Weight
<1>14. mc[k].cause = h.cause /\ mc[k].cause # "UNKNOWN"
  BY <1>6, <1>7, <1>8, <1>12 DEF Certain, SlowQuery, Pool
<1>15. LLMKey(mc[k]) = 0
  BY <1>12, <1>13, <1>14, LLMKeyOf DEF Backed
<1>16. /\ r \in Seq(Hypotheses) /\ DistinctCauses(r)
       /\ \E f \in DOMAIN r : r[f] = mc[k] /\ \A j \in 1..f : LLMKey(r[j]) = 0
  BY <1>8, <1>10, <1>15, RankCausesOf
<1>17. PICK f \in DOMAIN r : r[f] = mc[k] /\ \A j \in 1..f : LLMKey(r[j]) = 0
  BY <1>16
<1> HIDE DEF r, mc
<1>18. \A j \in 1..f : r[j].confidence = "HIGH"
  <2>1. \A j \in 1..f : j \in DOMAIN r /\ r[j] \in Hypotheses
    BY <1>16, <1>17
  <2> QED BY <1>17, <2>1, LLMKeyOf
<1>19. \E l \in DOMAIN u : u[l] = r[f] /\ \A j \in 1..l : u[j].confidence = "HIGH"
  <2>1. CASE ~PoolIsLow(evidence)
    BY <1>17, <1>18, <2>1 DEF RemoveMetricContradicted
  <2>2. CASE PoolIsLow(evidence)
    <3> DEFINE P == {x \in DOMAIN r : r[x].cause # Pool}
               t == At(r, P)
    <3>1. u = t
      BY <2>2 DEF RemoveMetricContradicted
    <3>2. P \in SUBSET DOMAIN r /\ f \in P
      BY <1>14, <1>17, <2>2
    <3> HIDE DEF P
    <3>3. /\ t \in Seq(Hypotheses)
          /\ \E q : Picks(t, r, q, P) /\ \A j, x \in 1..Len(t) : j < x => q[j] < q[x]
      BY <1>16, <3>2, AtListed
    <3> HIDE DEF t
    <3>4. PICK q : Picks(t, r, q, P) /\ \A j, x \in 1..Len(t) : j < x => q[j] < q[x]
      BY <3>3
    <3>5. PICK l \in 1..Len(t) : q[l] = f
      BY <3>2, <3>4 DEF Picks
    <3>6. DOMAIN t = 1..Len(t) /\ Len(t) \in Nat
      <4> t \in Seq(Hypotheses)
        BY <3>3
      <4> QED OBVIOUS
    <3>7. DOMAIN r \subseteq Nat \ {0}
      <4> r \in Seq(Hypotheses)
        BY <1>16
      <4> QED OBVIOUS
    <3>8. ASSUME NEW j \in 1..l PROVE t[j].confidence = "HIGH"
      <4>1. j \in 1..Len(t) /\ (j < l \/ j = l)
        BY <3>5, <3>6
      <4>2. q[j] \in DOMAIN r /\ t[j] = r[q[j]] /\ (q[j] < f \/ q[j] = f)
        BY <3>2, <3>4, <3>5, <4>1 DEF Picks
      <4>3. q[j] \in 1..f
        BY <3>7, <4>2, <1>17
      <4> QED BY <1>18, <4>2, <4>3
    <3>9. t[l] = r[f]
      BY <3>4, <3>5 DEF Picks
    <3> QED BY <3>1, <3>5, <3>6, <3>8, <3>9
  <2> QED BY <2>1, <2>2
<1>20. u \in Seq(Hypotheses)
  BY <1>16, Uncontradicted
<1>21. PICK l \in DOMAIN u : u[l] = r[f] /\ \A j \in 1..l : u[j].confidence = "HIGH"
  BY <1>19
<1> HIDE DEF u
<1>22. /\ Numbered(u) \in Seq(Hypotheses) /\ Len(Numbered(u)) = Len(u)
       /\ \A j \in DOMAIN u : /\ Numbered(u)[j].cause = u[j].cause
                              /\ Numbered(u)[j].confidence = u[j].confidence
                              /\ Numbered(u)[j].support = u[j].support
  BY <1>20, NumberedOf
<1> DEFINE t == Numbered(u)
<1> HIDE DEF t
<1>23. l \in DOMAIN t /\ \A j \in 1..l : j \in DOMAIN u
  <2>1. t \in Seq(Hypotheses) /\ Len(t) = Len(u)
    BY <1>22 DEF t
  <2> QED BY <1>20, <1>21, <2>1
<1>24. /\ t[l].cause = h.cause
       /\ n \in t[l].support \cap Ids(evidence)
       /\ \A j \in 1..l : t[j].confidence = "HIGH"
  BY <1>7, <1>12, <1>14, <1>17, <1>21, <1>22, <1>23 DEF t
<1> QED BY <1>4, <1>23, <1>24 DEF t

\* The validation keeps them: what stays backed keeps its place among what is.
LEMMA EvidentValidated ==
    ASSUME ListOK(hypotheses), ValidateEvidence, EvidentKept(hypotheses)
    PROVE  EvidentKept(hypotheses')
<1> DEFINE hs == hypotheses
           d == DropUnknownReferences(hs, evidence)
           t == hypotheses'
<1>1. hs \in Seq(Hypotheses) /\ t = FilterWithoutEvidence(d)
  BY DEF ListOK, ValidateEvidence
<1>2. /\ d \in Seq(Hypotheses) /\ DOMAIN d = DOMAIN hs
      /\ \A i \in DOMAIN hs : /\ d[i].cause = hs[i].cause
                              /\ d[i].confidence = hs[i].confidence
                              /\ d[i].support = hs[i].support \cap Ids(evidence)
  BY <1>1, ReferencesDropped
<1> HIDE DEF d
<1>3. t \in Seq(Hypotheses) /\ \E p : Refiled(t, d, p)
  BY <1>1, <1>2, FilteredOf
<1>4. PICK p : Refiled(t, d, p)
  BY <1>3
<1> HIDE DEF t
<1>5. SUFFICES ASSUME NEW h \in Evident, ~(h.cause = Pool /\ PoolIsLow(evidence))
               PROVE  \E k \in DOMAIN t : /\ t[k].cause = h.cause
                                          /\ t[k].support \cap Ids(evidence) # {}
                                          /\ \A j \in 1..k : t[j].confidence = "HIGH"
  BY DEF EvidentKept, t
<1>6. PICK f \in DOMAIN hs : /\ hs[f].cause = h.cause
                             /\ hs[f].support \cap Ids(evidence) # {}
                             /\ \A j \in 1..f : hs[j].confidence = "HIGH"
  BY <1>5 DEF EvidentKept
<1>7. PICK k \in DOMAIN t : p[k] = f
  BY <1>2, <1>4, <1>6 DEF Refiled
<1>8. DOMAIN hs = 1..Len(hs) /\ Len(hs) \in Nat /\ DOMAIN t = 1..Len(t) /\ Len(t) \in Nat
  <2> hs \in Seq(Hypotheses) /\ t \in Seq(Hypotheses)
    BY <1>1, <1>3
  <2> QED OBVIOUS
<1>9. t[k].cause = h.cause /\ t[k].support = hs[f].support \cap Ids(evidence) /\ Backed(t[k])
  BY <1>2, <1>4, <1>6, <1>7 DEF Refiled, Backed
<1>10. ASSUME NEW j \in 1..k PROVE t[j].confidence = "HIGH"
  <2>1. j \in DOMAIN t /\ (j < k \/ j = k)
    BY <1>7, <1>8
  <2>2. Backed(t[j]) /\ p[j] \in DOMAIN hs /\ (p[j] < f \/ p[j] = f)
    BY <1>2, <1>4, <1>7, <1>9, <2>1 DEF Refiled
  <2>3. p[j] \in 1..f
    BY <1>6, <1>8, <2>2
  <2>4. t[j].confidence = hs[p[j]].confidence
    BY <1>2, <1>4, <2>1, <2>2 DEF Refiled
  <2> QED BY <1>6, <2>3, <2>4
<1>11. t[k].support \cap Ids(evidence) # {}
  BY <1>6, <1>9
<1> QED BY <1>7, <1>9, <1>10, <1>11

\* From the built hypotheses on.
EvidentInv ==
    /\ RequiredInv
    /\ available /\ node \in {"validate", "report", "done"} => EvidentKept(hypotheses)

\* A step that leaves evidence and hypotheses leaves the evident cause.
LEMMA SameEvident ==
    ASSUME alert' = alert, evidence' = evidence, NEW hs, EvidentKept(hs)
    PROVE  EvidentKept(hs)'
<1>1. Evident' = Evident
  BY DEF Evident, RequiredEvidence
<1>2. PoolIsLow(evidence)' = PoolIsLow(evidence) /\ Ids(evidence)' = Ids(evidence)
  OBVIOUS
<1> QED BY <1>1, <1>2 DEF EvidentKept

\* Every step of a diagnosis with the model keeps the evident cause.
LEMMA EvidentStep ==
    ASSUME EvidentInv, available, LLMStep, node' \in {"validate", "report", "done"}
    PROVE  EvidentKept(hypotheses')
<1>1. Collected /\ ListOK(hypotheses) /\ used <= budget /\ Required
  BY DEF EvidentInv, RequiredInv, ReportInv, ShortfallInv, BudgetInv, BudgetIsKept
<1>2. CASE LLMBuildHypotheses
  <2>1. PlanLeads /\ Placed
    BY <1>1, <1>2 DEF Required, Later, LLMBuildHypotheses
  <2> QED BY <1>1, <1>2, <2>1, EvidentBuilt
<1>3. CASE ValidateEvidence
  <2>1. EvidentKept(hypotheses)
    BY <1>3 DEF EvidentInv, ValidateEvidence
  <2> QED BY <1>1, <1>3, <2>1, EvidentValidated
<1>4. CASE LLMGenerateReport
  BY <1>4 DEF EvidentInv, LLMGenerateReport
<1>5. CASE LLMLoadIncident \/ LLMCreatePlan \/ CallTool \/ StopCollecting \/ LLMRaises
  BY <1>5 DEF LLMLoadIncident, LLMCreatePlan, CallTool, StopCollecting, LLMRaises
<1> QED BY <1>2, <1>3, <1>4, <1>5 DEF LLMStep

\* So does every step of the agent with a model and its fallback.
LEMMA EvidentNext == EvidentInv /\ [LLMNext]_llmVars => EvidentInv'
<1> SUFFICES ASSUME EvidentInv, [LLMNext]_llmVars PROVE EvidentInv'
  OBVIOUS
<1>1. RequiredInv'
  BY RequiredNext DEF EvidentInv
<1>2. SUFFICES ASSUME available', node' \in {"validate", "report", "done"}
               PROVE  EvidentKept(hypotheses)'
  BY <1>1 DEF EvidentInv
<1>3. EvidentKept(hypotheses')
  <2>1. CASE available /\ LLMStep /\ UNCHANGED available
    BY <1>2, <2>1, EvidentStep
  <2>2. CASE ~available /\ Next /\ UNCHANGED available
    BY <1>2, <2>2
  <2>3. CASE UNCHANGED llmVars
    BY <1>2, <2>3 DEF EvidentInv, llmVars, vars
  <2> QED BY <2>1, <2>2, <2>3 DEF LLMNext
<1>4. alert' = alert /\ evidence' = evidence
  <2>1. CASE available /\ LLMStep /\ UNCHANGED available
    BY <1>2, <2>1 DEF LLMStep, LLMLoadIncident, LLMCreatePlan, CallTool, StopCollecting,
                      LLMBuildHypotheses, ValidateEvidence, LLMGenerateReport, LLMRaises, inputs
  <2>2. CASE ~available /\ Next /\ UNCHANGED available
    BY <1>2, <2>2
  <2>3. CASE UNCHANGED llmVars
    BY <2>3 DEF llmVars, vars, inputs
  <2> QED BY <2>1, <2>2, <2>3 DEF LLMNext
<1>5. PICK l : l = hypotheses'
  OBVIOUS
<1>6. EvidentKept(l)'
  BY <1>3, <1>4, <1>5, SameEvident
<1> QED BY <1>5, <1>6

\* The evident cause is diagnosed.
LEMMA EvidentFacts == EvidentInv => EvidentCauseIsDiagnosed
<1> SUFFICES ASSUME EvidentInv, available, report # "none", NEW h \in Evident,
                    ~(h.cause = Pool /\ PoolIsLow(evidence))
             PROVE  /\ report = "DIAGNOSED"
                    /\ \E i \in DOMAIN hypotheses : /\ hypotheses[i].cause = h.cause
                                                    /\ hypotheses[i].confidence = "HIGH"
                                                    /\ Backed(hypotheses[i])
  BY DEF EvidentCauseIsDiagnosed
<1>1. ReportInv /\ node = "done" /\ report \in {"DIAGNOSED", "INCONCLUSIVE", "FAILED"}
  BY DEF EvidentInv, RequiredInv, ReportInv, ShortfallInv, StatusOK
<1>2. EvidentKept(hypotheses) /\ Ranked(hypotheses) /\ hypotheses \in Seq(Hypotheses)
  BY <1>1 DEF EvidentInv, ReportInv, ListOK
<1>3. PICK k \in DOMAIN hypotheses : /\ hypotheses[k].cause = h.cause
                                     /\ hypotheses[k].support \cap Ids(evidence) # {}
                                     /\ \A j \in 1..k : hypotheses[j].confidence = "HIGH"
  BY <1>2 DEF EvidentKept
<1>4. k \in 1..Len(hypotheses) /\ Len(hypotheses) \in Nat
  BY <1>2
<1>5. 1 \in DOMAIN hypotheses /\ 1 \in 1..k /\ k \in 1..k /\ (k = 1 \/ 1 < k)
  BY <1>2, <1>4
<1>6. Backed(hypotheses[k])
  BY <1>3 DEF Backed
<1>7. Backed(hypotheses[1]) /\ hypotheses[1].confidence = "HIGH"
  BY <1>2, <1>3, <1>5, <1>6 DEF Ranked
<1>8. hypotheses # <<>>
  BY <1>5
<1>9. report = "DIAGNOSED"
  BY <1>1, <1>7, <1>8 DEF ReportInv, StrongDiagnosisStands
<1> QED BY <1>3, <1>5, <1>6, <1>9

\* Whatever the model proposes, claims or leaves out: a slow query or an
\* exhausted pool that the evidence of the required steps shows, and that no
\* measured pool usage refutes, is diagnosed with a high confidence.
THEOREM EvidentCauseCorrect == LLMSpec => []EvidentCauseIsDiagnosed
<1>1. LLMInit => EvidentInv
  BY RequiredInit DEF LLMInit, AgentInit, EvidentInv
<1>2. LLMSpec => []EvidentInv
  BY <1>1, EvidentNext, PTL DEF LLMSpec
<1> QED BY <1>2, EvidentFacts, PTL
=============================================================================

---------------------------- MODULE LLMPipeline -----------------------------
(***************************************************************************)
(* The agent with a language model (llm_graph.py).  Without an API key     *)
(* diagnose() hands the incident to the rule-based agent; with one, the    *)
(* model proposes plan steps, hypotheses and the report's status, and the  *)
(* agent adds the steps and hypotheses it requires.                        *)
(*                                                                         *)
(* What the model answers is arbitrary: steps from Proposals, hypotheses   *)
(* from Claims that cite collected or invented evidence, any status.  An   *)
(* answer that does not parse counts as empty; one of the wrong shape, or  *)
(* a failed request, raises out of diagnose().                             *)
(***************************************************************************)
EXTENDS DiagnosisPipeline

CONSTANTS Proposals,  \* plan steps that the model may propose
          Claims,     \* causes, with a confidence, that it may claim
          MaxSteps,   \* bound on proposed steps (the code reads the first 4)
          MaxClaims   \* bound on claims (the code reads the first 3)

ASSUME LLMAssumption ==
    /\ Proposals \subseteq [tool : Tool \cup {"unlisted"},
                            metric : Metric \cup {"none", "unlisted"},
                            target : {"own", "other"}]
    /\ Claims \subseteq [cause : Cause, confidence : Confidence]
    /\ MaxSteps \in 0..4
    /\ MaxClaims \in 0..3

VARIABLE available  \* the client has an API key

llmVars == <<vars, available>>

LLMInit == AgentInit /\ available \in BOOLEAN

LLMLoadIncident ==
    /\ node = "load"
    /\ incident' = "INVESTIGATING"
    /\ node' = "plan"
    /\ UNCHANGED <<inputs, used, plan, evidence, failures, hypotheses, report>>

-----------------------------------------------------------------------------
(* The plan.                                                               *)

RequiredFor ==
    [PlanFor EXCEPT !["THROUGHPUT_LOW"] = <<Measure("request_rate"), Logs>>]

\* The steps that differ, in order.  A step is what _semantic_step_key tells
\* apart: the keywords of a log query are not.
Distinct(steps) ==
    At(steps, {i \in DOMAIN steps : \A j \in 1..i - 1 : steps[j] # steps[i]})

FirstOf(s, n) == SubSeq(s, 1, IF Len(s) < n THEN Len(s) ELSE n)

\* Seeded fault: the model's steps come first.
MergeProposedFirst(proposed, required, n) == FirstOf(Distinct(proposed \o required), n)

MergeRequiredSteps(proposed, required, n) == FirstOf(Distinct(required \o proposed), n)

\* Steps with an unknown tool are dropped; the required ones lead the plan.
LLMCreatePlan ==
    /\ node = "plan"
    /\ \E steps \in BoundedSeq(Proposals, MaxSteps) :
          plan' = MergeRequiredSteps(At(steps, {i \in DOMAIN steps : steps[i].tool \in Tool}),
                                     RequiredFor[alert], budget)
    /\ node' = "collect"
    /\ UNCHANGED <<inputs, used, evidence, failures, hypotheses, report, incident>>

-----------------------------------------------------------------------------
(* Hypotheses.                                                             *)

\* The causes that the agent's own rules see: slow queries and an exhausted
\* pool, in the logs and in the two metrics, all with a high confidence.
EvidentIn(e) ==
    CASE e.tool = "query_logs" ->
            LET found == FromLogs(e)
            IN  At(found, {i \in DOMAIN found : found[i].cause \in {"DATABASE_SLOW_QUERY", Pool}})
      [] e.tool = "query_metrics" /\ e.level = "high" /\ e.metric = "db_pool_active_ratio" ->
            <<Hypothesis(Pool, "HIGH", {e.id})>>
      [] e.tool = "query_metrics" /\ e.level = "high" /\ e.metric = "latency_p95" ->
            <<Hypothesis("DATABASE_SLOW_QUERY", "HIGH", {e.id})>>
      [] OTHER -> <<>>

Guardrails ==
    LET evident == Flattened([i \in DOMAIN evidence |-> EvidentIn(evidence[i])])
    IN  IF evident = <<>> THEN <<Hypothesis("UNKNOWN", "LOW", {})>> ELSE TopThree(evident)

\* The evidence that a claim may cite: none, invented (0 is no call's number),
\* or collected, in which case it may name invented evidence against.
Citations ==
    {[support |-> {}, contra |-> {}], [support |-> {0}, contra |-> {}]}
    \cup [support : {{Min(Ids(evidence))}}, contra : {{}, {0}}]

Claimed ==
    {[Hypothesis(c.cause, c.confidence, s.support) EXCEPT !.contra = s.contra] :
        c \in Claims, s \in Citations}

\* By confidence, then what has support, then what is not UNKNOWN.
LLMKey(h) == 4 * (3 - Weight[h.confidence]) + (IF Backed(h) THEN 0 ELSE 2)
             + (IF h.cause = "UNKNOWN" THEN 1 ELSE 0)

RankCauses(hs) ==
    LET merged == MergeCauses(hs)
    IN  TopThree(SortedBy(merged, [i \in DOMAIN merged |-> LLMKey(merged[i])]))

\* Seeded fault: the model's claims come first.
RankClaimsFirst(claims) == RankCauses(claims \o Guardrails)

RankGuardrailsFirst(claims) == RankCauses(Guardrails \o claims)

LLMBuildHypotheses ==
    /\ node = "build"
    /\ IF evidence = <<>> THEN hypotheses' = <<Unknown>>
       ELSE \E claims \in BoundedSeq(Claimed, MaxClaims) :
               hypotheses' = Numbered(RemoveMetricContradicted(RankGuardrailsFirst(claims),
                                                               evidence))
    /\ node' = "validate"
    /\ UNCHANGED <<inputs, used, plan, evidence, failures, report, incident>>

-----------------------------------------------------------------------------
(* The report.                                                             *)

\* Seeded fault: the model's status is always taken.
TakeProposed(proposed) ==
    IF proposed = "none" THEN DetermineStatus(hypotheses, evidence) ELSE proposed

\* The model's status replaces the governed one, but does not take back a
\* diagnosis while some backed hypothesis has a high confidence.
StatusFor(proposed) ==
    LET governed == DetermineStatus(hypotheses, evidence)
        solid == \E i \in DOMAIN hypotheses : /\ hypotheses[i].confidence = "HIGH"
                                              /\ Backed(hypotheses[i])
    IN  IF \/ proposed = "none"
           \/ governed = "DIAGNOSED" /\ proposed # "DIAGNOSED" /\ solid
        THEN governed ELSE proposed

LLMGenerateReport ==
    /\ node = "report"
    /\ \E proposed \in {"none", "DIAGNOSED", "INCONCLUSIVE", "FAILED"} :
          report' = StatusFor(proposed)
    /\ incident' = IF report' = "DIAGNOSED" THEN "DIAGNOSED" ELSE "INCONCLUSIVE"
    /\ node' = "done"
    /\ UNCHANGED <<inputs, used, plan, evidence, failures, hypotheses>>

\* A request fails, or its answer has a shape that the agent cannot read.
\* Without evidence there is no request for hypotheses.
LLMRaises ==
    /\ node \in {"plan", "report"} \/ (node = "build" /\ evidence # <<>>)
    /\ node' = "raised"
    /\ UNCHANGED <<inputs, used, plan, evidence, failures, hypotheses, report, incident>>

LLMStep ==
    \/ LLMLoadIncident \/ LLMCreatePlan \/ LLMBuildHypotheses \/ LLMGenerateReport \/ LLMRaises
    \/ CallTool \/ StopCollecting \/ ValidateEvidence

LLMNext ==
    \/ available /\ LLMStep /\ UNCHANGED available
    \/ ~available /\ Next /\ UNCHANGED available

LLMSpec == LLMInit /\ [][LLMNext]_llmVars

-----------------------------------------------------------------------------
\* In this agent the evidence's number is the place of its step in the plan:
\* the evidence of the steps that the agent requires itself.
RequiredEvidence == {e \in ToSet(evidence) : e.id <= Len(RequiredFor[alert])}
Evident == UNION {ToSet(EvidentIn(e)) : e \in RequiredEvidence}

\* Whatever the model proposes, claims, or leaves out: a cause that the
\* required evidence shows, and that no measured pool usage refutes, is in the
\* report with its high confidence, and the report is a diagnosis.
EvidentCauseIsDiagnosed ==
    available /\ report # "none" =>
        \A h \in Evident :
            \/ h.cause = Pool /\ PoolIsLow(evidence)
            \/ /\ report = "DIAGNOSED"
               /\ \E i \in DOMAIN hypotheses : /\ hypotheses[i].cause = h.cause
                                               /\ hypotheses[i].confidence = "HIGH"
                                               /\ Backed(hypotheses[i])

\* The required steps that the budget allows were all executed, before any
\* that the model proposed.
RequiredStepsTaken ==
    available /\ report # "none" =>
        \A i \in DOMAIN RequiredFor[alert] :
            i <= budget => Taken >= i /\ plan[i] = RequiredFor[alert][i]

\* No report cites evidence that was not collected, although the model may.
ReferencesAreReal == report # "none" => FullyTraceable(hypotheses, evidence)

\* A report whose leading cause is backed and highly confident is a diagnosis,
\* whatever status the model proposes.
StrongDiagnosisStands ==
    report \in {"INCONCLUSIVE", "FAILED"} =>
        hypotheses = <<>> \/ ~Backed(hypotheses[1]) \/ hypotheses[1].confidence # "HIGH"

\* As final-acceptance.md:112 has it, the model is not allowed to diagnose
\* without evidence.  The code does not keep it (README, section 11).
DiagnosisHasEvidence ==
    available /\ report = "DIAGNOSED" => \E i \in DOMAIN hypotheses : Backed(hypotheses[i])

\* The model cannot make the report miss a cause that the required evidence
\* shows (llm_graph.py:273-274), unless the required evidence itself refutes it.
\* The code does not keep it (README, section 11).
EvidentCauseIsListed ==
    available /\ report # "none" =>
        \A h \in Evident :
            \/ h.cause \in Listed
            \/ h.cause = Pool /\ \E e \in RequiredEvidence : PoolIsLow(<<e>>)
=============================================================================

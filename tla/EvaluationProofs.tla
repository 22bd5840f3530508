-------------------------- MODULE EvaluationProofs --------------------------
(***************************************************************************)
(* What the evaluation shows for any list of cases, disturbed in any way:  *)
(* the score of a case is a function of the case, no disturbance misleads  *)
(* the agent, and the published numbers are the reported ones.             *)
(***************************************************************************)
EXTENDS Evaluation, PipelineProofs

-----------------------------------------------------------------------------
(* The stages of a diagnosis as functions of the service and the evidence. *)

\* What the rules make of one item, for the service svc.
MetricHint(svc, e) ==
    IF e.level # "high" THEN <<>>
    ELSE IF e.metric = "latency_p95" /\ svc \in DOMAIN LatencyCause
    THEN <<Hypothesis(LatencyCause[svc], "MEDIUM", {e.id})>>
    ELSE IF e.metric \in DOMAIN MetricRule
    THEN <<Hypothesis(MetricRule[e.metric].cause, MetricRule[e.metric].confidence, {e.id})>>
    ELSE <<>>

Hint(svc, e) == CASE e.tool = "query_logs" -> FromLogs(e)
                  [] e.tool = "query_metrics" -> MetricHint(svc, e)
                  [] e.tool = "query_deployments" -> FromDeployments(e)
                  [] OTHER -> <<>>

\* The hypotheses when they are built, verified and validated.
BuiltFrom(svc, ev) ==
    LET suggested == Flattened([i \in DOMAIN ev |-> Hint(svc, ev[i])])
        ranked == SortThenCut(RemoveMetricContradicted(MergeCauses(suggested), ev))
    IN  IF ranked = <<>> THEN <<Unknown>> ELSE BackedFirst(Numbered(ranked))

StaleIn(ev) == {ev[i].id : i \in {j \in DOMAIN ev : /\ ev[j].tool = "query_deployments"
                                                   /\ ev[j].release \in {"old"}}}
VerifiedFrom(hs, ev) ==
    [i \in DOMAIN hs |->
        IF hs[i].cause = Regression /\ StaleIn(ev) # {}
        THEN [hs[i] EXCEPT !.contra = @ \cup StaleIn(ev), !.confidence = "LOW"]
        ELSE hs[i]]

ValidatedFrom(hs, ev) == FilterWithoutEvidence(DropUnknownReferences(hs, ev))

ListFrom(svc, ev) == ValidatedFrom(VerifiedFrom(BuiltFrom(svc, ev), ev), ev)

-----------------------------------------------------------------------------
(* What a diagnosis gathers and how it is scored.                          *)

TurnSet == [case : CaseSet, agent : {"rules", "raw", "fallback"}]

PlanOf(t) == PlanFor[t.case.template.alert]

\* The evidence after step k of the plan, from the evidence before it.
Added(t, ev, k) ==
    IF Unavailable(t, PlanOf(t)[k].tool) THEN ev
    ELSE Append(ev, Answer(t.case, Scenario(t), PlanOf(t)[k], k + 1))

\* The evidence after the first k steps; no plan has more than four.
Gathered(t, k) ==
    LET one == Added(t, <<>>, 1)
        two == Added(t, one, 2)
        three == Added(t, two, 3)
    IN  IF k = 0 THEN <<>>
        ELSE IF k = 1 THEN one
        ELSE IF k = 2 THEN two
        ELSE IF k = 3 THEN three
        ELSE Added(t, three, 4)

EvidenceOf(t) == Gathered(t, Len(PlanOf(t)))

ScoreOf(t) ==
    LET hs == ListFrom(t.case.template.service, EvidenceOf(t))
    IN  [case |-> t.case, agent |-> t.agent,
         causes |-> [i \in DOMAIN hs |-> hs[i].cause],
         status |-> DetermineStatus(hs, EvidenceOf(t))]

\* What is iterated over, and one score for each turn so far.
Iterating ==
    /\ study \in {"evaluation", "LLM evaluation"} \cup Experiment
    /\ cases \in Seq(CaseSet) /\ cases # <<>>
    /\ scores \in Seq({ScoreOf(t) : t \in TurnSet})
    /\ Len(scores) <= Turns

Scored == \A n \in DOMAIN scores : scores[n] = ScoreOf(Turn(n))

\* The diagnosis is that of the current turn, from its own start: its inputs,
\* its plan, the answers of its tools and nothing else.
Early == {"load", "topology", "plan"}
Tracks(t) ==
    /\ alert = t.case.template.alert
    /\ service = t.case.template.service
    /\ node \in Early => /\ evidence = <<>> /\ failures = <<>>
                         /\ used = IF node = "plan" THEN 1 ELSE 0
    /\ node \notin Early => plan = PlanOf(t) /\ evidence = Gathered(t, Taken)
    /\ node = "collect" => used = Taken + 1
    /\ node \in Later => Taken = Len(plan)
    /\ node = "verify" => hypotheses = BuiltFrom(service, evidence)
    /\ node = "validate" => hypotheses = VerifiedFrom(BuiltFrom(service, evidence), evidence)
    /\ node \in {"report", "done"} => hypotheses = ListFrom(service, evidence)
    /\ node = "done" => report = DetermineStatus(hypotheses, evidence)

-----------------------------------------------------------------------------
(* What the rules make of a fault.                                         *)

\* Step k of a turn's plan can be executed, and what it then brings.
Available(t, k) == ~Unavailable(t, PlanOf(t)[k].tool)
Brings(t, k) == Answer(t.case, Scenario(t), PlanOf(t)[k], k + 1)
Open(t) == {k \in 1..Len(PlanOf(t)) : Available(t, k)}

\* A rule speaks for the cause c with the weight w: on the messages of the
\* fault f, on the metric m of the service s, on the latest deployment.
LogVoice(f, c, w) ==
    \E i \in DOMAIN LogRules : /\ LogRules[i].pattern \in MessagesIn(f)
                              /\ c = LogRules[i].cause
                              /\ w = Weight[LogRules[i].confidence]
MetricVoice(s, m, f, c, w) ==
    /\ LevelIn(f, m) = "high"
    /\ \/ m = "latency_p95" /\ s \in DOMAIN LatencyCause /\ c = LatencyCause[s] /\ w = 2
       \/ /\ m \in DOMAIN MetricRule
          /\ c = MetricRule[m].cause /\ w = Weight[MetricRule[m].confidence]
ReleaseVoice(case, f, c, w) ==
    /\ c = Regression
    /\ \/ ReleaseIn(case, f) = "faulty" /\ w = 3
       \/ ReleaseIn(case, f) = "recent" /\ w = 1

\* Step k of a turn speaks for c with the weight w, and so does the turn.
Voice(t, k, c, w) ==
    LET step == PlanOf(t)[k]
    IN  CASE step.tool = "query_logs" -> LogVoice(Scenario(t), c, w)
          [] step.tool = "query_metrics" ->
                MetricVoice(t.case.template.service, step.metric, Scenario(t), c, w)
          [] step.tool = "query_deployments" -> ReleaseVoice(t.case, Scenario(t), c, w)
Speaks(t, c, w) == \E k \in Open(t) : Voice(t, k, c, w)

\* The cases of the dataset are diagnosed right, and the published numbers are
\* those of all the turns.
RightScores ==
    \A n \in DOMAIN scores :
        scores[n].agent # "fallback" /\ scores[n].case \in ToSet(Dataset) =>
            Top1(scores[n]) /\ Top3(scores[n]) /\ scores[n].status = "DIAGNOSED"
Published ==
    /\ study = "evaluation" => cases = Dataset
    /\ summary # <<>> => /\ ~Diagnosing
                         /\ study = "evaluation" => summary = <<Rates("rules")>>
                         /\ study \in Experiment => summary = <<VariantA, Rates("rules")>>

EvalInv ==
    /\ HeadInv
    /\ Iterating
    /\ Scored
    /\ Diagnosing => Tracks(Current)

-----------------------------------------------------------------------------
(* The lemmas about turns and plans.                                       *)

\* No plan is longer than four steps.
LEMMA PlanLengths == \A a \in Alert : PlanFor[a] \in Seq(Step) /\ Len(PlanFor[a]) \in 1..4
<1>1. /\ Len(PlanFor["P95_LATENCY_HIGH"]) = 4
      /\ Len(PlanFor["ERROR_RATE_HIGH"]) = 3
      /\ Len(PlanFor["THROUGHPUT_LOW"]) = 3
      /\ Len(PlanFor["MQ_LAG_HIGH"]) = 2
  BY DEF PlanFor
<1> QED BY <1>1, PlansAreSteps DEF Alert

\* The lists of agents.
LEMMA AgentLists ==
    /\ <<"rules">> \in Seq({"rules", "raw", "fallback"}) /\ Len(<<"rules">>) \in 1..2
    /\ <<"rules", "fallback">> \in Seq({"rules", "raw", "fallback"})
    /\ Len(<<"rules", "fallback">>) \in 1..2
    /\ <<"raw", "rules">> \in Seq({"rules", "raw", "fallback"}) /\ Len(<<"raw", "rules">>) \in 1..2
OBVIOUS

\* One agent or two diagnose each case.
LEMMA AgentsOf ==
    ASSUME study \in {"evaluation", "LLM evaluation"} \cup Experiment
    PROVE  Agents \in Seq({"rules", "raw", "fallback"}) /\ Len(Agents) \in 1..2
<1>1. study = "evaluation" => Agents = <<"rules">>
  BY Zenon DEF Agents
<1>2. study = "LLM evaluation" => Agents = <<"rules", "fallback">>
  BY Zenon DEF Agents
<1>3. study = "raw or tools" => Agents = <<"raw", "rules">>
  BY Zenon DEF Agents
<1>4. study \in {"runbooks", "verification", "logs"} => Agents = <<"rules">>
  BY Zenon DEF Agents
<1>5. Agents = <<"rules">> \/ Agents = <<"rules", "fallback">> \/ Agents = <<"raw", "rules">>
  BY <1>1, <1>2, <1>3, <1>4 DEF Experiment
<1> QED BY <1>5, AgentLists, Zenon

\* The turns of so many agents over so many cases.
LEMMA TurnsOf ==
    ASSUME Len(cases) \in Nat \ {0}, Len(Agents) \in 1..2
    PROVE  /\ Turns \in Nat \ {0}
           /\ \A n \in 1..Turns : /\ (n - 1) \div Len(Agents) + 1 \in 1..Len(cases)
                                  /\ ((n - 1) % Len(Agents)) + 1 \in 1..Len(Agents)
<1>1. PICK a \in 1..2 : a = Len(Agents)
  OBVIOUS
<1>2. PICK l \in Nat \ {0} : l = Len(cases)
  OBVIOUS
<1>3. /\ l * a \in Nat \ {0}
      /\ \A n \in 1..l * a : (n - 1) \div a + 1 \in 1..l /\ ((n - 1) % a) + 1 \in 1..a
  <2>1. CASE a = 1
    BY <2>1
  <2>2. CASE a = 2
    BY <2>2
  <2> QED BY <2>1, <2>2
<1> QED BY <1>1, <1>2, <1>3 DEF Turns

\* The agents of a study take turns, and each diagnoses a case of the list.
LEMMA TurnOf ==
    ASSUME Iterating
    PROVE  /\ Len(Agents) \in 1..2 /\ Len(cases) \in Nat \ {0} /\ Turns \in Nat \ {0}
           /\ \A n \in 1..Turns : Turn(n) \in TurnSet
<1>1. Agents \in Seq({"rules", "raw", "fallback"}) /\ Len(Agents) \in 1..2
  BY AgentsOf DEF Iterating
<1>2. cases \in Seq(CaseSet) /\ Len(cases) \in Nat \ {0}
  <2>1. cases \in Seq(CaseSet) /\ cases # <<>>
    BY DEF Iterating
  <2> QED BY <2>1
<1>3. Turns \in Nat \ {0}
  BY <1>1, <1>2, TurnsOf
<1>4. ASSUME NEW n \in 1..Turns PROVE Turn(n) \in TurnSet
  <2>1. /\ (n - 1) \div Len(Agents) + 1 \in 1..Len(cases)
        /\ ((n - 1) % Len(Agents)) + 1 \in 1..Len(Agents)
    BY <1>1, <1>2, TurnsOf
  <2>2. cases[(n - 1) \div Len(Agents) + 1] \in CaseSet
    BY <1>2, <2>1
  <2>3. Agents[((n - 1) % Len(Agents)) + 1] \in {"rules", "raw", "fallback"}
    BY <1>1, <2>1
  <2> QED BY <2>2, <2>3 DEF Turn, TurnSet
<1> QED BY <1>1, <1>2, <1>3, <1>4

\* The inputs and the plan of a turn.
LEMMA TurnInputs ==
    ASSUME NEW t \in TurnSet
    PROVE  /\ t.case.template.alert \in Alerts \cap Alert
           /\ t.case.template.service \in Services
           /\ PlanOf(t) \in Seq(Step) /\ Len(PlanOf(t)) \in 1..4
<1>1. t.case.template \in ToSet(Templates)
  BY DEF TurnSet, CaseSet
<1>2. t.case.template.alert \in Alerts /\ t.case.template.service \in Services
  BY <1>1, EvaluationAssumption
<1>3. t.case.template.alert \in Alert
  BY <1>2, CollectionAssumption
<1> QED BY <1>2, <1>3, PlanLengths DEF PlanOf

\* The scores are a list, whatever they are.
LEMMA ScoresListed ==
    ASSUME Iterating
    PROVE  Len(scores) \in Nat /\ DOMAIN scores = 1..Len(scores)
<1> DEFINE S == {ScoreOf(t) : t \in TurnSet}
<1>1. scores \in Seq(S)
  BY DEF Iterating
<1> HIDE DEF S
<1> QED BY <1>1

\* A list has the positions up to its length.
LEMMA Positions ==
    ASSUME NEW S, NEW s \in Seq(S)
    PROVE  Len(s) \in Nat /\ DOMAIN s = 1..Len(s)
OBVIOUS

\* And one more after an addition.
LEMMA AppendedTo ==
    ASSUME NEW S, NEW s \in Seq(S), NEW e \in S
    PROVE  Append(s, e) \in Seq(S) /\ Len(Append(s, e)) = Len(s) + 1
OBVIOUS

\* The evidence grows by one step at a time.
LEMMA GatheredStep ==
    ASSUME NEW t
    PROVE  /\ Gathered(t, 0) = <<>>
           /\ \A k \in 0..3 : Gathered(t, k + 1) = Added(t, Gathered(t, k), k + 1)
<1>1. Gathered(t, 0) = <<>> /\ Gathered(t, 1) = Added(t, <<>>, 1)
  BY DEF Gathered
<1>2. Gathered(t, 2) = Added(t, Gathered(t, 1), 2)
  BY DEF Gathered
<1>3. Gathered(t, 3) = Added(t, Gathered(t, 2), 3)
  BY DEF Gathered
<1>4. Gathered(t, 4) = Added(t, Gathered(t, 3), 4)
  BY DEF Gathered
<1> QED BY <1>1, <1>2, <1>3, <1>4

-----------------------------------------------------------------------------
(* The dataset is a list of cases.                                         *)

\* The table of the faults, and the variants of each.
LEMMA TemplatesListed ==
    /\ Len(Templates) = 12 /\ DOMAIN Templates = 1..12
    /\ ToSet(Templates) = {Templates[i] : i \in 1..12}
BY DEF Templates, ToSet

\* The parts of a template.
LEMMA TemplateOf ==
    ASSUME NEW f, NEW s, NEW a, NEW e, NEW x, NEW y, NEW z
    PROVE  LET t == Template(f, s, a, e, x, y, z)
           IN  /\ t.fault = f /\ t.service = s /\ t.alert = a /\ t.expected = e /\ t.forbidden = x
               /\ t.variants[1] = "clean" /\ t.variants[2] = "noisy"
               /\ t.variants[3] = y /\ t.variants[4] = z
BY DEF Template

\* A variant disturbs one thing at most.
LEMMA VariantsOf ==
    \A i \in 1..12, v \in 1..4 : Templates[i].variants[v] \in Disturbance \cup {"clean"}
<1> DEFINE W == Disturbance \cup {"clean"}
<1>1. /\ "clean" \in W /\ "noisy" \in W /\ "deploy" \in W /\ "wrong runbook" \in W
      /\ "query_logs" \in W /\ "query_metrics" \in W /\ "query_deployments" \in W
      /\ "search_runbooks" \in W
  BY DEF Disturbance, Tool
<1> HIDE DEF W
<1>2. ASSUME NEW f, NEW s, NEW a, NEW e, NEW x, NEW y \in W, NEW z \in W, NEW v \in 1..4
      PROVE  Template(f, s, a, e, x, y, z).variants[v] \in W
  <2> DEFINE w == Template(f, s, a, e, x, y, z).variants
  <2>1. w[1] = "clean" /\ w[2] = "noisy" /\ w[3] = y /\ w[4] = z
    BY TemplateOf
  <2> HIDE DEF w
  <2>2. w[v] \in W
    <3>1. v = 1 \/ v = 2 \/ v = 3 \/ v = 4
      OBVIOUS
    <3> QED BY <1>1, <2>1, <3>1
  <2> QED BY <2>2 DEF w
<1>3. ASSUME NEW i \in 1..12, NEW v \in 1..4 PROVE Templates[i].variants[v] \in W
  <2>1. CASE i = 1
    BY <1>1, <1>2, <2>1 DEF Templates
  <2>2. CASE i = 2
    BY <1>1, <1>2, <2>2 DEF Templates
  <2>3. CASE i = 3
    BY <1>1, <1>2, <2>3 DEF Templates
  <2>4. CASE i = 4
    BY <1>1, <1>2, <2>4 DEF Templates
  <2>5. CASE i = 5
    BY <1>1, <1>2, <2>5 DEF Templates
  <2>6. CASE i = 6
    BY <1>1, <1>2, <2>6 DEF Templates
  <2>7. CASE i = 7
    BY <1>1, <1>2, <2>7 DEF Templates
  <2>8. CASE i = 8
    BY <1>1, <1>2, <2>8 DEF Templates
  <2>9. CASE i = 9
    BY <1>1, <1>2, <2>9 DEF Templates
  <2>10. CASE i = 10
    BY <1>1, <1>2, <2>10 DEF Templates
  <2>11. CASE i = 11
    BY <1>1, <1>2, <2>11 DEF Templates
  <2>12. CASE i = 12
    BY <1>1, <1>2, <2>12 DEF Templates
  <2> QED BY <2>1, <2>2, <2>3, <2>4, <2>5, <2>6, <2>7, <2>8, <2>9, <2>10, <2>11, <2>12
<1> QED BY <1>3 DEF W

\* Where a case of the dataset comes from.
LEMMA DatasetOf ==
    /\ Dataset \in Seq(CaseSet) /\ Len(Dataset) = 48
    /\ \A n \in 1..48 :
          /\ (n - 1) \div 4 + 1 \in 1..12 /\ ((n - 1) % 4) + 1 \in 1..4
          /\ Dataset[n] = Case(Templates[(n - 1) \div 4 + 1],
                               {Templates[(n - 1) \div 4 + 1].variants[((n - 1) % 4) + 1]} \ {"clean"})
<1>1. \A n \in 1..48 : (n - 1) \div 4 + 1 \in 1..12 /\ ((n - 1) % 4) + 1 \in 1..4
  OBVIOUS
<1>2. 4 * Len(Templates) = 48
  <2>1. 4 * 12 = 48
    OBVIOUS
  <2> QED BY <2>1, TemplatesListed
<1> DEFINE D(n) == Case(Templates[(n - 1) \div 4 + 1],
                        {Templates[(n - 1) \div 4 + 1].variants[((n - 1) % 4) + 1]} \ {"clean"})
<1>3. Dataset = [n \in 1..48 |-> D(n)]
  BY <1>2 DEF Dataset
<1>4. ASSUME NEW n \in 1..48 PROVE D(n) \in CaseSet
  <2>1. PICK i \in 1..12 : i = (n - 1) \div 4 + 1
    BY <1>1
  <2>2. PICK v \in 1..4 : v = ((n - 1) % 4) + 1
    BY <1>1
  <2>3. Templates[i] \in ToSet(Templates)
    BY TemplatesListed
  <2>4. {Templates[i].variants[v]} \ {"clean"} \in SUBSET Disturbance
    BY VariantsOf
  <2> HIDE DEF D
  <2>5. D(n) = [template |-> Templates[i], disturbed |-> {Templates[i].variants[v]} \ {"clean"}]
    BY <2>1, <2>2 DEF Case, D
  <2> QED BY <2>3, <2>4, <2>5 DEF CaseSet
<1> HIDE DEF D
<1>5. Dataset \in Seq(CaseSet) /\ Len(Dataset) = 48 /\ \A n \in 1..48 : Dataset[n] = D(n)
  BY <1>3, <1>4
<1> QED BY <1>1, <1>5 DEF D

-----------------------------------------------------------------------------
(* The invariant of the evaluation.                                        *)

\* A fresh agent is at the start of its turn.
LEMMA EvalInitInv == EvalInit => EvalInv
<1> SUFFICES ASSUME EvalInit PROVE EvalInv
  OBVIOUS
<1>1. HeadInv
  BY HeadInit DEF EvalInit
<1>2. scores = <<>> /\ Len(scores) = 0 /\ DOMAIN scores = {}
  <2>1. scores = <<>>
    BY DEF EvalInit
  <2> QED BY <2>1
<1>3. /\ study \in {"evaluation", "LLM evaluation"} \cup Experiment
      /\ cases \in Seq(CaseSet) /\ cases # <<>>
  <2>1. CASE cases = Dataset
    <3>1. cases \in Seq(CaseSet) /\ Len(cases) = 48
      BY <2>1, DatasetOf
    <3>2. cases # <<>>
      <4>1. 1 \in DOMAIN cases
        BY <3>1
      <4> QED BY <4>1
    <3>3. study \in {"evaluation", "LLM evaluation"} \cup Experiment
      BY Zenon DEF EvalInit
    <3> QED BY <3>1, <3>2, <3>3
  <2>2. CASE study \in Experiment /\ cases \in CaseLists
    BY <2>2, EvaluationAssumption
  <2> QED BY <2>1, <2>2 DEF EvalInit
<1>4. /\ Len(cases) \in Nat \ {0} /\ Len(Agents) \in 1..2 /\ Turns \in Nat \ {0}
      /\ Iterating
  <2> DEFINE S == {ScoreOf(t) : t \in TurnSet}
  <2> HIDE DEF S
  <2>1. scores \in Seq(S)
    BY <1>2
  <2>2. Len(scores) <= Turns => Iterating
    BY <1>3, <2>1 DEF Iterating, S
  <2>3. Len(cases) \in Nat \ {0}
    <3>1. cases \in Seq(CaseSet) /\ cases # <<>>
      BY <1>3
    <3> QED BY <3>1
  <2>4. Len(Agents) \in 1..2
    BY <1>3, AgentsOf
  <2>5. Turns \in Nat \ {0}
    BY <2>3, <2>4, TurnsOf
  <2> QED BY <1>2, <2>2, <2>3, <2>4, <2>5
<1>5. Current.case = cases[1]
  <2>1. Len(scores) + 1 = 1 /\ (1 - 1) \div Len(Agents) + 1 = 1
    <3>1. \A a \in 1..2 : (1 - 1) \div a + 1 = 1
      OBVIOUS
    <3>2. Len(scores) + 1 = 1
      BY <1>2
    <3>3. Len(Agents) \in 1..2
      BY <1>4
    <3> HIDE DEF Agents
    <3> QED BY <3>1, <3>2, <3>3
  <2> QED BY <2>1 DEF Current, Turn
<1>6. Tracks(Current)
  BY <1>5 DEF EvalInit, AgentInit, Tracks, Early, Later
<1> QED BY <1>1, <1>2, <1>4, <1>6 DEF EvalInv, Scored

\* What the rules say of an item is a function of the service and the item.
LEMMA HintOf ==
    ASSUME NEW e \in Item
    PROVE  Hint(service, e) = Suggested(e)
<1>1. e.tool \in Tool
  BY ItemOf
<1>2. CASE e.tool = "query_logs"
  BY <1>2, Zenon DEF Hint, Suggested
<1>3. CASE e.tool = "query_metrics"
  <2>1. Hint(service, e) = MetricHint(service, e) /\ Suggested(e) = FromMetric(e)
    BY <1>3, Zenon DEF Hint, Suggested
  <2> QED BY <2>1 DEF MetricHint, FromMetric
<1>4. CASE e.tool = "query_deployments"
  BY <1>4, Zenon DEF Hint, Suggested
<1>5. CASE e.tool = "search_runbooks"
  BY <1>5, Zenon DEF Hint, Suggested
<1> QED BY <1>1, <1>2, <1>3, <1>4, <1>5 DEF Tool

\* The nodes before the collection.
LEMMA TracksEarly ==
    ASSUME NEW t \in TurnSet, Tracks(t), Collected, LoadIncident \/ LoadTopology \/ CreatePlan
    PROVE  Tracks(t)'
<1>1. CASE LoadIncident
  BY <1>1 DEF LoadIncident, inputs, Tracks, Early, Later
<1>2. CASE LoadTopology
  <2>1. used = 0 /\ evidence = <<>> /\ failures = <<>>
    BY <1>2 DEF LoadTopology, Tracks, Early
  <2>2. budget \in Nat /\ budget >= 5
    BY EvaluationAssumption, CollectionAssumption DEF Collected
  <2>3. used' = 1
    BY <1>2, <2>1, <2>2 DEF LoadTopology
  <2> QED BY <1>2, <2>1, <2>3 DEF LoadTopology, inputs, Tracks, Early, Later
<1>3. CASE CreatePlan
  <2>1. used = 1 /\ evidence = <<>> /\ failures = <<>> /\ alert = t.case.template.alert
    BY <1>3 DEF CreatePlan, Tracks, Early
  <2>2. plan' = PlanOf(t)
    BY <1>3, <2>1 DEF CreatePlan, PlanOf
  <2>3. Taken' = 0 /\ evidence' = Gathered(t, 0)
    BY <1>3, <2>1, GatheredStep DEF CreatePlan, Taken
  <2>4. evidence' = Gathered(t, Taken)' /\ used' = Taken' + 1
    BY <1>3, <2>1, <2>3 DEF CreatePlan
  <2> QED BY <1>3, <2>2, <2>4 DEF CreatePlan, inputs, Tracks, Early, Later
<1> QED BY <1>1, <1>2, <1>3

\* A call of a fake tool.
LEMMA TracksCall ==
    ASSUME NEW t \in TurnSet, Tracks(t), Collected, t = Current, CallFakeTool
    PROVE  Tracks(t)'
<1> DEFINE k == Taken
           step == PlanOf(t)[k + 1]
<1>1. node = "collect" /\ CallTool /\ Taken < Len(plan)
  BY DEF CallFakeTool, CallTool
<1>2. /\ plan = PlanOf(t) /\ evidence = Gathered(t, k) /\ used = k + 1
      /\ alert = t.case.template.alert /\ service = t.case.template.service
  BY <1>1 DEF Tracks, Early
<1>3. k \in Nat /\ Taken' = k + 1
  BY <1>1, CallOf
<1>4. k \in 0..3
  <2>1. Len(plan) \in 1..4
    BY <1>2, TurnInputs
  <2>2. PICK n \in 1..4 : n = Len(plan)
    BY <2>1
  <2>3. PICK m \in Nat : m = k
    BY <1>3
  <2>4. m < n => m \in 0..3
    OBVIOUS
  <2> QED BY <1>1, <2>2, <2>3, <2>4
<1>5. evidence' = Added(t, evidence, k + 1)
  <2>1. CASE Unavailable(t, step.tool)
    <3>1. failures' # failures
      BY <1>2, <2>1 DEF CallFakeTool
    <3>2. evidence' = evidence
      BY <1>1, <3>1 DEF CallTool
    <3> QED BY <2>1, <3>2 DEF Added
  <2>2. CASE ~Unavailable(t, step.tool)
    <3>1. evidence' = Append(evidence, Answer(t.case, Scenario(t), step, used + 1))
      BY <1>2, <2>2 DEF CallFakeTool
    <3> QED BY <1>2, <2>2, <3>1 DEF Added
  <2> QED BY <2>1, <2>2
<1>6. evidence' = Gathered(t, Taken')
  BY <1>2, <1>3, <1>4, <1>5, GatheredStep
<1>7. used' = Taken' + 1
  BY <1>1, <1>2, <1>3 DEF CallTool
<1>8. node' = "collect" /\ plan' = plan /\ alert' = alert /\ service' = service
  BY <1>1 DEF CallTool, inputs
<1> QED BY <1>2, <1>6, <1>7, <1>8 DEF Tracks, Early, Later

\* The budget never ends the collection.
LEMMA TracksStop ==
    ASSUME NEW t \in TurnSet, Tracks(t), Collected, StopCollecting
    PROVE  Tracks(t)'
<1>1. /\ node = "collect" /\ node' = "build"
      /\ UNCHANGED <<inputs, used, plan, evidence, hypotheses, report, incident>>
  BY DEF StopCollecting
<1>2. /\ plan = PlanOf(t) /\ evidence = Gathered(t, Taken) /\ used = Taken + 1
      /\ alert = t.case.template.alert /\ service = t.case.template.service
  BY <1>1 DEF Tracks, Early
<1>3. budget \in Nat /\ budget >= 5
  BY EvaluationAssumption, CollectionAssumption DEF Collected
<1>4. Taken \in Nat
  BY DEF Collected, Taken
<1>5. ~(Taken < Len(plan) /\ used >= budget)
  <2>1. PICK n \in 1..4 : n = Len(plan)
    BY <1>2, TurnInputs
  <2>2. PICK m \in Nat : m = Taken
    BY <1>4
  <2>3. PICK b \in Nat : b = budget
    BY <1>3
  <2>4. used = m + 1 /\ b >= 5
    BY <1>2, <1>3, <2>2, <2>3
  <2>5. ~(m < n /\ m + 1 >= b)
    BY <2>4
  <2> QED BY <2>1, <2>2, <2>3, <2>4, <2>5
<1>6. Taken = Len(plan) /\ failures' = failures
  BY <1>5 DEF StopCollecting
<1>7. Taken' = Taken
  BY <1>1, <1>6 DEF Taken
<1> QED BY <1>1, <1>2, <1>6, <1>7 DEF Tracks, Early, Later, inputs

\* The node that builds the hypotheses, from the evidence alone.
LEMMA BuiltIs ==
    ASSUME Collected
    PROVE  /\ BuiltByRules = BuiltFrom(service, evidence)
           /\ BuildHypotheses => hypotheses' = BuiltFrom(service, evidence)
<1>1. \A i \in DOMAIN evidence : Hint(service, evidence[i]) = Suggested(evidence[i])
  <2>1. \A i \in DOMAIN evidence : evidence[i] \in Item
    BY DEF Collected
  <2> QED BY <2>1, HintOf
<1>2. [i \in DOMAIN evidence |-> Hint(service, evidence[i])]
      = [i \in DOMAIN evidence |-> Suggested(evidence[i])]
  BY <1>1
<1>3. BuiltByRules = BuiltFrom(service, evidence)
  BY <1>2, Zenon DEF BuiltByRules, RankedList, SuggestedList, BuiltFrom
<1> QED BY <1>3, BuiltList

\* The nodes after the collection, which leave what was gathered.
LEMMA TracksLate ==
    ASSUME NEW t \in TurnSet, Tracks(t), Collected,
           BuildHypotheses
             \/ (VerifyHypotheses /\ hypotheses' = DemoteRegression(NoDeployment))
             \/ ValidateEvidence \/ GenerateReport
    PROVE  Tracks(t)'
<1>1. /\ node \in Later /\ node \notin Early /\ node' \in Later /\ node' \notin Early
      /\ node # "collect" /\ node' # "collect"
      /\ UNCHANGED <<inputs, plan, evidence, failures>>
  BY DEF BuildHypotheses, VerifyHypotheses, ValidateEvidence, GenerateReport, Later, Early
<1>2. /\ alert' = t.case.template.alert /\ service' = t.case.template.service
      /\ plan' = PlanOf(t) /\ evidence' = Gathered(t, Taken)' /\ Taken' = Len(plan')
      /\ service' = service /\ evidence' = evidence
  BY <1>1 DEF Tracks, Taken, inputs
<1> DEFINE Stage == /\ node = "verify" => hypotheses = BuiltFrom(service, evidence)
                    /\ node = "validate" =>
                          hypotheses = VerifiedFrom(BuiltFrom(service, evidence), evidence)
                    /\ node \in {"report", "done"} => hypotheses = ListFrom(service, evidence)
                    /\ node = "done" => report = DetermineStatus(hypotheses, evidence)
<1>3. Stage'
  <2>1. CASE BuildHypotheses
    <3>1. hypotheses' = BuiltFrom(service', evidence') /\ node' = "verify"
      BY <1>2, <2>1, BuiltIs DEF BuildHypotheses
    <3> QED BY <3>1
  <2>2. CASE VerifyHypotheses /\ hypotheses' = DemoteRegression(NoDeployment)
    <3>1. node = "verify" /\ node' = "validate"
      BY <2>2 DEF VerifyHypotheses
    <3>2. hypotheses = BuiltFrom(service, evidence)
      BY <3>1 DEF Tracks
    <3>3. hypotheses' = VerifiedFrom(hypotheses, evidence)
      BY <2>2 DEF DemoteRegression, VerifiedFrom, NoDeployment, Deployed, StaleIn
    <3>4. hypotheses' = VerifiedFrom(BuiltFrom(service', evidence'), evidence')
      BY <1>2, <3>2, <3>3
    <3> QED BY <3>1, <3>4
  <2>3. CASE ValidateEvidence
    <3>1. node = "validate" /\ node' = "report"
      BY <2>3 DEF ValidateEvidence
    <3>2. hypotheses = VerifiedFrom(BuiltFrom(service, evidence), evidence)
      BY <3>1 DEF Tracks
    <3>3. hypotheses' = ListFrom(service', evidence')
      BY <1>2, <2>3, <3>2 DEF ValidateEvidence, ListFrom, ValidatedFrom
    <3> QED BY <3>1, <3>3
  <2>4. CASE GenerateReport
    <3>1. node = "report" /\ node' = "done" /\ hypotheses' = hypotheses
      BY <2>4 DEF GenerateReport
    <3>2. hypotheses' = ListFrom(service', evidence')
      BY <1>2, <3>1 DEF Tracks
    <3>3. report' = DetermineStatus(hypotheses', evidence')
      BY <1>2, <2>4, <3>1 DEF GenerateReport
    <3> QED BY <3>1, <3>2, <3>3
  <2> QED BY <2>1, <2>2, <2>3, <2>4
<1> QED BY <1>1, <1>2, <1>3 DEF Tracks

\* A turn of the same study and list is the same turn.
LEMMA SameTurns ==
    ASSUME UNCHANGED <<study, cases>>
    PROVE  Turns' = Turns /\ \A n : Turn(n)' = Turn(n)
BY DEF Turns, Turn, Agents

\* A diagnosis that ends is scored by what it gathered.
LEMMA ScoredByTurn ==
    ASSUME NEW t \in TurnSet, t = Current, Tracks(t), Collected, node = "done"
    PROVE  Score = ScoreOf(t)
<1>1. /\ evidence = Gathered(t, Taken) /\ Taken = Len(PlanOf(t)) /\ service = t.case.template.service
      /\ hypotheses = ListFrom(service, evidence)
      /\ report = DetermineStatus(hypotheses, evidence)
  BY DEF Tracks, Early, Later
<1>2. evidence = EvidenceOf(t)
  BY <1>1 DEF EvidenceOf
<1>3. /\ hypotheses = ListFrom(t.case.template.service, EvidenceOf(t))
      /\ report = DetermineStatus(hypotheses, EvidenceOf(t))
  BY <1>1, <1>2
<1> QED BY <1>3, Zenon DEF Score, ScoreOf

\* The steps of the evaluation keep the invariant of the agent: they are steps
\* of the agent or start another one.
LEMMA EvalHeadInv == EvalInv /\ [EvalNext]_<<vars, evalVars>> => HeadInv'
<1> SUFFICES ASSUME EvalInv, [EvalNext]_<<vars, evalVars>> PROVE HeadInv'
  OBVIOUS
<1>1. HeadInv
  BY DEF EvalInv
<1>2. [Next]_vars => HeadInv'
  BY <1>1, HeadNext
<1>3. AgentInit' => HeadInv'
  BY HeadInit, PTL
<1>4. CASE CallFakeTool \/ VerifyFresh \/ RunNode
  BY <1>2, <1>4 DEF CallFakeTool, VerifyFresh, RunNode, Next
<1>5. CASE ScoreReport
  <2>1. CASE Len(scores) + 1 < Turns
    <3>1. CreateAgent(Turn(Len(scores) + 2))
      BY <1>5, <2>1 DEF ScoreReport
    <3>2. PICK t \in TurnSet : CreateAgent(t)
      <4>1. Len(scores) \in Nat /\ Turns \in Nat
        BY ScoresListed, TurnOf DEF EvalInv
      <4>2. Len(scores) + 2 \in 1..Turns
        BY <2>1, <4>1
      <4> QED BY <3>1, <4>2, TurnOf DEF EvalInv
    <3>3. alert' \in Alerts /\ service' \in Services
      BY <3>2, TurnInputs DEF CreateAgent
    <3>4. budget' \in Budgets
      BY <1>1, <3>2 DEF CreateAgent, HeadInv, RuleInv, ReportInv, ShortfallInv, Collected
    <3>5. AgentInit'
      BY <3>2, <3>3, <3>4 DEF CreateAgent, AgentInit
    <3> QED BY <1>3, <3>5
  <2>2. CASE ~(Len(scores) + 1 < Turns)
    BY <1>2, <1>5, <2>2 DEF ScoreReport
  <2> QED BY <2>1, <2>2
<1>6. CASE Summarize \/ UNCHANGED <<vars, evalVars>>
  <2>1. UNCHANGED vars
    BY <1>6 DEF Summarize
  <2> QED BY <1>2, <2>1
<1> QED BY <1>4, <1>5, <1>6 DEF EvalNext

\* Every step of the evaluation keeps its invariant.
LEMMA EvalNextInv == EvalInv /\ [EvalNext]_<<vars, evalVars>> => EvalInv'
<1> SUFFICES ASSUME EvalInv, [EvalNext]_<<vars, evalVars>> PROVE EvalInv'
  OBVIOUS
<1>1. HeadInv' /\ Collected
  BY EvalHeadInv DEF EvalInv, HeadInv, RuleInv, ReportInv, ShortfallInv
<1>2. Iterating /\ Scored /\ (Diagnosing => Tracks(Current))
  BY DEF EvalInv
<1>3. UNCHANGED <<study, cases>>
  BY DEF EvalNext, CallFakeTool, VerifyFresh, RunNode, ScoreReport, Summarize, evalVars
<1>4. Turns' = Turns /\ \A n : Turn(n)' = Turn(n)
  BY <1>3, SameTurns
<1>5. Turns \in Nat /\ Len(scores) \in Nat /\ DOMAIN scores = 1..Len(scores)
  BY <1>2, TurnOf, ScoresListed
<1>6. ASSUME Diagnosing PROVE Current \in TurnSet
  <2>1. Len(scores) + 1 \in 1..Turns
    BY <1>5, <1>6 DEF Diagnosing
  <2> QED BY <1>2, <2>1, TurnOf DEF Current
<1>7. CASE UNCHANGED scores
  <2>1. Iterating' /\ Scored'
    BY <1>2, <1>3, <1>4, <1>7 DEF Iterating, Scored
  <2>2. ASSUME Diagnosing' PROVE Tracks(Current)'
    <3>1. Diagnosing /\ Current' = Current
      BY <1>4, <1>7, <2>2 DEF Diagnosing, Current
    <3>2. PICK t \in TurnSet : t = Current
      BY <1>6, <3>1
    <3>3. Tracks(t)
      BY <1>2, <3>1, <3>2
    <3>4. Tracks(t)'
      <4>1. CASE CallFakeTool
        BY <1>1, <3>2, <3>3, <4>1, TracksCall
      <4>2. CASE VerifyFresh
        BY <1>1, <3>3, <4>2, TracksLate DEF VerifyFresh
      <4>3. CASE RunNode
        BY <1>1, <3>3, <4>3, TracksEarly, TracksStop, TracksLate DEF RunNode
      <4>4. CASE UNCHANGED vars
        BY <3>3, <4>4 DEF Tracks, Taken, vars, inputs
      <4>5. CASE ScoreReport
        BY <1>5, <1>7, <4>5 DEF ScoreReport
      <4> QED BY <4>1, <4>2, <4>3, <4>4, <4>5 DEF EvalNext, Summarize
    <3> QED BY <3>1, <3>2, <3>4
  <2> QED BY <1>1, <2>1, <2>2 DEF EvalInv
<1>8. CASE ScoreReport
  <2>1. Diagnosing /\ node = "done" /\ scores' = Append(scores, Score)
    BY <1>8 DEF ScoreReport
  <2>2. PICK t \in TurnSet : t = Current
    BY <1>6, <2>1
  <2>3. Score = ScoreOf(t)
    BY <1>1, <1>2, <2>1, <2>2, ScoredByTurn
  <2>4. Iterating' /\ Len(scores') = Len(scores) + 1
    <3> DEFINE S == {ScoreOf(u) : u \in TurnSet}
    <3>1. Score \in S
      BY <2>3
    <3>2. /\ scores \in Seq(S) /\ Len(scores) < Turns
          /\ study \in {"evaluation", "LLM evaluation"} \cup Experiment
          /\ cases \in Seq(CaseSet) /\ cases # <<>>
      BY <1>2, <2>1 DEF Iterating, Diagnosing
    <3> HIDE DEF S
    <3>3. scores' \in Seq(S) /\ Len(scores') = Len(scores) + 1
      <4>1. scores \in Seq(S) /\ Score \in S /\ scores' = Append(scores, Score)
        BY <2>1, <3>1, <3>2
      <4> QED BY <4>1, AppendedTo
    <3>4. Len(scores') <= Turns'
      <4>1. Len(scores') = Len(scores) + 1 /\ Turns' = Turns /\ Len(scores) < Turns
        BY <1>4, <3>2, <3>3
      <4>2. Len(scores) \in Nat /\ Turns \in Nat
        BY <1>5
      <4> QED BY <4>1, <4>2
    <3>5. /\ study' \in {"evaluation", "LLM evaluation"} \cup Experiment
          /\ cases' \in Seq(CaseSet) /\ cases' # <<>>
      BY <1>3, <3>2
    <3> QED BY <3>3, <3>4, <3>5 DEF Iterating, S
  <2>5. Scored'
    <3> SUFFICES ASSUME NEW n \in DOMAIN scores' PROVE scores'[n] = ScoreOf(Turn(n))'
      BY DEF Scored
    <3>1. CASE n \in 1..Len(scores)
      <4>1. scores'[n] = scores[n]
        BY <1>5, <2>1, <3>1
      <4>2. scores[n] = ScoreOf(Turn(n))
        BY <1>2, <1>5, <3>1 DEF Scored
      <4> QED BY <1>4, <4>1, <4>2
    <3>2. CASE n = Len(scores) + 1
      <4>1. scores'[n] = Score
        BY <1>5, <2>1, <3>2
      <4>2. Score = ScoreOf(Turn(n))
        BY <2>2, <2>3, <3>2 DEF Current
      <4> QED BY <1>4, <4>1, <4>2
    <3>3. n \in 1..Len(scores) \/ n = Len(scores) + 1
      BY <1>5, <2>1
    <3> QED BY <3>1, <3>2, <3>3
  <2>6. ASSUME Diagnosing' PROVE Tracks(Current)'
    <3>1. Len(scores) + 1 < Turns
      BY <1>4, <2>4, <2>6 DEF Diagnosing
    <3>2. Current' = Turn(Len(scores) + 2)
      <4>1. Len(scores') + 1 = Len(scores) + 2
        BY <1>5, <2>4
      <4> QED BY <1>4, <4>1 DEF Current
    <3>3. PICK u : u = Turn(Len(scores) + 2)
      OBVIOUS
    <3>4. CreateAgent(u)
      BY <1>8, <3>1, <3>3 DEF ScoreReport
    <3>5. Tracks(u)'
      BY <3>4 DEF CreateAgent, Tracks, Early, Later
    <3> QED BY <3>2, <3>3, <3>5
  <2> QED BY <1>1, <2>4, <2>5, <2>6 DEF EvalInv
<1> QED BY <1>7, <1>8 DEF EvalNext, CallFakeTool, VerifyFresh, RunNode, Summarize, evalVars

\* The invariant of the evaluation holds.
LEMMA EvalCorrect == EvalSpec => []EvalInv
BY EvalInitInv, EvalNextInv, PTL DEF EvalSpec

-----------------------------------------------------------------------------
(* What the plans ask for.                                                 *)

\* The rules' plans never search the runbooks.
LEMMA PlanTools ==
    \A a \in Alert : \A k \in 1..Len(PlanFor[a]) :
        PlanFor[a][k].tool \in {"query_logs", "query_metrics", "query_deployments"}
<1> DEFINE T == {"query_logs", "query_metrics", "query_deployments"}
<1>1. /\ Logs.tool \in T /\ Deployments.tool \in T
      /\ \A m : Measure(m).tool \in T
  BY DEF Logs, Deployments, Measure
<1> HIDE DEF T
<1>2. \A k \in 1..4 : PlanFor["P95_LATENCY_HIGH"][k].tool \in T
  BY <1>1 DEF PlanFor
<1>3. \A k \in 1..3 : PlanFor["ERROR_RATE_HIGH"][k].tool \in T
  BY <1>1 DEF PlanFor
<1>4. \A k \in 1..3 : PlanFor["THROUGHPUT_LOW"][k].tool \in T
  BY <1>1 DEF PlanFor
<1>5. \A k \in 1..2 : PlanFor["MQ_LAG_HIGH"][k].tool \in T
  BY <1>1 DEF PlanFor
<1>6. /\ Len(PlanFor["P95_LATENCY_HIGH"]) = 4
      /\ Len(PlanFor["ERROR_RATE_HIGH"]) = 3
      /\ Len(PlanFor["THROUGHPUT_LOW"]) = 3
      /\ Len(PlanFor["MQ_LAG_HIGH"]) = 2
  BY DEF PlanFor
<1> QED BY <1>2, <1>3, <1>4, <1>5, <1>6 DEF Alert, T

-----------------------------------------------------------------------------
(* What the rules make of each fault.                                      *)

\* The parts of a rule.
LEMMA RuleParts ==
    \A p, c, l : /\ Rule(p, c, l).pattern = p
                 /\ Rule(p, c, l).cause = c
                 /\ Rule(p, c, l).confidence = l
BY DEF Rule

\* The table of the log rules, row by row.
LEMMA LogRuleRows ==
    /\ DOMAIN LogRules = 1..8
    /\ LogRules[1] = Rule("slow", Slow, "HIGH")
    /\ LogRules[2] = Rule("pool", Pool, "HIGH")
    /\ LogRules[3] = Rule("redis", Redis, "MEDIUM")
    /\ LogRules[4] = Rule("downstream", Downstream, "MEDIUM")
    /\ LogRules[5] = Rule("resource", Resource, "HIGH")
    /\ LogRules[6] = Rule("mq", "MQ_CONSUMER_ERROR", "HIGH")
    /\ LogRules[7] = Rule("config", Spike, "HIGH")
    /\ LogRules[8] = Rule("npe", Regression, "HIGH")
BY DEF LogRules, Slow, Redis, Downstream, Resource, Spike

\* The causes that the messages of a fault speak for.
LEMMA LogVoiceOf ==
    ASSUME NEW f, NEW c, NEW w
    PROVE  LogVoice(f, c, w) <=>
              \/ f \in LogScenario["slow"] /\ c = Slow /\ w = 3
              \/ f \in LogScenario["pool"] /\ c = Pool /\ w = 3
              \/ f \in LogScenario["redis"] /\ c = Redis /\ w = 2
              \/ f \in LogScenario["downstream"] /\ c = Downstream /\ w = 2
              \/ f \in LogScenario["resource"] /\ c = Resource /\ w = 3
              \/ f \in LogScenario["mq"] /\ c = "MQ_CONSUMER_ERROR" /\ w = 3
              \/ f \in LogScenario["config"] /\ c = Spike /\ w = 3
              \/ f \in LogScenario["npe"] /\ c = Regression /\ w = 3
<1> DEFINE Row(i) == /\ LogRules[i].pattern \in MessagesIn(f)
                     /\ c = LogRules[i].cause
                     /\ w = Weight[LogRules[i].confidence]
<1>1. LogVoice(f, c, w) <=> \E i \in 1..8 : Row(i)
  BY LogRuleRows DEF LogVoice
<1>2. Weight["HIGH"] = 3 /\ Weight["MEDIUM"] = 2
  BY DEF Weight
<1>3. \A p \in Pattern : p \in MessagesIn(f) <=> f \in LogScenario[p]
  BY DEF MessagesIn
<1>4. /\ "slow" \in Pattern /\ "pool" \in Pattern /\ "redis" \in Pattern
      /\ "downstream" \in Pattern /\ "resource" \in Pattern /\ "mq" \in Pattern
      /\ "config" \in Pattern /\ "npe" \in Pattern
  BY DEF Pattern
<1>5. Row(1) <=> f \in LogScenario["slow"] /\ c = Slow /\ w = 3
  BY <1>2, <1>3, <1>4, LogRuleRows, RuleParts
<1>6. Row(2) <=> f \in LogScenario["pool"] /\ c = Pool /\ w = 3
  BY <1>2, <1>3, <1>4, LogRuleRows, RuleParts
<1>7. Row(3) <=> f \in LogScenario["redis"] /\ c = Redis /\ w = 2
  BY <1>2, <1>3, <1>4, LogRuleRows, RuleParts
<1>8. Row(4) <=> f \in LogScenario["downstream"] /\ c = Downstream /\ w = 2
  BY <1>2, <1>3, <1>4, LogRuleRows, RuleParts
<1>9. Row(5) <=> f \in LogScenario["resource"] /\ c = Resource /\ w = 3
  BY <1>2, <1>3, <1>4, LogRuleRows, RuleParts
<1>10. Row(6) <=> f \in LogScenario["mq"] /\ c = "MQ_CONSUMER_ERROR" /\ w = 3
  BY <1>2, <1>3, <1>4, LogRuleRows, RuleParts
<1>11. Row(7) <=> f \in LogScenario["config"] /\ c = Spike /\ w = 3
  BY <1>2, <1>3, <1>4, LogRuleRows, RuleParts
<1>12. Row(8) <=> f \in LogScenario["npe"] /\ c = Regression /\ w = 3
  BY <1>2, <1>3, <1>4, LogRuleRows, RuleParts
<1> HIDE DEF Row
<1>13. (\E i \in 1..8 : Row(i)) <=>
          \/ Row(1) \/ Row(2) \/ Row(3) \/ Row(4) \/ Row(5) \/ Row(6) \/ Row(7) \/ Row(8)
  <2>1. \A i \in 1..8 : i = 1 \/ i = 2 \/ i = 3 \/ i = 4 \/ i = 5 \/ i = 6 \/ i = 7 \/ i = 8
    OBVIOUS
  <2> QED BY <2>1
<1> QED BY <1>1, <1>5, <1>6, <1>7, <1>8, <1>9, <1>10, <1>11, <1>12, <1>13

\* The causes that a metric of a fault speaks for, in the service s.
LEMMA MetricVoiceOf ==
    ASSUME NEW s, NEW m, NEW f, NEW c, NEW w
    PROVE  MetricVoice(s, m, f, c, w) <=>
              /\ m \in DOMAIN MetricsScenario /\ f \in MetricsScenario[m]
              /\ \/ /\ m = "latency_p95" /\ w = 2
                    /\ s \in {"order", "inventory", "payment"} /\ c = LatencyCause[s]
                 \/ m = "db_pool_active_ratio" /\ c = Pool /\ w = 3
                 \/ m = "redis_latency_p95" /\ c = Redis /\ w = 3
                 \/ m = "downstream_latency_p95" /\ c = Downstream /\ w = 3
                 \/ m = "mq_lag" /\ c = "MQ_CONSUMER_ERROR" /\ w = 3
                 \/ m = "error_rate" /\ c = Spike /\ w = 2
<1>1. LevelIn(f, m) = "high" <=> m \in DOMAIN MetricsScenario /\ f \in MetricsScenario[m]
  BY DEF LevelIn
<1>2. DOMAIN LatencyCause = {"order", "inventory", "payment"}
  BY DEF LatencyCause
<1>3. /\ DOMAIN MetricRule = {"db_pool_active_ratio", "redis_latency_p95",
                              "downstream_latency_p95", "mq_lag", "error_rate"}
      /\ MetricRule["db_pool_active_ratio"] = Rule("high", Pool, "HIGH")
      /\ MetricRule["redis_latency_p95"] = Rule("high", Redis, "HIGH")
      /\ MetricRule["downstream_latency_p95"] = Rule("high", Downstream, "HIGH")
      /\ MetricRule["mq_lag"] = Rule("high", "MQ_CONSUMER_ERROR", "HIGH")
      /\ MetricRule["error_rate"] = Rule("high", Spike, "MEDIUM")
  BY DEF MetricRule, Redis, Downstream, Spike
<1>4. Weight["HIGH"] = 3 /\ Weight["MEDIUM"] = 2
  BY DEF Weight
<1>5. (/\ m \in DOMAIN MetricRule
       /\ c = MetricRule[m].cause /\ w = Weight[MetricRule[m].confidence]) <=>
          \/ m = "db_pool_active_ratio" /\ c = Pool /\ w = 3
          \/ m = "redis_latency_p95" /\ c = Redis /\ w = 3
          \/ m = "downstream_latency_p95" /\ c = Downstream /\ w = 3
          \/ m = "mq_lag" /\ c = "MQ_CONSUMER_ERROR" /\ w = 3
          \/ m = "error_rate" /\ c = Spike /\ w = 2
  BY <1>3, <1>4, RuleParts
<1> QED BY <1>1, <1>2, <1>5 DEF MetricVoice

\* A row of the table of the faults.
Row(x, f, s, a, e, no) ==
    x.fault = f /\ x.service = s /\ x.alert = a /\ x.expected = e /\ x.forbidden = no

\* The table of the faults.
TemplateTable(x) ==
    \/ Row(x, "mysql-slow-query", "order", "P95_LATENCY_HIGH",
           Slow, Redis)
    \/ Row(x, "mysql-connection-pool", "order", "ERROR_RATE_HIGH",
           Pool, Redis)
    \/ Row(x, "redis-timeout", "inventory", "P95_LATENCY_HIGH",
           Redis, Slow)
    \/ Row(x, "redis-hot-key", "inventory", "P95_LATENCY_HIGH",
           Redis, Slow)
    \/ Row(x, "downstream-payment-timeout", "payment", "P95_LATENCY_HIGH",
           Downstream, Slow)
    \/ Row(x, "downstream-payment-5xx", "payment", "ERROR_RATE_HIGH",
           Downstream, Slow)
    \/ Row(x, "http-connection-pool", "order", "THROUGHPUT_LOW",
           Resource, Redis)
    \/ Row(x, "thread-pool-full", "inventory", "THROUGHPUT_LOW",
           Resource, Slow)
    \/ Row(x, "config-error", "order", "ERROR_RATE_HIGH",
           Spike, Redis)
    \/ Row(x, "deployment-npe", "order", "ERROR_RATE_HIGH",
           Regression, Slow)
    \/ Row(x, "rate-limit-triggered", "order", "THROUGHPUT_LOW",
           Resource, Redis)
    \/ Row(x, "mq-consumer-lag", "inventory", "MQ_LAG_HIGH",
           "MQ_CONSUMER_ERROR", Slow)

\* A template is a row of the table.
LEMMA RowOf ==
    \A f, s, a, e, no, y, z : Row(Template(f, s, a, e, no, y, z), f, s, a, e, no)
BY DEF Row, Template

\* And those of the list are the rows.
LEMMA TemplateRows == \A i \in 1..12 : TemplateTable(Templates[i])
<1>1. Templates[1] = Template("mysql-slow-query", "order", "P95_LATENCY_HIGH", Slow, Redis,
                               "deploy", "search_runbooks")
  BY DEF Templates
<1>2. Templates[2] = Template("mysql-connection-pool", "order", "ERROR_RATE_HIGH", Pool, Redis,
                               "deploy", "wrong runbook")
  BY DEF Templates
<1>3. Templates[3] = Template("redis-timeout", "inventory", "P95_LATENCY_HIGH", Redis, Slow,
                               "query_deployments", "deploy")
  BY DEF Templates
<1>4. Templates[4] = Template("redis-hot-key", "inventory", "P95_LATENCY_HIGH", Redis, Slow,
                               "wrong runbook", "search_runbooks")
  BY DEF Templates
<1>5. Templates[5] = Template("downstream-payment-timeout", "payment", "P95_LATENCY_HIGH", Downstream, Slow,
                               "deploy", "query_logs")
  BY DEF Templates
<1>6. Templates[6] = Template("downstream-payment-5xx", "payment", "ERROR_RATE_HIGH", Downstream, Slow,
                               "deploy", "wrong runbook")
  BY DEF Templates
<1>7. Templates[7] = Template("http-connection-pool", "order", "THROUGHPUT_LOW", Resource, Redis,
                               "query_metrics", "deploy")
  BY DEF Templates
<1>8. Templates[8] = Template("thread-pool-full", "inventory", "THROUGHPUT_LOW", Resource, Slow,
                               "wrong runbook", "search_runbooks")
  BY DEF Templates
<1>9. Templates[9] = Template("config-error", "order", "ERROR_RATE_HIGH", Spike, Redis,
                               "deploy", "query_deployments")
  BY DEF Templates
<1>10. Templates[10] = Template("deployment-npe", "order", "ERROR_RATE_HIGH", Regression, Slow,
                                 "wrong runbook", "query_logs")
  BY DEF Templates
<1>11. Templates[11] = Template("rate-limit-triggered", "order", "THROUGHPUT_LOW", Resource, Redis,
                                 "deploy", "query_metrics")
  BY DEF Templates
<1>12. Templates[12] = Template("mq-consumer-lag", "inventory", "MQ_LAG_HIGH", "MQ_CONSUMER_ERROR", Slow,
                                 "wrong runbook", "search_runbooks")
  BY DEF Templates
<1>13. \A i \in 1..12 : \/ i = 1 \/ i = 2 \/ i = 3 \/ i = 4 \/ i = 5 \/ i = 6
                        \/ i = 7 \/ i = 8 \/ i = 9 \/ i = 10 \/ i = 11 \/ i = 12
  OBVIOUS
<1> SUFFICES ASSUME NEW i \in 1..12 PROVE TemplateTable(Templates[i])
  OBVIOUS
<1>14. CASE i = 1
  BY <1>1, <1>14, RowOf, Zenon DEF TemplateTable
<1>15. CASE i = 2
  BY <1>2, <1>15, RowOf, Zenon DEF TemplateTable
<1>16. CASE i = 3
  BY <1>3, <1>16, RowOf, Zenon DEF TemplateTable
<1>17. CASE i = 4
  BY <1>4, <1>17, RowOf, Zenon DEF TemplateTable
<1>18. CASE i = 5
  BY <1>5, <1>18, RowOf, Zenon DEF TemplateTable
<1>19. CASE i = 6
  BY <1>6, <1>19, RowOf, Zenon DEF TemplateTable
<1>20. CASE i = 7
  BY <1>7, <1>20, RowOf, Zenon DEF TemplateTable
<1>21. CASE i = 8
  BY <1>8, <1>21, RowOf, Zenon DEF TemplateTable
<1>22. CASE i = 9
  BY <1>9, <1>22, RowOf, Zenon DEF TemplateTable
<1>23. CASE i = 10
  BY <1>10, <1>23, RowOf, Zenon DEF TemplateTable
<1>24. CASE i = 11
  BY <1>11, <1>24, RowOf, Zenon DEF TemplateTable
<1>25. CASE i = 12
  BY <1>12, <1>25, RowOf, Zenon DEF TemplateTable
<1> QED BY <1>13, <1>14, <1>15, <1>16, <1>17, <1>18, <1>19, <1>20, <1>21, <1>22, <1>23, <1>24, <1>25

\* The rules never speak for the forbidden cause of a fault, whatever metric is
\* read and whatever was deployed; and they speak with more than a low
\* confidence for its expected cause, for the spike of errors, and in two faults
\* for one more.
LEMMA OnlyVoices ==
    ASSUME NEW x, TemplateTable(x), NEW c, NEW w,
           \/ LogVoice(x.fault, c, w)
           \/ \E m : MetricVoice(x.service, m, x.fault, c, w)
           \/ c = Regression /\ (w = 1 \/ x.fault = "deployment-npe")
    PROVE  /\ c # x.forbidden
           /\ \/ w = 1 \/ c = x.expected \/ c = Spike
              \/ x.fault = "mysql-slow-query" /\ c = Pool
              \/ x.fault = "http-connection-pool" /\ c = Downstream /\ w = 2
<1>1. CASE LogVoice(x.fault, c, w)
  <2>1. \/ x.fault \in {"mysql_slow_query", "mysql-slow-query"} /\ c = Slow
        \/ x.fault \in {"mysql_slow_query", "mysql-slow-query", "mysql-connection-pool"} /\ c = Pool
        \/ x.fault \in {"redis-timeout", "redis-hot-key"} /\ c = Redis
        \/ /\ x.fault \in {"downstream-payment-timeout", "downstream-payment-5xx",
                           "http-connection-pool"}
           /\ c = Downstream /\ w = 2
        \/ /\ x.fault \in {"http-connection-pool", "thread-pool-full", "rate-limit-triggered"}
           /\ c = Resource
        \/ x.fault = "mq-consumer-lag" /\ c = "MQ_CONSUMER_ERROR"
        \/ c = Spike
        \/ x.fault = "deployment-npe" /\ c = Regression
    BY <1>1, LogVoiceOf DEF LogScenario
  <2> QED BY <2>1 DEF TemplateTable, Row, Slow, Pool, Redis, Downstream, Resource, Spike, Regression
<1>2. CASE \E m : MetricVoice(x.service, m, x.fault, c, w)
  <2>1. PICK m : MetricVoice(x.service, m, x.fault, c, w)
    BY <1>2
  <2>2. \/ /\ x.fault \in {"mysql_slow_query", "redis-timeout", "redis-hot-key",
                           "downstream-payment-timeout"}
           /\ x.service \in {"order", "inventory", "payment"} /\ c = LatencyCause[x.service]
        \/ x.fault \in {"mysql_slow_query", "mysql-connection-pool"} /\ c = Pool
        \/ x.fault \in {"redis-timeout", "redis-hot-key"} /\ c = Redis
        \/ x.fault = "downstream-payment-timeout" /\ c = Downstream
        \/ x.fault = "mq-consumer-lag" /\ c = "MQ_CONSUMER_ERROR"
        \/ c = Spike
    BY <2>1, MetricVoiceOf DEF MetricsScenario
  <2>3. LatencyCause["inventory"] = Redis /\ LatencyCause["payment"] = Downstream
    BY DEF LatencyCause, Redis, Downstream
  <2> QED BY <2>2, <2>3 DEF TemplateTable, Row, Slow, Pool, Redis, Downstream, Resource, Spike, Regression
<1>3. CASE c = Regression /\ (w = 1 \/ x.fault = "deployment-npe")
  BY <1>3 DEF TemplateTable, Row, Slow, Pool, Redis, Downstream, Resource, Spike, Regression
<1> QED BY <1>1, <1>2, <1>3

-----------------------------------------------------------------------------
(* What the evidence of a turn speaks for.                                 *)

\* Some hypothesis of the list hs has the cause c and the weight w.
Heard(hs, c, w) == \E k \in DOMAIN hs : hs[k].cause = c /\ w = Weight[hs[k].confidence]

\* One hypothesis is heard alone.
LEMMA HeardOne ==
    ASSUME NEW d, NEW l, NEW S, NEW c, NEW w
    PROVE  /\ Heard(<<Hypothesis(d, l, S)>>, c, w) <=> c = d /\ w = Weight[l]
           /\ ~Heard(<<>>, c, w)
<1> DEFINE h == Hypothesis(d, l, S)
<1>1. h.cause = d /\ h.confidence = l
  BY DEF Hypothesis
<1> HIDE DEF h
<1>2. DOMAIN <<h>> = {1} /\ <<h>>[1] = h
  OBVIOUS
<1> QED BY <1>1, <1>2 DEF Heard, h

\* The log rules are heard for the messages that they match, and only then.
LEMMA HeardLogs ==
    ASSUME NEW e, NEW f, e.patterns = MessagesIn(f), NEW c, NEW w
    PROVE  Heard(FromLogs(e), c, w) <=> LogVoice(f, c, w)
<1> DEFINE P == {i \in DOMAIN LogRules : LogRules[i].pattern \in e.patterns}
           hits == At(LogRules, P)
           Rules == [pattern : Pattern, cause : Cause \ {"UNKNOWN"}, confidence : Confidence]
<1>1. LogRules \in Seq(Rules) /\ P \in SUBSET DOMAIN LogRules
  BY LogRulesOf
<1> HIDE DEF Rules
<1>2. FromLogs(e) = [i \in DOMAIN hits |-> Hypothesis(hits[i].cause, hits[i].confidence, {e.id})]
  BY DEF FromLogs
<1>3. \A i : i \in P <=> i \in DOMAIN LogRules /\ LogRules[i].pattern \in MessagesIn(f)
  OBVIOUS
<1> HIDE DEF P
<1>4. hits \in Seq(Rules)
  BY <1>1, AtListed
<1>5. PICK q : Picks(hits, LogRules, q, P)
  BY <1>1, AtListed
<1> HIDE DEF hits
<1>6. DOMAIN hits = 1..Len(hits)
  BY <1>4
<1>7. \A i \in DOMAIN hits : q[i] \in P /\ hits[i] = LogRules[q[i]]
  BY <1>5, <1>6 DEF Picks
<1>8. \A x \in P : \E i \in DOMAIN hits : q[i] = x
  BY <1>5, <1>6 DEF Picks
<1>9. DOMAIN FromLogs(e) = DOMAIN hits
  BY <1>2
<1>10. \A i \in DOMAIN hits : /\ FromLogs(e)[i].cause = hits[i].cause
                              /\ FromLogs(e)[i].confidence = hits[i].confidence
  BY <1>2 DEF Hypothesis
<1> QED BY <1>3, <1>7, <1>8, <1>9, <1>10 DEF Heard, LogVoice

\* The metric rules are heard for the levels beyond their thresholds.
LEMMA HeardMetric ==
    ASSUME NEW e, NEW m, NEW f, e.metric = m, e.level = LevelIn(f, m), NEW c, NEW w
    PROVE  Heard(FromMetric(e), c, w) <=> MetricVoice(service, m, f, c, w)
<1>1. "latency_p95" \notin DOMAIN MetricRule
  BY DEF MetricRule
<1>2. Weight["MEDIUM"] = 2
  BY DEF Weight
<1>3. CASE e.level # "high"
  BY <1>3, HeardOne DEF FromMetric, MetricVoice
<1>4. CASE e.level = "high" /\ m = "latency_p95" /\ service \in DOMAIN LatencyCause
  <2>1. FromMetric(e) = <<Hypothesis(LatencyCause[service], "MEDIUM", {e.id})>>
    BY <1>4 DEF FromMetric
  <2> QED BY <1>1, <1>2, <1>4, <2>1, HeardOne DEF MetricVoice
<1>5. CASE /\ e.level = "high" /\ ~(m = "latency_p95" /\ service \in DOMAIN LatencyCause)
           /\ m \in DOMAIN MetricRule
  <2>1. FromMetric(e) = <<Hypothesis(MetricRule[m].cause, MetricRule[m].confidence, {e.id})>>
    BY <1>5 DEF FromMetric
  <2> QED BY <1>5, <2>1, HeardOne DEF MetricVoice
<1>6. CASE /\ e.level = "high" /\ ~(m = "latency_p95" /\ service \in DOMAIN LatencyCause)
           /\ m \notin DOMAIN MetricRule
  <2>1. FromMetric(e) = <<>>
    BY <1>6 DEF FromMetric
  <2>2. ~MetricVoice(service, m, f, c, w)
    BY <1>6 DEF MetricVoice
  <2>3. ~Heard(<<>>, c, w)
    BY HeardOne
  <2> QED BY <2>1, <2>2, <2>3, Zenon
<1> QED BY <1>3, <1>4, <1>5, <1>6

\* A deployment of the last hours is heard.
LEMMA HeardRelease ==
    ASSUME NEW e, NEW case, NEW f, e.release = ReleaseIn(case, f), NEW c, NEW w
    PROVE  Heard(FromDeployments(e), c, w) <=> ReleaseVoice(case, f, c, w)
<1>1. ReleaseIn(case, f) \in {"old", "recent", "faulty"}
  <2>1. CASE f = "deployment-npe"
    BY <2>1, Zenon DEF ReleaseIn
  <2>2. CASE f # "deployment-npe" /\ "deploy" \in case.disturbed
    BY <2>2, Zenon DEF ReleaseIn
  <2>3. CASE f # "deployment-npe" /\ "deploy" \notin case.disturbed
    BY <2>3, Zenon DEF ReleaseIn
  <2> QED BY <2>1, <2>2, <2>3
<1>2. Weight["HIGH"] = 3 /\ Weight["LOW"] = 1
  BY DEF Weight
<1>3. CASE e.release = "old"
  BY <1>3, HeardOne DEF FromDeployments, ReleaseVoice
<1>4. CASE e.release = "recent"
  <2>1. FromDeployments(e) = <<Hypothesis(Regression, "LOW", {e.id})>>
    BY <1>4 DEF FromDeployments
  <2> QED BY <1>2, <1>4, <2>1, HeardOne DEF ReleaseVoice
<1>5. CASE e.release = "faulty"
  <2>1. FromDeployments(e) = <<Hypothesis(Regression, "HIGH", {e.id})>>
    BY <1>5 DEF FromDeployments
  <2> QED BY <1>2, <1>5, <2>1, HeardOne DEF ReleaseVoice
<1> QED BY <1>1, <1>3, <1>4, <1>5

\* What an answer holds.
LEMMA AnswerOf ==
    ASSUME NEW c, NEW f, NEW step, NEW id
    PROVE  LET e == Answer(c, f, step, id)
           IN  /\ step.tool = "query_logs" =>
                     e.tool = "query_logs" /\ e.id = id /\ e.patterns = MessagesIn(f)
               /\ step.tool = "query_metrics" =>
                     /\ e.tool = "query_metrics" /\ e.id = id
                     /\ e.metric = step.metric /\ e.level = LevelIn(f, step.metric)
               /\ step.tool = "query_deployments" =>
                     e.tool = "query_deployments" /\ e.id = id /\ e.release = ReleaseIn(c, f)
<1>1. CASE step.tool = "query_logs"
  <2>1. Answer(c, f, step, id)
        = [id |-> id, tool |-> "query_logs", patterns |-> MessagesIn(f)]
    BY <1>1, Zenon DEF Answer
  <2> QED BY <1>1, <2>1
<1>2. CASE step.tool = "query_metrics"
  <2>1. Answer(c, f, step, id)
        = [id |-> id, tool |-> "query_metrics", metric |-> step.metric,
           level |-> LevelIn(f, step.metric)]
    BY <1>2, Zenon DEF Answer
  <2> QED BY <1>2, <2>1
<1>3. CASE step.tool = "query_deployments"
  <2>1. Answer(c, f, step, id)
        = [id |-> id, tool |-> "query_deployments", release |-> ReleaseIn(c, f)]
    BY <1>3, Zenon DEF Answer
  <2> QED BY <1>3, <2>1
<1> QED BY <1>1, <1>2, <1>3

\* The rules hear in the evidence of a step what the step speaks for.
LEMMA HeardStep ==
    ASSUME NEW t \in TurnSet, service = t.case.template.service,
           NEW k \in 1..Len(PlanOf(t)), NEW c, NEW w
    PROVE  Heard(Suggested(Brings(t, k)), c, w) <=> Voice(t, k, c, w)
<1> DEFINE step == PlanOf(t)[k]
           f == Scenario(t)
           e == Brings(t, k)
<1>1. step.tool \in {"query_logs", "query_metrics", "query_deployments"}
  BY PlanTools, TurnInputs DEF PlanOf
<1>2. e = Answer(t.case, f, step, k + 1)
  BY DEF Brings
<1>3. CASE step.tool = "query_logs"
  <2>1. e.tool = "query_logs" /\ e.patterns = MessagesIn(f)
    BY <1>2, <1>3, AnswerOf
  <2>2. Suggested(e) = FromLogs(e)
    BY <2>1, Zenon DEF Suggested
  <2>3. Voice(t, k, c, w) <=> LogVoice(f, c, w)
    BY <1>3, Zenon DEF Voice
  <2> QED BY <2>1, <2>2, <2>3, HeardLogs
<1>4. CASE step.tool = "query_metrics"
  <2>1. e.tool = "query_metrics" /\ e.metric = step.metric /\ e.level = LevelIn(f, step.metric)
    BY <1>2, <1>4, AnswerOf
  <2>2. Suggested(e) = FromMetric(e)
    BY <2>1, Zenon DEF Suggested
  <2>3. Voice(t, k, c, w) <=> MetricVoice(service, step.metric, f, c, w)
    BY <1>4, Zenon DEF Voice
  <2> QED BY <2>1, <2>2, <2>3, HeardMetric
<1>5. CASE step.tool = "query_deployments"
  <2>1. e.tool = "query_deployments" /\ e.release = ReleaseIn(t.case, f)
    BY <1>2, <1>5, AnswerOf
  <2>2. Suggested(e) = FromDeployments(e)
    BY <2>1, Zenon DEF Suggested
  <2>3. Voice(t, k, c, w) <=> ReleaseVoice(t.case, f, c, w)
    BY <1>5, Zenon DEF Voice
  <2> QED BY <2>1, <2>2, <2>3, HeardRelease
<1> QED BY <1>1, <1>3, <1>4, <1>5

\* What the first k steps of a turn have brought: the evidence of each step that
\* was open, and that of the first of them first.
Brought(t, k) ==
    LET ev == Gathered(t, k)
    IN  /\ ev \in Seq({Brings(t, j) : j \in Open(t)})
        /\ \A j \in 1..k : Available(t, j) => \E i \in DOMAIN ev : ev[i] = Brings(t, j)
        /\ (\A j \in 1..k : ~Available(t, j)) => ev = <<>>
        /\ \A j \in 1..k : Available(t, j) /\ (\A i \in 1..j - 1 : ~Available(t, i)) =>
              ev # <<>> /\ ev[1] = Brings(t, j)

\* Appending keeps what is there.
LEMMA AppendedKeeps ==
    ASSUME NEW S, NEW s \in Seq(S), NEW e \in S
    PROVE  LET r == Append(s, e)
           IN  /\ r \in Seq(S) /\ r # <<>>
               /\ \A i \in DOMAIN s : i \in DOMAIN r /\ r[i] = s[i]
               /\ Len(r) \in DOMAIN r /\ r[Len(r)] = e
               /\ s # <<>> => r[1] = s[1]
               /\ s = <<>> => r[1] = e
<1> DEFINE r == Append(s, e)
<1>1. /\ r \in Seq(S) /\ Len(r) = Len(s) + 1 /\ r[Len(s) + 1] = e
      /\ \A i \in 1..Len(s) : r[i] = s[i]
  OBVIOUS
<1>2. /\ DOMAIN s = 1..Len(s) /\ Len(s) \in Nat /\ (s = <<>> <=> Len(s) = 0)
  OBVIOUS
<1> HIDE DEF r
<1>3. DOMAIN r = 1..Len(r) /\ r # <<>>
  <2>1. DOMAIN r = 1..Len(r)
    BY <1>1
  <2>2. 1 \in DOMAIN r
    BY <1>1, <1>2, <2>1
  <2>3. DOMAIN <<>> = {}
    OBVIOUS
  <2> QED BY <2>1, <2>2, <2>3
<1> QED BY <1>1, <1>2, <1>3 DEF r

\* One step more.
LEMMA BroughtStep ==
    ASSUME NEW t \in TurnSet, NEW k \in 0..3, k < Len(PlanOf(t)), Brought(t, k)
    PROVE  Brought(t, k + 1)
<1> DEFINE S == {Brings(t, j) : j \in Open(t)}
           ev == Gathered(t, k)
           new == Gathered(t, k + 1)
<1>1. new = Added(t, ev, k + 1) /\ k + 1 \in 1..Len(PlanOf(t))
  BY GatheredStep, TurnInputs
<1>2. /\ ev \in Seq(S)
      /\ \A j \in 1..k : Available(t, j) => \E i \in DOMAIN ev : ev[i] = Brings(t, j)
      /\ (\A j \in 1..k : ~Available(t, j)) => ev = <<>>
      /\ \A j \in 1..k : Available(t, j) /\ (\A i \in 1..j - 1 : ~Available(t, i)) =>
            ev # <<>> /\ ev[1] = Brings(t, j)
  BY DEF Brought
<1>3. 1..k + 1 = 1..k \cup {k + 1} /\ (k + 1) - 1 = k
  OBVIOUS
<1>4. CASE ~Available(t, k + 1)
  <2>1. new = ev
    BY <1>1, <1>4 DEF Added, Available
  <2> HIDE DEF S, ev, new
  <2> QED BY <1>2, <1>3, <1>4, <2>1 DEF Brought, S, ev, new
<1>5. CASE Available(t, k + 1)
  <2>1. new = Append(ev, Brings(t, k + 1))
    BY <1>1, <1>5 DEF Added, Available, Brings
  <2>2. Brings(t, k + 1) \in S
    BY <1>1, <1>5 DEF Open
  <2> HIDE DEF S, ev, new
  <2>3. /\ new \in Seq(S) /\ new # <<>>
        /\ \A i \in DOMAIN ev : i \in DOMAIN new /\ new[i] = ev[i]
        /\ Len(new) \in DOMAIN new /\ new[Len(new)] = Brings(t, k + 1)
        /\ ev # <<>> => new[1] = ev[1]
        /\ ev = <<>> => new[1] = Brings(t, k + 1)
    BY <1>2, <2>1, <2>2, AppendedKeeps
  <2>4. \A j \in 1..k + 1 : Available(t, j) => \E i \in DOMAIN new : new[i] = Brings(t, j)
    <3> SUFFICES ASSUME NEW j \in 1..k + 1, Available(t, j)
                 PROVE  \E i \in DOMAIN new : new[i] = Brings(t, j)
      OBVIOUS
    <3>1. CASE j \in 1..k
      BY <1>2, <2>3, <3>1
    <3>2. CASE j = k + 1
      BY <2>3, <3>2
    <3> QED BY <1>3, <3>1, <3>2
  <2>5. ~(\A j \in 1..k + 1 : ~Available(t, j))
    BY <1>3, <1>5
  <2>6. \A j \in 1..k + 1 : Available(t, j) /\ (\A i \in 1..j - 1 : ~Available(t, i)) =>
            new # <<>> /\ new[1] = Brings(t, j)
    <3> SUFFICES ASSUME NEW j \in 1..k + 1, Available(t, j), \A i \in 1..j - 1 : ~Available(t, i)
                 PROVE  new # <<>> /\ new[1] = Brings(t, j)
      OBVIOUS
    <3>1. CASE j \in 1..k
      BY <1>2, <2>3, <3>1
    <3>2. CASE j = k + 1
      BY <1>2, <1>3, <2>3, <3>2
    <3> QED BY <1>3, <3>1, <3>2
  <2> QED BY <2>3, <2>4, <2>5, <2>6 DEF Brought, S, new
<1> QED BY <1>4, <1>5

\* What a turn has brought in the end.
LEMMA BroughtAll ==
    ASSUME NEW t \in TurnSet
    PROVE  Brought(t, Len(PlanOf(t))) /\ EvidenceOf(t) = Gathered(t, Len(PlanOf(t)))
<1>1. PICK n \in 1..4 : n = Len(PlanOf(t))
  BY TurnInputs
<1>2. Brought(t, 0)
  <2>1. Gathered(t, 0) = <<>>
    BY GatheredStep
  <2>2. \A j : j \notin 1..0
    OBVIOUS
  <2>3. \A S : <<>> \in Seq(S)
    OBVIOUS
  <2> QED BY <2>1, <2>2, <2>3, Zenon DEF Brought
<1>3. ASSUME NEW k \in 0..3, k < n, Brought(t, k) PROVE Brought(t, k + 1)
  <2>1. k < Len(PlanOf(t))
    BY <1>1, <1>3
  <2> QED BY <1>3, <2>1, BroughtStep
<1>4. Brought(t, 1)
  <2>1. 0 \in 0..3 /\ 0 < n /\ 0 + 1 = 1
    OBVIOUS
  <2> QED BY <1>2, <1>3, <2>1
<1>5. n > 1 => Brought(t, 2)
  BY <1>3, <1>4
<1>6. n > 2 => Brought(t, 3)
  BY <1>3, <1>5
<1>7. n > 3 => Brought(t, 4)
  BY <1>3, <1>6
<1>8. Brought(t, n)
  BY <1>4, <1>5, <1>6, <1>7
<1> QED BY <1>1, <1>8 DEF EvidenceOf

\* The diagnosis of a turn has the evidence of the open steps of its plan.
LEMMA TurnEvidence ==
    ASSUME NEW t \in TurnSet, Tracks(t), node \in Later
    PROVE  /\ service = t.case.template.service
           /\ \A i \in DOMAIN evidence : \E k \in Open(t) : evidence[i] = Brings(t, k)
           /\ \A k \in Open(t) : \E i \in DOMAIN evidence : evidence[i] = Brings(t, k)
           /\ \A k \in Open(t) : (\A i \in 1..k - 1 : i \notin Open(t)) =>
                 1 \in DOMAIN evidence /\ evidence[1] = Brings(t, k)
<1> DEFINE S == {Brings(t, j) : j \in Open(t)}
           n == Len(PlanOf(t))
<1>1. /\ service = t.case.template.service /\ plan = PlanOf(t)
      /\ evidence = Gathered(t, Taken) /\ Taken = Len(plan)
  BY DEF Tracks, Early, Later
<1>2. evidence = Gathered(t, n) /\ Brought(t, n)
  BY <1>1, BroughtAll
<1>3. PICK ev : ev = evidence
  OBVIOUS
<1>4. /\ ev \in Seq(S)
      /\ \A j \in 1..n : Available(t, j) => \E i \in DOMAIN ev : ev[i] = Brings(t, j)
      /\ \A j \in 1..n : Available(t, j) /\ (\A i \in 1..j - 1 : ~Available(t, i)) =>
            ev # <<>> /\ ev[1] = Brings(t, j)
  BY <1>2, <1>3 DEF Brought
<1>5. \A k : k \in Open(t) <=> k \in 1..n /\ Available(t, k)
  BY DEF Open
<1>6. \A i \in DOMAIN ev : ev[i] \in S
  <2> HIDE DEF S
  <2> QED BY <1>4
<1>7. \A i \in DOMAIN ev : \E k \in Open(t) : ev[i] = Brings(t, k)
  BY <1>6
<1>8. ev # <<>> => 1 \in DOMAIN ev
  <2> HIDE DEF S
  <2> QED BY <1>4
<1>9. PICK l \in 1..4 : l = n
  BY TurnInputs
<1>10. ASSUME NEW k \in Open(t), \A i \in 1..k - 1 : i \notin Open(t)
       PROVE  1 \in DOMAIN ev /\ ev[1] = Brings(t, k)
  <2>1. k \in 1..l /\ Available(t, k)
    BY <1>5, <1>9
  <2>2. \A i \in 1..k - 1 : i \in 1..l
    BY <2>1
  <2>3. \A i \in 1..k - 1 : ~Available(t, i)
    BY <1>5, <1>9, <1>10, <2>2
  <2> QED BY <1>4, <1>8, <1>9, <2>1, <2>3
<1> QED BY <1>1, <1>3, <1>4, <1>5, <1>7, <1>10

\* A cause is as strong as the strongest voice of the turn that speaks for it.
LEMMA TurnStrength ==
    ASSUME NEW t \in TurnSet, Tracks(t), node \in Later, Collected, NEW c
    PROVE  /\ Strength(c) \in 0..3
           /\ Strength(c) # 0 => Speaks(t, c, Strength(c))
           /\ \A w : Speaks(t, c, w) => w <= Strength(c)
<1>1. Strength(c) \in 0..3
  BY StrengthOf
<1>2. \A h : h \in Suggestions <=>
          \E i \in DOMAIN evidence : \E j \in DOMAIN Suggested(evidence[i]) :
              h = Suggested(evidence[i])[j]
  BY DEF Suggestions, ToSet
<1>3. ASSUME NEW w
      PROVE  (\E h \in Suggestions : h.cause = c /\ w = Weight[h.confidence]) <=> Speaks(t, c, w)
  <2>1. (\E h \in Suggestions : h.cause = c /\ w = Weight[h.confidence]) <=>
            \E i \in DOMAIN evidence : Heard(Suggested(evidence[i]), c, w)
    BY <1>2 DEF Heard
  <2>2. (\E i \in DOMAIN evidence : Heard(Suggested(evidence[i]), c, w)) <=>
            \E k \in Open(t) : Heard(Suggested(Brings(t, k)), c, w)
    BY TurnEvidence
  <2>3. \A k \in Open(t) : Heard(Suggested(Brings(t, k)), c, w) <=> Voice(t, k, c, w)
    BY TurnEvidence, HeardStep DEF Open
  <2> QED BY <2>1, <2>2, <2>3 DEF Speaks
<1>4. /\ \A h \in Suggestions : h.cause = c => Weight[h.confidence] <= Strength(c)
      /\ Strength(c) # 0 => \E h \in Suggestions : h.cause = c /\ Weight[h.confidence] = Strength(c)
  BY StrengthFrom
<1> QED BY <1>1, <1>3, <1>4

\* The first voice in the first item is the first suggestion.
LEMMA FirstVoice ==
    ASSUME Collected, 1 \in DOMAIN evidence, 1 \in DOMAIN Suggested(evidence[1])
    PROVE  SuggestedList # <<>> /\ SuggestedList[1] = Suggested(evidence[1])[1]
<1> DEFINE ss == [i \in DOMAIN evidence |-> Suggested(evidence[i])]
           n == Len(evidence)
           sl == Flattened(ss)
<1>1. DOMAIN evidence = 1..n /\ n \in Nat /\ \A i \in 1..n : evidence[i] \in Item
  BY DEF Collected
<1>2. ss \in Seq(Seq(Hypotheses)) /\ DOMAIN ss = 1..n
  <2>1. \A i \in 1..n : Suggested(evidence[i]) \in Seq(Hypotheses)
    BY <1>1, SuggestedOf
  <2>2. ss = [i \in 1..n |-> Suggested(evidence[i])]
    BY <1>1
  <2> QED BY <1>1, <2>1, <2>2
<1>3. ss[1] = Suggested(evidence[1]) /\ 1 \in DOMAIN ss
  OBVIOUS
<1>4. SuggestedList = sl
  BY DEF SuggestedList
<1>5. ss[1] \in Seq(Hypotheses) /\ \A i \in DOMAIN ss : DOMAIN ss[i] \subseteq Nat \ {0}
  <2> HIDE DEF ss
  <2>1. \A i \in DOMAIN ss : ss[i] \in Seq(Hypotheses)
    BY <1>2
  <2> QED BY <1>3, <2>1
<1> HIDE DEF ss
<1>6. sl \in Seq(Hypotheses) /\ \E p : Lines(sl, ss, p)
  BY <1>2, FlattenedListed
<1> HIDE DEF sl
<1>7. PICK p : Lines(sl, ss, p)
  BY <1>6
<1>8. PICK k \in DOMAIN sl : p[k] = <<1, 1>>
  BY <1>3, <1>7 DEF Lines
<1>9. DOMAIN sl = 1..Len(sl) /\ Len(sl) \in Nat
  BY <1>6
<1>10. k = 1
  <2> SUFFICES ASSUME k # 1 PROVE FALSE
    OBVIOUS
  <2>1. 1 \in DOMAIN sl /\ 1 < k
    BY <1>8, <1>9
  <2>2. p[1][1] \in DOMAIN ss /\ p[1][2] \in DOMAIN ss[p[1][1]]
    BY <1>7, <2>1 DEF Lines
  <2>3. p[1][1] \in Nat \ {0} /\ p[1][2] \in Nat \ {0}
    BY <1>1, <1>2, <1>5, <2>2
  <2>4. p[1][1] < p[k][1] \/ (p[1][1] = p[k][1] /\ p[1][2] < p[k][2])
    BY <1>7, <1>8, <2>1 DEF Lines
  <2>5. p[k][1] = 1 /\ p[k][2] = 1
    BY <1>8
  <2> QED BY <2>3, <2>4, <2>5
<1>11. sl[1] = ss[1][1]
  <2>1. sl[k] = ss[p[k][1]][p[k][2]]
    BY <1>7, <1>8 DEF Lines
  <2> QED BY <1>8, <1>10, <2>1
<1>12. sl # <<>>
  BY <1>8, <1>9
<1> QED BY <1>3, <1>4, <1>11, <1>12

-----------------------------------------------------------------------------
(* Disturbances mislead nobody.                                            *)

\* A case of a turn has a row of the table, and tools of its own fault.
LEMMA TurnTable ==
    ASSUME NEW t \in TurnSet, t.agent # "fallback"
    PROVE  TemplateTable(t.case.template) /\ Scenario(t) = t.case.template.fault
<1>1. t.case.template \in ToSet(Templates)
  BY DEF TurnSet, CaseSet
<1> QED BY <1>1, TemplatesListed, TemplateRows DEF Scenario

\* Only the fault that a deployment caused shows a faulty one.
LEMMA FaultyRelease == \A c, f : ReleaseIn(c, f) = "faulty" => f = "deployment-npe"
<1> SUFFICES ASSUME NEW c, NEW f, f # "deployment-npe" PROVE ReleaseIn(c, f) # "faulty"
  OBVIOUS
<1>1. CASE "deploy" \in c.disturbed
  BY <1>1, Zenon DEF ReleaseIn
<1>2. CASE "deploy" \notin c.disturbed
  BY <1>2, Zenon DEF ReleaseIn
<1> QED BY <1>1, <1>2

\* What a turn can speak for.
LEMMA TurnVoices ==
    ASSUME NEW t \in TurnSet, t.agent # "fallback", NEW c, NEW w, Speaks(t, c, w)
    PROVE  LET x == t.case.template
           IN  /\ c # x.forbidden
               /\ \/ w = 1 \/ c = x.expected \/ c = Spike
                  \/ x.fault = "mysql-slow-query" /\ c = Pool
                  \/ x.fault = "http-connection-pool" /\ c = Downstream /\ w = 2
<1> DEFINE x == t.case.template
<1>1. TemplateTable(x) /\ Scenario(t) = x.fault
  BY TurnTable
<1>2. PICK k \in 1..Len(PlanOf(t)) : Voice(t, k, c, w)
  BY DEF Speaks, Open
<1>3. PlanOf(t)[k].tool \in {"query_logs", "query_metrics", "query_deployments"}
  BY PlanTools, TurnInputs DEF PlanOf
<1>4. CASE PlanOf(t)[k].tool = "query_logs"
  <2>1. LogVoice(x.fault, c, w)
    BY <1>1, <1>2, <1>4, Zenon DEF Voice
  <2> QED BY <1>1, <2>1, OnlyVoices
<1>5. CASE PlanOf(t)[k].tool = "query_metrics"
  <2>1. MetricVoice(x.service, PlanOf(t)[k].metric, x.fault, c, w)
    BY <1>1, <1>2, <1>5, Zenon DEF Voice
  <2> QED BY <1>1, <2>1, OnlyVoices
<1>6. CASE PlanOf(t)[k].tool = "query_deployments"
  <2>1. ReleaseVoice(t.case, x.fault, c, w)
    BY <1>1, <1>2, <1>6, Zenon DEF Voice
  <2>2. c = Regression /\ (w = 1 \/ x.fault = "deployment-npe")
    BY <2>1, FaultyRelease DEF ReleaseVoice
  <2> QED BY <1>1, <2>2, OnlyVoices
<1> QED BY <1>3, <1>4, <1>5, <1>6

\* The steps of the plans.
LEMMA StepParts ==
    /\ Logs.tool = "query_logs" /\ Deployments.tool = "query_deployments"
    /\ \A m : Measure(m).tool = "query_metrics" /\ Measure(m).metric = m
BY DEF Logs, Deployments, Measure

\* The plan for a high latency.
LEMMA LatencyPlan ==
    LET p == PlanFor["P95_LATENCY_HIGH"]
    IN  /\ Len(p) = 4
        /\ p[1] = Measure("latency_p95") /\ p[2] = Measure("db_pool_active_ratio")
        /\ p[3] = Logs /\ p[4] = Deployments
BY DEF PlanFor

\* The first log rule that matches leads what the logs suggest.
LEMMA SlowFirst ==
    ASSUME NEW e, "slow" \in e.patterns
    PROVE  1 \in DOMAIN FromLogs(e) /\ FromLogs(e)[1].cause = Slow
<1> DEFINE P == {i \in DOMAIN LogRules : LogRules[i].pattern \in e.patterns}
           hits == At(LogRules, P)
           Rules == [pattern : Pattern, cause : Cause \ {"UNKNOWN"}, confidence : Confidence]
<1>1. LogRules \in Seq(Rules) /\ P \in SUBSET DOMAIN LogRules
  BY LogRulesOf
<1>2. 1..1 \subseteq P
  <2>1. 1 \in DOMAIN LogRules /\ LogRules[1].pattern = "slow"
    BY LogRuleRows, RuleParts
  <2> QED BY <2>1
<1> HIDE DEF Rules
<1>3. FromLogs(e) = [i \in DOMAIN hits |-> Hypothesis(hits[i].cause, hits[i].confidence, {e.id})]
  BY DEF FromLogs
<1> HIDE DEF P
<1>4. hits \in Seq(Rules)
  BY <1>1, AtListed
<1>5. 1 <= Len(hits) /\ hits[1] = LogRules[1]
  BY <1>1, <1>2, PrefixKept
<1> HIDE DEF hits
<1>6. 1 \in DOMAIN hits
  BY <1>4, <1>5
<1>7. FromLogs(e)[1].cause = hits[1].cause
  BY <1>3, <1>6 DEF Hypothesis
<1>8. hits[1].cause = Slow
  BY <1>5, LogRuleRows, RuleParts
<1> QED BY <1>3, <1>6, <1>7, <1>8

\* A slow query exhausts the pool in its logs only: either the pool is measured
\* and refutes it, or the logs come first and lead with the query.
LEMMA SlowLeadsPool ==
    ASSUME NEW t \in TurnSet, t.agent # "fallback", Tracks(t), node \in Later,
           Collected, Headed(hypotheses),
           t.case.template.fault = "mysql-slow-query", hypotheses[1].cause = Pool,
           Strength(Pool) # 0
    PROVE  PoolIsLow(evidence)
<1> DEFINE f == "mysql-slow-query"
           x == t.case.template
           p == PlanOf(t)
<1>1. Scenario(t) = f /\ x.alert = "P95_LATENCY_HIGH"
  BY TurnTable DEF TemplateTable, Row
<1>2. /\ Len(p) = 4 /\ p[1] = Measure("latency_p95") /\ p[2] = Measure("db_pool_active_ratio")
      /\ p[3] = Logs /\ p[4] = Deployments
  BY <1>1, LatencyPlan DEF PlanOf
<1>3. /\ p[1].tool = "query_metrics" /\ p[2].tool = "query_metrics"
      /\ p[2].metric = "db_pool_active_ratio"
      /\ p[3].tool = "query_logs" /\ p[4].tool = "query_deployments"
  BY <1>2, StepParts
<1> HIDE DEF p
<1>4. CASE 2 \in Open(t)
  <2>1. PICK i \in DOMAIN evidence : evidence[i] = Brings(t, 2)
    BY <1>4, TurnEvidence
  <2>2. Brings(t, 2) = Answer(t.case, f, p[2], 2 + 1)
    BY <1>1 DEF Brings, p
  <2>3. /\ Brings(t, 2).tool = "query_metrics" /\ Brings(t, 2).metric = "db_pool_active_ratio"
        /\ Brings(t, 2).level = LevelIn(f, "db_pool_active_ratio")
    BY <1>3, <2>2, AnswerOf
  <2>4. LevelIn(f, "db_pool_active_ratio") = "low"
    BY DEF LevelIn, MetricsScenario
  <2> QED BY <2>1, <2>3, <2>4 DEF PoolIsLow
<1>5. CASE 2 \notin Open(t)
  <2>1. 1 \notin Open(t)
    BY <1>2, <1>3, <1>5 DEF Open, Available, p
  <2>2. PICK k \in Open(t) : Voice(t, k, Pool, Strength(Pool))
    BY TurnStrength DEF Speaks
  <2>3. k \in 1..4 /\ k # 1 /\ k # 2
    BY <1>2, <1>5, <2>1 DEF Open, p
  <2>4. k # 4
    <3> SUFFICES ASSUME k = 4 PROVE FALSE
      OBVIOUS
    <3>1. ReleaseVoice(t.case, Scenario(t), Pool, Strength(Pool))
      BY <1>3, <2>2, Zenon DEF Voice, p
    <3> QED BY <3>1 DEF ReleaseVoice, Pool, Regression
  <2>5. 3 \in Open(t)
    BY <2>2, <2>3, <2>4
  <2>6. \A i \in 1..3 - 1 : i \notin Open(t)
    BY <1>5, <2>1
  <2>7. 1 \in DOMAIN evidence /\ evidence[1] = Brings(t, 3)
    BY <2>5, <2>6, TurnEvidence
  <2>8. evidence[1] = Answer(t.case, f, p[3], 3 + 1)
    BY <1>1, <2>7 DEF Brings, p
  <2>9. evidence[1].tool = "query_logs" /\ evidence[1].patterns = MessagesIn(f)
    BY <1>3, <2>8, AnswerOf
  <2>10. Suggested(evidence[1]) = FromLogs(evidence[1])
    BY <2>9, Zenon DEF Suggested
  <2>11. "slow" \in MessagesIn(f)
    BY DEF MessagesIn, Pattern, LogScenario
  <2>12. 1 \in DOMAIN Suggested(evidence[1]) /\ Suggested(evidence[1])[1].cause = Slow
    BY <2>9, <2>10, <2>11, SlowFirst
  <2>13. SuggestedList # <<>> /\ SuggestedList[1].cause = Slow
    BY <2>7, <2>12, FirstVoice
  <2>14. LogVoice(f, Slow, 3)
    BY LogVoiceOf DEF LogScenario
  <2>15. Voice(t, 3, Slow, 3)
    BY <1>1, <1>3, <2>14, Zenon DEF Voice, p
  <2>16. Strength(Slow) \in 0..3 /\ 3 <= Strength(Slow)
    BY <2>5, <2>15, TurnStrength DEF Speaks
  <2>17. Slow # Pool
    BY DEF Slow, Pool
  <2>18. Proposed(Slow)
    BY <2>16, <2>17 DEF Proposed
  <2>19. \A c : Strength(c) \in 0..3
    BY TurnStrength
  <2>20. \A c : Strength(c) <= Strength(Slow)
    BY <2>16, <2>19
  <2>21. hypotheses[1].cause = Slow
    BY <2>13, <2>18, <2>20 DEF Headed
  <2> QED BY <2>17, <2>21
<1> QED BY <1>4, <1>5

\* The exhausted pool of connections is stronger than the failing service that
\* its logs show too.
LEMMA ResourceLeads ==
    ASSUME NEW t \in TurnSet, t.agent # "fallback", Tracks(t), node \in Later,
           Collected, Headed(hypotheses),
           t.case.template.fault = "http-connection-pool", Strength(Downstream) # 0
    PROVE  hypotheses[1].cause # Downstream
<1> DEFINE f == "http-connection-pool"
<1>1. Scenario(t) = f
  BY TurnTable
<1>2. PICK k \in Open(t) : Voice(t, k, Downstream, Strength(Downstream))
  BY TurnStrength DEF Speaks
<1>3. k \in 1..Len(PlanOf(t))
  BY <1>2 DEF Open
<1>4. PlanOf(t)[k].tool \in {"query_logs", "query_metrics", "query_deployments"}
  BY <1>3, PlanTools, TurnInputs DEF PlanOf
<1>5. PlanOf(t)[k].tool # "query_metrics"
  <2> SUFFICES ASSUME PlanOf(t)[k].tool = "query_metrics" PROVE FALSE
    OBVIOUS
  <2>1. MetricVoice(t.case.template.service, PlanOf(t)[k].metric, f, Downstream, Strength(Downstream))
    BY <1>1, <1>2, Zenon DEF Voice
  <2> QED BY <2>1, MetricVoiceOf DEF MetricsScenario
<1>6. PlanOf(t)[k].tool # "query_deployments"
  <2> SUFFICES ASSUME PlanOf(t)[k].tool = "query_deployments" PROVE FALSE
    OBVIOUS
  <2>1. ReleaseVoice(t.case, f, Downstream, Strength(Downstream))
    BY <1>1, <1>2, Zenon DEF Voice
  <2> QED BY <2>1 DEF ReleaseVoice, Downstream, Regression
<1>7. PlanOf(t)[k].tool = "query_logs"
  BY <1>4, <1>5, <1>6
<1>8. LogVoice(f, Downstream, Strength(Downstream)) /\ LogVoice(f, Resource, 3)
  <2>1. LogVoice(f, Downstream, Strength(Downstream))
    BY <1>1, <1>2, <1>7, Zenon DEF Voice
  <2> QED BY <2>1, LogVoiceOf DEF LogScenario
<1>9. Strength(Downstream) = 2
  BY <1>8, LogVoiceOf DEF LogScenario, Slow, Pool, Redis, Downstream, Resource, Spike, Regression
<1>10. Voice(t, k, Resource, 3)
  BY <1>1, <1>7, <1>8, Zenon DEF Voice
<1>11. Strength(Resource) \in 0..3 /\ 3 <= Strength(Resource)
  BY <1>10, TurnStrength DEF Speaks
<1>12. Proposed(Resource)
  BY <1>11 DEF Proposed, Resource, Pool
<1>13. Strength(Resource) <= Strength(hypotheses[1].cause)
  BY <1>12 DEF Headed
<1> QED BY <1>9, <1>11, <1>13

\* What the invariants say when a turn ends.
LEMMA TurnEnds ==
    ASSUME HeadInv, NEW t \in TurnSet, Tracks(t), node = "done"
    PROVE  /\ Collected /\ Headed(hypotheses) /\ ListOK(hypotheses) /\ Argued(hypotheses)
           /\ 1 \in DOMAIN hypotheses
           /\ report \in {"DIAGNOSED", "INCONCLUSIVE"}
           /\ report = "DIAGNOSED" <=> Backed(hypotheses[1]) /\ hypotheses[1].confidence # "LOW"
<1>1. report = DetermineStatus(hypotheses, evidence)
  BY DEF Tracks
<1>2. report \in {"DIAGNOSED", "INCONCLUSIVE"}
  BY <1>1 DEF DetermineStatus
<1>3. RuleInv /\ Headed(hypotheses) /\ hypotheses # <<>>
  BY DEF HeadInv, Headed
<1> QED BY <1>2, <1>3, RuleReportFacts

\* A turn whose agent has the tools of the case misleads nobody.
LEMMA ScoreSound ==
    ASSUME HeadInv, NEW t \in TurnSet, t = Current, Tracks(t), node = "done",
           t.agent # "fallback"
    PROVE  /\ ~Violates(Score)
           /\ Top1(Score) \/ Score.status = "INCONCLUSIVE" \/ SymptomAsCause(Score)
<1> DEFINE x == t.case.template
           top == hypotheses[1]
<1>1. /\ Collected /\ Headed(hypotheses) /\ 1 \in DOMAIN hypotheses
      /\ report \in {"DIAGNOSED", "INCONCLUSIVE"} /\ node \in Later
      /\ hypotheses \in Seq(Hypotheses)
  BY TurnEnds DEF Later, ListOK
<1>2. /\ Score.case.template = x /\ Score.status = report
      /\ Score.causes = [i \in DOMAIN hypotheses |-> hypotheses[i].cause]
  BY DEF Score
<1>3. TemplateTable(x)
  BY TurnTable
<1>4. ~Violates(Score)
  <2> SUFFICES ASSUME NEW k \in DOMAIN hypotheses, hypotheses[k].cause = x.forbidden PROVE FALSE
    BY <1>2 DEF Violates, ToSet
  <2>1. hypotheses[k].cause # "UNKNOWN"
    BY <1>3 DEF TemplateTable, Row, Redis, Slow
  <2>2. Strength(hypotheses[k].cause) # 0
    BY <1>1, <2>1 DEF Headed
  <2>3. Speaks(t, x.forbidden, Strength(x.forbidden))
    BY <1>1, <2>2, TurnStrength
  <2> QED BY <2>3, TurnVoices
<1>5. ASSUME report = "DIAGNOSED"
      PROVE  top.cause = x.expected \/ top.cause = Spike
  <2>1. /\ Strength(top.cause) >= 2 /\ ~Refuted(top.cause)
    BY <1>5, DiagnosisFacts DEF DiagnosisIsSupported, Weight, HeadInv
  <2>2. Strength(top.cause) \in 0..3
    BY <1>1, TurnStrength
  <2>3. Strength(top.cause) # 0 /\ Strength(top.cause) # 1
    BY <2>1, <2>2
  <2>4. Speaks(t, top.cause, Strength(top.cause))
    BY <1>1, <2>3, TurnStrength
  <2>5. \/ top.cause = x.expected \/ top.cause = Spike
        \/ x.fault = "mysql-slow-query" /\ top.cause = Pool
        \/ x.fault = "http-connection-pool" /\ top.cause = Downstream
    BY <2>3, <2>4, TurnVoices
  <2>6. CASE x.fault = "mysql-slow-query" /\ top.cause = Pool
    <3>1. PoolIsLow(evidence)
      BY <1>1, <2>3, <2>6, SlowLeadsPool
    <3> QED BY <2>1, <2>6, <3>1 DEF Refuted
  <2>7. CASE x.fault = "http-connection-pool" /\ top.cause = Downstream
    BY <1>1, <2>3, <2>7, ResourceLeads
  <2> QED BY <2>5, <2>6, <2>7
<1>6. 1 \in DOMAIN Score.causes /\ Score.causes[1] = top.cause /\ Score.causes # <<>>
  <2>1. 1 \in DOMAIN Score.causes /\ Score.causes[1] = top.cause
    BY <1>1, <1>2
  <2>2. ASSUME Score.causes = <<>> PROVE FALSE
    <3>1. DOMAIN Score.causes = {}
      BY <2>2
    <3> QED BY <2>1, <3>1
  <2> QED BY <2>1, <2>2
<1> QED BY <1>1, <1>2, <1>4, <1>5, <1>6 DEF Top1, SymptomAsCause

\* A score is an old one or that of the turn that has just ended.
LEMMA ScoreAdded ==
    ASSUME EvalInv, [EvalNext]_<<vars, evalVars>>, NEW n \in DOMAIN scores'
    PROVE  \/ n \in DOMAIN scores /\ scores'[n] = scores[n]
           \/ /\ scores'[n] = Score
              /\ Current \in TurnSet /\ HeadInv /\ Tracks(Current) /\ node = "done"
<1>1. CASE UNCHANGED scores
  BY <1>1
<1>2. CASE ScoreReport
  <2>1. Diagnosing /\ node = "done" /\ scores' = Append(scores, Score)
    BY <1>2 DEF ScoreReport
  <2>2. HeadInv /\ Iterating /\ Tracks(Current)
    BY <2>1 DEF EvalInv
  <2>3. /\ Turns \in Nat /\ Len(scores) \in Nat /\ DOMAIN scores = 1..Len(scores)
    BY <2>2, TurnOf, ScoresListed
  <2>4. Current \in TurnSet
    <3>1. Len(scores) + 1 \in 1..Turns
      BY <2>1, <2>3 DEF Diagnosing
    <3> QED BY <2>2, <3>1, TurnOf DEF Current
  <2>5. PICK s : s = Score
    OBVIOUS
  <2>6. (n \in DOMAIN scores /\ scores'[n] = scores[n]) \/ scores'[n] = s
    <3>1. scores' = Append(scores, s)
      BY <2>1, <2>5
    <3> QED BY <2>3, <3>1
  <2> QED BY <2>1, <2>2, <2>4, <2>5, <2>6
<1> QED BY <1>1, <1>2 DEF EvalNext, CallFakeTool, VerifyFresh, RunNode, Summarize, evalVars

\* Whatever disturbs the cases, and however many tools are out, no diagnosis
\* lists the forbidden cause, and a wrong one is flagged as a symptom.
THEOREM DisturbanceCorrect == EvalSpec => []DisturbanceNeverMisleads
<1>1. EvalInit => DisturbanceNeverMisleads
  <2> SUFFICES ASSUME EvalInit PROVE DOMAIN scores = {}
    BY DEF DisturbanceNeverMisleads
  <2>1. scores = <<>>
    BY DEF EvalInit
  <2> QED BY <2>1
<1>2. EvalInv /\ DisturbanceNeverMisleads /\ [EvalNext]_<<vars, evalVars>>
      => DisturbanceNeverMisleads'
  <2> SUFFICES ASSUME EvalInv, DisturbanceNeverMisleads, [EvalNext]_<<vars, evalVars>>,
                      NEW n \in DOMAIN scores', NEW s, s = scores'[n], s.agent # "fallback"
               PROVE  /\ ~Violates(s)
                      /\ Top1(s) \/ s.status = "INCONCLUSIVE" \/ SymptomAsCause(s)
    BY DEF DisturbanceNeverMisleads
  <2>1. CASE n \in DOMAIN scores /\ s = scores[n]
    BY <2>1 DEF DisturbanceNeverMisleads
  <2>2. CASE s = Score /\ Current \in TurnSet /\ HeadInv /\ Tracks(Current) /\ node = "done"
    <3>1. PICK t \in TurnSet : t = Current
      BY <2>2
    <3>2. t.agent # "fallback" /\ Tracks(t)
      BY <2>2, <3>1 DEF Score
    <3>3. /\ ~Violates(Score)
          /\ Top1(Score) \/ Score.status = "INCONCLUSIVE" \/ SymptomAsCause(Score)
      BY <2>2, <3>1, <3>2, ScoreSound
    <3> QED BY <2>2, <3>3
  <2> QED BY <2>1, <2>2, ScoreAdded
<1> QED BY <1>1, <1>2, EvalCorrect, PTL DEF EvalSpec

-----------------------------------------------------------------------------
(* The cases of the dataset are diagnosed right.                           *)

\* What disturbs a case leaves the tool that shows its fault best.
Shows(f, d) ==
    /\ f = "downstream-payment-timeout" => "query_metrics" \notin d
    /\ f = "deployment-npe" => "query_deployments" \notin d
    /\ f \notin {"downstream-payment-timeout", "deployment-npe"} => "query_logs" \notin d

\* No variant of a template takes that tool away.
LEMMA VariantShows ==
    \A i \in 1..12, v \in 1..4 :
        Shows(Templates[i].fault, {Templates[i].variants[v]} \ {"clean"})
<1>1. ASSUME NEW f, NEW s, NEW a, NEW e, NEW x, NEW y, NEW z, NEW v \in 1..4,
             Shows(f, {"noisy", y, z})
      PROVE  Shows(Template(f, s, a, e, x, y, z).fault,
                   {Template(f, s, a, e, x, y, z).variants[v]} \ {"clean"})
  <2> DEFINE t == Template(f, s, a, e, x, y, z)
             w == t.variants
  <2>1. t.fault = f /\ w[1] = "clean" /\ w[2] = "noisy" /\ w[3] = y /\ w[4] = z
    BY TemplateOf
  <2> HIDE DEF t, w
  <2>2. v = 1 \/ v = 2 \/ v = 3 \/ v = 4
    OBVIOUS
  <2>3. {w[v]} \ {"clean"} \subseteq {"noisy", y, z}
    BY <2>1, <2>2
  <2>4. Shows(f, {w[v]} \ {"clean"})
    BY <1>1, <2>3 DEF Shows
  <2> QED BY <2>1, <2>4 DEF t, w
<1> SUFFICES ASSUME NEW i \in 1..12, NEW v \in 1..4
             PROVE  Shows(Templates[i].fault, {Templates[i].variants[v]} \ {"clean"})
  OBVIOUS
<1>2. /\ Shows("mysql-slow-query", {"noisy", "deploy", "search_runbooks"})
      /\ Shows("mysql-connection-pool", {"noisy", "deploy", "wrong runbook"})
      /\ Shows("redis-timeout", {"noisy", "query_deployments", "deploy"})
      /\ Shows("redis-hot-key", {"noisy", "wrong runbook", "search_runbooks"})
      /\ Shows("downstream-payment-timeout", {"noisy", "deploy", "query_logs"})
      /\ Shows("downstream-payment-5xx", {"noisy", "deploy", "wrong runbook"})
      /\ Shows("http-connection-pool", {"noisy", "query_metrics", "deploy"})
      /\ Shows("thread-pool-full", {"noisy", "wrong runbook", "search_runbooks"})
      /\ Shows("config-error", {"noisy", "deploy", "query_deployments"})
      /\ Shows("deployment-npe", {"noisy", "wrong runbook", "query_logs"})
      /\ Shows("rate-limit-triggered", {"noisy", "deploy", "query_metrics"})
      /\ Shows("mq-consumer-lag", {"noisy", "wrong runbook", "search_runbooks"})
  BY DEF Shows
<1>3. CASE i = 1
  BY <1>1, <1>2, <1>3 DEF Templates
<1>4. CASE i = 2
  BY <1>1, <1>2, <1>4 DEF Templates
<1>5. CASE i = 3
  BY <1>1, <1>2, <1>5 DEF Templates
<1>6. CASE i = 4
  BY <1>1, <1>2, <1>6 DEF Templates
<1>7. CASE i = 5
  BY <1>1, <1>2, <1>7 DEF Templates
<1>8. CASE i = 6
  BY <1>1, <1>2, <1>8 DEF Templates
<1>9. CASE i = 7
  BY <1>1, <1>2, <1>9 DEF Templates
<1>10. CASE i = 8
  BY <1>1, <1>2, <1>10 DEF Templates
<1>11. CASE i = 9
  BY <1>1, <1>2, <1>11 DEF Templates
<1>12. CASE i = 10
  BY <1>1, <1>2, <1>12 DEF Templates
<1>13. CASE i = 11
  BY <1>1, <1>2, <1>13 DEF Templates
<1>14. CASE i = 12
  BY <1>1, <1>2, <1>14 DEF Templates
<1> QED BY <1>3, <1>4, <1>5, <1>6, <1>7, <1>8, <1>9, <1>10, <1>11, <1>12, <1>13, <1>14

\* So no case of the dataset is without it.
LEMMA DatasetShows ==
    \A c \in ToSet(Dataset) : Shows(c.template.fault, c.disturbed)
<1> SUFFICES ASSUME NEW n \in 1..48 PROVE Shows(Dataset[n].template.fault, Dataset[n].disturbed)
  <2>1. DOMAIN Dataset = 1..48
    <3>1. Dataset \in Seq(CaseSet) /\ Len(Dataset) = 48
      BY DatasetOf, Zenon
    <3>2. DOMAIN Dataset = 1..Len(Dataset)
      BY <3>1, Positions, Zenon
    <3> QED BY <3>1, <3>2, Zenon
  <2>2. ToSet(Dataset) = {Dataset[n] : n \in 1..48}
    BY <2>1 DEF ToSet
  <2> QED BY <2>2
<1>1. PICK i \in 1..12, v \in 1..4 :
          Dataset[n] = Case(Templates[i], {Templates[i].variants[v]} \ {"clean"})
  <2>1. /\ (n - 1) \div 4 + 1 \in 1..12 /\ ((n - 1) % 4) + 1 \in 1..4
        /\ Dataset[n] = Case(Templates[(n - 1) \div 4 + 1],
                             {Templates[(n - 1) \div 4 + 1].variants[((n - 1) % 4) + 1]} \ {"clean"})
    BY DatasetOf, Zenon
  <2> QED BY <2>1, Zenon
<1>2. /\ Dataset[n].template = Templates[i]
      /\ Dataset[n].disturbed = {Templates[i].variants[v]} \ {"clean"}
  BY <1>1 DEF Case
<1> QED BY <1>2, VariantShows

\* Every plan looks at the logs, and first of all when errors are many; the
\* plan for a high latency measures it.
LEMMA LogsPlanned ==
    \A a \in Alert : \E k \in 1..Len(PlanFor[a]) :
        PlanFor[a][k].tool = "query_logs" /\ (a = "ERROR_RATE_HIGH" => k = 1)
<1>1. /\ PlanFor["P95_LATENCY_HIGH"][3] = Logs /\ Len(PlanFor["P95_LATENCY_HIGH"]) = 4
      /\ PlanFor["ERROR_RATE_HIGH"][1] = Logs /\ Len(PlanFor["ERROR_RATE_HIGH"]) = 3
      /\ PlanFor["THROUGHPUT_LOW"][2] = Logs /\ Len(PlanFor["THROUGHPUT_LOW"]) = 3
      /\ PlanFor["MQ_LAG_HIGH"][2] = Logs /\ Len(PlanFor["MQ_LAG_HIGH"]) = 2
  BY DEF PlanFor
<1>2. Logs.tool = "query_logs"
  BY StepParts
<1> QED BY <1>1, <1>2 DEF Alert

\* The plan for many errors ends with the deployments.
LEMMA DeploymentsPlanned ==
    Len(PlanFor["ERROR_RATE_HIGH"]) = 3 /\ PlanFor["ERROR_RATE_HIGH"][3] = Deployments
BY DEF PlanFor

\* The faults that the rules take for certain at no source of their evidence.
Doubtful == {"redis-timeout", "redis-hot-key", "downstream-payment-timeout",
             "downstream-payment-5xx"}

\* What the messages of a fault speak for.
LEMMA ExpectedInLogs ==
    ASSUME NEW x, TemplateTable(x), x.fault # "deployment-npe"
    PROVE  \/ x.fault \notin Doubtful /\ LogVoice(x.fault, x.expected, 3)
           \/ x.fault \in Doubtful /\ LogVoice(x.fault, x.expected, 2)
<1>1. \/ x.fault = "mysql-slow-query" /\ x.expected = Slow
      \/ x.fault = "mysql-connection-pool" /\ x.expected = Pool
      \/ x.fault \in {"redis-timeout", "redis-hot-key"} /\ x.expected = Redis
      \/ /\ x.fault \in {"downstream-payment-timeout", "downstream-payment-5xx"}
         /\ x.expected = Downstream
      \/ /\ x.fault \in {"http-connection-pool", "thread-pool-full", "rate-limit-triggered"}
         /\ x.expected = Resource
      \/ x.fault = "config-error" /\ x.expected = Spike
      \/ x.fault = "mq-consumer-lag" /\ x.expected = "MQ_CONSUMER_ERROR"
  BY DEF TemplateTable, Row
<1> QED BY <1>1, LogVoiceOf DEF LogScenario, Doubtful

\* A turn that has the tool hears the expected cause with more than a low
\* confidence, and with a high one unless its fault is doubtful.
LEMMA ExpectedSpeaks ==
    ASSUME NEW t \in TurnSet, t.agent # "fallback",
           Shows(t.case.template.fault, t.case.disturbed)
    PROVE  LET x == t.case.template
           IN  \E w \in {2, 3} : /\ Speaks(t, x.expected, w)
                                 /\ x.fault \notin Doubtful => w = 3
<1> DEFINE x == t.case.template
           f == x.fault
<1>1. TemplateTable(x) /\ Scenario(t) = f /\ x.alert \in Alert
  BY TurnTable, TurnInputs
<1>2. \A k \in 1..Len(PlanOf(t)) : PlanOf(t)[k].tool \notin t.case.disturbed => k \in Open(t)
  BY DEF Open, Available, Unavailable
<1>3. CASE f \notin {"downstream-payment-timeout", "deployment-npe"}
  <2>1. PICK k \in 1..Len(PlanOf(t)) : PlanOf(t)[k].tool = "query_logs"
    BY <1>1, LogsPlanned DEF PlanOf
  <2>2. k \in Open(t)
    BY <1>2, <1>3, <2>1 DEF Shows
  <2>3. PICK w \in {2, 3} : LogVoice(f, x.expected, w) /\ (f \notin Doubtful => w = 3)
    BY <1>1, <1>3, ExpectedInLogs
  <2>4. Voice(t, k, x.expected, w)
    BY <1>1, <2>1, <2>3, Zenon DEF Voice
  <2> QED BY <2>2, <2>3, <2>4 DEF Speaks
<1>4. CASE f = "downstream-payment-timeout"
  <2>1. x.service = "payment" /\ x.alert = "P95_LATENCY_HIGH" /\ x.expected = Downstream
    BY <1>1, <1>4 DEF TemplateTable, Row
  <2>2. PICK k \in 1..Len(PlanOf(t)) : PlanOf(t)[k] = Measure("latency_p95")
    BY <2>1, LatencyPlan DEF PlanOf
  <2>3. PlanOf(t)[k].tool = "query_metrics" /\ PlanOf(t)[k].metric = "latency_p95"
    BY <2>2, StepParts
  <2>4. k \in Open(t)
    BY <1>2, <1>4, <2>3 DEF Shows
  <2>5. LatencyCause["payment"] = Downstream
    BY DEF LatencyCause, Downstream
  <2>6. MetricVoice("payment", "latency_p95", f, Downstream, 2)
    BY <1>4, <2>5, MetricVoiceOf DEF MetricsScenario
  <2>7. Voice(t, k, x.expected, 2)
    BY <1>1, <2>1, <2>3, <2>6, Zenon DEF Voice
  <2> QED BY <1>4, <2>4, <2>7 DEF Speaks, Doubtful
<1>5. CASE f = "deployment-npe"
  <2>1. x.alert = "ERROR_RATE_HIGH" /\ x.expected = Regression
    BY <1>1, <1>5 DEF TemplateTable, Row
  <2>2. 3 \in 1..Len(PlanOf(t)) /\ PlanOf(t)[3].tool = "query_deployments"
    BY <2>1, DeploymentsPlanned, StepParts DEF PlanOf
  <2>3. 3 \in Open(t)
    BY <1>2, <1>5, <2>2 DEF Shows
  <2>4. ReleaseIn(t.case, f) = "faulty"
    BY <1>5, Zenon DEF ReleaseIn
  <2>5. ReleaseVoice(t.case, f, x.expected, 3)
    BY <2>1, <2>4 DEF ReleaseVoice
  <2>6. Voice(t, 3, x.expected, 3)
    BY <1>1, <2>2, <2>5, Zenon DEF Voice
  <2> QED BY <2>3, <2>6 DEF Speaks
<1> QED BY <1>3, <1>4, <1>5

\* A spike of errors that is not the fault itself is no certain cause, and not
\* heard at all where the latency is high and Redis or the payment is slow.
LEMMA SpikeSpeaks ==
    ASSUME NEW t \in TurnSet, t.agent # "fallback", NEW w, Speaks(t, Spike, w),
           t.case.template.expected # Spike
    PROVE  /\ w = 2
           /\ t.case.template.fault \in Doubtful =>
                 t.case.template.fault = "downstream-payment-5xx"
<1> DEFINE x == t.case.template
           f == x.fault
<1>1. TemplateTable(x) /\ Scenario(t) = f
  BY TurnTable
<1>2. PICK k \in 1..Len(PlanOf(t)) : Voice(t, k, Spike, w)
  BY DEF Speaks, Open
<1>3. PlanOf(t)[k].tool \in {"query_logs", "query_metrics", "query_deployments"}
  BY PlanTools, TurnInputs DEF PlanOf
<1>4. /\ Spike # Slow /\ Spike # Pool /\ Spike # Redis /\ Spike # Downstream /\ Spike # Resource
      /\ Spike # "MQ_CONSUMER_ERROR" /\ Spike # Regression
  BY DEF Slow, Pool, Redis, Downstream, Resource, Spike, Regression
<1>5. CASE PlanOf(t)[k].tool = "query_logs"
  <2>1. LogVoice(f, Spike, w)
    BY <1>1, <1>2, <1>5, Zenon DEF Voice
  <2>2. f = "config-error"
    BY <1>4, <2>1, LogVoiceOf DEF LogScenario
  <2>3. x.expected = Spike
    BY <1>1, <2>2 DEF TemplateTable, Row
  <2> QED BY <2>3
<1>6. CASE PlanOf(t)[k].tool = "query_metrics"
  <2>1. MetricVoice(x.service, PlanOf(t)[k].metric, f, Spike, w)
    BY <1>1, <1>2, <1>6, Zenon DEF Voice
  <2>2. LatencyCause["order"] = Slow /\ LatencyCause["inventory"] = Redis
        /\ LatencyCause["payment"] = Downstream
    BY DEF LatencyCause, Slow, Redis, Downstream
  <2>3. w = 2 /\ f \in MetricsScenario["error_rate"]
    BY <1>4, <2>1, <2>2, MetricVoiceOf
  <2> QED BY <2>3 DEF MetricsScenario, Doubtful
<1>7. CASE PlanOf(t)[k].tool = "query_deployments"
  <2>1. ReleaseVoice(t.case, f, Spike, w)
    BY <1>1, <1>2, <1>7, Zenon DEF Voice
  <2> QED BY <1>4, <2>1 DEF ReleaseVoice
<1> QED BY <1>3, <1>5, <1>6, <1>7

\* A failing payment raises the errors too; its logs come first and name it.
LEMMA DownstreamFirst ==
    ASSUME NEW t \in TurnSet, t.agent # "fallback", Tracks(t), node \in Later,
           Collected, Headed(hypotheses),
           t.case.template.fault = "downstream-payment-5xx",
           "query_logs" \notin t.case.disturbed
    PROVE  hypotheses[1].cause = Downstream
<1> DEFINE f == "downstream-payment-5xx"
           x == t.case.template
           e == evidence[1]
<1>1. TemplateTable(x) /\ Scenario(t) = f /\ x.alert = "ERROR_RATE_HIGH" /\ x.expected = Downstream
  BY TurnTable DEF TemplateTable, Row
<1>2. 1 \in 1..Len(PlanOf(t)) /\ PlanOf(t)[1].tool = "query_logs"
  BY <1>1, TurnInputs, LogsPlanned DEF PlanOf
<1>3. 1 \in Open(t)
  BY <1>2 DEF Open, Available, Unavailable
<1>4. 1 \in DOMAIN evidence /\ e = Brings(t, 1)
  <2>1. \A i \in 1..1 - 1 : i \notin Open(t)
    OBVIOUS
  <2> QED BY <1>3, <2>1, TurnEvidence
<1>5. e.tool = "query_logs" /\ e.patterns = MessagesIn(f)
  <2>1. e = Answer(t.case, f, PlanOf(t)[1], 1 + 1)
    BY <1>1, <1>4 DEF Brings
  <2> HIDE DEF e
  <2> QED BY <1>2, <2>1, AnswerOf
<1>6. Suggested(e) = FromLogs(e)
  BY <1>5, Zenon DEF Suggested
<1>7. \A c, w : LogVoice(f, c, w) <=> c = Downstream /\ w = 2
  BY LogVoiceOf DEF LogScenario
<1>8. \A c, w : Heard(Suggested(e), c, w) <=> c = Downstream /\ w = 2
  <2> HIDE DEF e
  <2> QED BY <1>5, <1>6, <1>7, HeardLogs
<1>9. 1 \in DOMAIN Suggested(e) /\ Suggested(e)[1].cause = Downstream
  <2>1. Suggested(e) \in Seq(Hypotheses)
    <3>1. e \in Item
      BY <1>4 DEF Collected
    <3> QED BY <3>1, SuggestedOf
  <2> HIDE DEF e
  <2>2. 1 \in DOMAIN Suggested(e)
    <3>1. PICK k \in DOMAIN Suggested(e) : TRUE
      BY <1>8 DEF Heard
    <3> QED BY <2>1, <3>1
  <2>3. Heard(Suggested(e), Suggested(e)[1].cause, Weight[Suggested(e)[1].confidence])
    BY <2>2 DEF Heard
  <2> QED BY <1>8, <2>2, <2>3
<1>10. SuggestedList # <<>> /\ SuggestedList[1].cause = Downstream
  BY <1>4, <1>9, FirstVoice
<1>11. Speaks(t, Downstream, 2)
  BY <1>1, <1>2, <1>3, <1>7, Zenon DEF Speaks, Voice
<1>12. Strength(Downstream) \in 0..3 /\ 2 <= Strength(Downstream)
  BY <1>11, TurnStrength
<1>13. Proposed(Downstream)
  BY <1>12 DEF Proposed, Downstream, Pool
<1>14. ASSUME NEW c PROVE Strength(c) <= 2
  <2> SUFFICES ASSUME Strength(c) = 3 PROVE FALSE
    BY TurnStrength
  <2>1. Speaks(t, c, 3)
    BY TurnStrength
  <2>2. c = Downstream \/ c = Spike
    BY <1>1, <2>1, TurnVoices
  <2>3. c = Downstream
    BY <1>1, <2>1, <2>2, SpikeSpeaks DEF Downstream, Spike
  <2>4. PICK k \in 1..Len(PlanOf(t)) : Voice(t, k, Downstream, 3)
    BY <2>1, <2>3 DEF Speaks, Open
  <2>5. PlanOf(t)[k].tool \in {"query_logs", "query_metrics", "query_deployments"}
    BY PlanTools, TurnInputs DEF PlanOf
  <2>6. CASE PlanOf(t)[k].tool = "query_logs"
    <3>1. LogVoice(f, Downstream, 3)
      BY <1>1, <2>4, <2>6, Zenon DEF Voice
    <3> QED BY <1>7, <3>1
  <2>7. CASE PlanOf(t)[k].tool = "query_metrics"
    <3>1. MetricVoice(x.service, PlanOf(t)[k].metric, f, Downstream, 3)
      BY <1>1, <2>4, <2>7, Zenon DEF Voice
    <3> QED BY <3>1, MetricVoiceOf DEF MetricsScenario
  <2>8. CASE PlanOf(t)[k].tool = "query_deployments"
    <3>1. ReleaseVoice(t.case, f, Downstream, 3)
      BY <1>1, <2>4, <2>8, Zenon DEF Voice
    <3> QED BY <3>1 DEF ReleaseVoice, Downstream, Regression
  <2> QED BY <2>5, <2>6, <2>7, <2>8
<1>15. \A c : Strength(c) <= Strength(Downstream)
  <2>1. \A c : Strength(c) \in 0..3
    BY TurnStrength
  <2> QED BY <1>12, <1>14, <2>1
<1> QED BY <1>10, <1>13, <1>15 DEF Headed

\* Without a query that found no deployment, nothing is contradicted.
LEMMA NothingContradicts ==
    ASSUME Collected, hypotheses = ListFrom(service, evidence), StaleIn(evidence) = {}
    PROVE  \A k \in DOMAIN hypotheses : hypotheses[k].contra = {}
<1> DEFINE r == RankedList
           b == BuiltByRules
           d == DropUnknownReferences(b, evidence)
           t == hypotheses
<1>1. r \in Seq(Hypotheses) /\ \A k \in DOMAIN r : r[k].contra = {}
  BY RankedListOf DEF Supported
<1>2. b \in Seq(Hypotheses) /\ \A k \in DOMAIN b : b[k].contra = {}
  <2>1. CASE r = <<>>
    <3>1. b = <<Unknown>> /\ Unknown.contra = {} /\ Unknown \in Hypotheses
      BY <2>1, BuiltList DEF Unknown, Hypothesis, Hypotheses, Cause, Confidence
    <3> QED BY <3>1
  <2>2. CASE r # <<>>
    <3>1. b = Numbered(r) /\ DOMAIN b = DOMAIN r
      BY <2>2, BuiltList
    <3> HIDE DEF r, b
    <3> QED BY <1>1, <3>1, NumberedOf
  <2> QED BY <2>1, <2>2
<1> HIDE DEF r, b
<1>3. b = BuiltFrom(service, evidence)
  BY BuiltIs DEF b
<1>4. VerifiedFrom(b, evidence) = b
  <2>1. VerifiedFrom(b, evidence) = [i \in DOMAIN b |-> b[i]]
    BY DEF VerifiedFrom
  <2>2. b = [i \in DOMAIN b |-> b[i]]
    BY <1>2
  <2> QED BY <2>1, <2>2
<1>5. t = FilterWithoutEvidence(d)
  BY <1>3, <1>4 DEF ListFrom, ValidatedFrom
<1>6. /\ d \in Seq(Hypotheses) /\ DOMAIN d = DOMAIN b
      /\ \A i \in DOMAIN b : d[i].contra = b[i].contra \cap Ids(evidence)
  BY <1>2, ReferencesDropped
<1> HIDE DEF d
<1>7. PICK p : Refiled(t, d, p)
  BY <1>5, <1>6, FilteredOf
<1>8. \A k \in DOMAIN t : p[k] \in DOMAIN d /\ t[k].contra = d[p[k]].contra
  BY <1>7 DEF Refiled
<1> QED BY <1>2, <1>6, <1>8

\* A turn whose agent has the tool that shows its fault diagnoses it.
LEMMA ScoreRight ==
    ASSUME HeadInv, NEW t \in TurnSet, t = Current, Tracks(t), node = "done",
           t.agent # "fallback", Shows(t.case.template.fault, t.case.disturbed)
    PROVE  Top1(Score) /\ Top3(Score) /\ Score.status = "DIAGNOSED"
<1> DEFINE x == t.case.template
           f == x.fault
           top == hypotheses[1]
<1>1. /\ Collected /\ Headed(hypotheses) /\ 1 \in DOMAIN hypotheses /\ Argued(hypotheses)
      /\ report = "DIAGNOSED" <=> Backed(top) /\ top.confidence # "LOW"
      /\ node \in Later
  BY TurnEnds DEF Later
<1>2. TemplateTable(x)
  BY TurnTable
<1>3. PICK w \in {2, 3} : Speaks(t, x.expected, w) /\ (f \notin Doubtful => w = 3)
  BY ExpectedSpeaks
<1>4. \A c : Strength(c) \in 0..3
  BY <1>1, TurnStrength
<1>5. w <= Strength(x.expected)
  BY <1>1, <1>3, TurnStrength
<1>6. x.expected = Pool => ~PoolIsLow(evidence)
  <2> SUFFICES ASSUME x.expected = Pool, NEW i \in DOMAIN evidence,
                      evidence[i].tool = "query_metrics",
                      evidence[i].metric = "db_pool_active_ratio",
                      evidence[i].level = "low"
               PROVE  FALSE
    BY DEF PoolIsLow
  <2>1. f = "mysql-connection-pool" /\ Scenario(t) = f
    BY <1>2, TurnTable DEF TemplateTable, Row, Slow, Pool, Redis, Downstream, Resource, Spike, Regression
  <2>2. PICK k \in 1..Len(PlanOf(t)) : evidence[i] = Brings(t, k)
    BY <1>1, TurnEvidence DEF Open
  <2>3. PlanOf(t)[k].tool \in {"query_logs", "query_metrics", "query_deployments"}
    BY PlanTools, TurnInputs DEF PlanOf
  <2>4. evidence[i] = Answer(t.case, f, PlanOf(t)[k], k + 1)
    BY <2>1, <2>2 DEF Brings
  <2>5. evidence[i].level = LevelIn(f, "db_pool_active_ratio")
    BY <2>3, <2>4, AnswerOf
  <2> QED BY <2>1, <2>5 DEF LevelIn, MetricsScenario
<1>7. Proposed(x.expected) /\ 2 <= Strength(x.expected)
  BY <1>3, <1>4, <1>5, <1>6 DEF Proposed
<1>8. /\ Strength(x.expected) <= Strength(top.cause) /\ Backed(top)
      /\ top.confidence # "LOW" \/ (top.cause = Regression /\ top.contra # {})
  BY <1>1, <1>7 DEF Headed, Argued, LedByStrong
<1>9. 2 <= Strength(top.cause)
  BY <1>4, <1>7, <1>8
<1>10. Speaks(t, top.cause, Strength(top.cause))
  BY <1>1, <1>9, TurnStrength
<1>11. top.cause = x.expected
  <2>1. \/ top.cause = x.expected \/ top.cause = Spike
        \/ f = "mysql-slow-query" /\ top.cause = Pool
        \/ f = "http-connection-pool" /\ top.cause = Downstream
    BY <1>4, <1>9, <1>10, TurnVoices
  <2>2. ASSUME top.cause = Spike, x.expected # Spike PROVE FALSE
    <3>1. Strength(top.cause) = 2 /\ (f \in Doubtful => f = "downstream-payment-5xx")
      BY <1>10, <2>2, SpikeSpeaks
    <3>2. w = 2
      BY <1>4, <1>5, <1>8, <3>1
    <3>3. f = "downstream-payment-5xx"
      BY <1>3, <3>1, <3>2
    <3>4. top.cause = Downstream
      BY <1>1, <3>3, DownstreamFirst DEF Shows
    <3> QED BY <2>2, <3>4 DEF Downstream, Spike
  <2>3. CASE f = "mysql-slow-query" /\ top.cause = Pool
    <3>1. Strength(Pool) # 0
      BY <1>4, <1>9, <2>3
    <3>2. PoolIsLow(evidence)
      BY <1>1, <2>3, <3>1, SlowLeadsPool
    <3>3. top.confidence # "LOW"
      BY <1>8, <2>3 DEF Pool, Regression
    <3> QED BY <1>1, <2>3, <3>2, <3>3 DEF Argued, Grounded
  <2>4. CASE f = "http-connection-pool" /\ top.cause = Downstream
    <3>1. Strength(Downstream) # 0
      BY <1>4, <1>9, <2>4
    <3> QED BY <1>1, <2>4, <3>1, ResourceLeads
  <2> QED BY <2>1, <2>2, <2>3, <2>4
<1>12. top.confidence # "LOW"
  <2> SUFFICES ASSUME top.cause = Regression, top.contra # {} PROVE FALSE
    BY <1>8
  <2>1. f = "deployment-npe" /\ Scenario(t) = f
    BY <1>2, <1>11, TurnTable
       DEF TemplateTable, Row, Slow, Pool, Redis, Downstream, Resource, Spike, Regression
  <2>2. StaleIn(evidence) = {}
    <3> SUFFICES ASSUME NEW i \in DOMAIN evidence, evidence[i].tool = "query_deployments",
                        evidence[i].release = "old"
                 PROVE  FALSE
      BY DEF StaleIn
    <3>1. PICK k \in 1..Len(PlanOf(t)) : evidence[i] = Brings(t, k)
      BY <1>1, TurnEvidence DEF Open
    <3>2. PlanOf(t)[k].tool \in {"query_logs", "query_metrics", "query_deployments"}
      BY PlanTools, TurnInputs DEF PlanOf
    <3>3. evidence[i] = Answer(t.case, f, PlanOf(t)[k], k + 1)
      BY <2>1, <3>1 DEF Brings
    <3>4. evidence[i].release = ReleaseIn(t.case, f)
      BY <3>2, <3>3, AnswerOf
    <3>5. ReleaseIn(t.case, f) = "faulty"
      BY <2>1, Zenon DEF ReleaseIn
    <3> QED BY <3>4, <3>5
  <2>3. hypotheses = ListFrom(service, evidence)
    BY DEF Tracks
  <2> QED BY <1>1, <2>2, <2>3, NothingContradicts
<1>13. report = "DIAGNOSED"
  BY <1>1, <1>8, <1>12
<1>14. /\ Score.case.template = x /\ Score.status = report
       /\ Score.causes = [i \in DOMAIN hypotheses |-> hypotheses[i].cause]
  BY DEF Score
<1>15. 1 \in DOMAIN Score.causes /\ Score.causes[1] = top.cause /\ Score.causes # <<>>
  <2>1. 1 \in DOMAIN Score.causes /\ Score.causes[1] = top.cause
    BY <1>1, <1>14
  <2>2. ASSUME Score.causes = <<>> PROVE FALSE
    <3>1. DOMAIN Score.causes = {}
      BY <2>2
    <3> QED BY <2>1, <3>1
  <2> QED BY <2>1, <2>2
<1> QED BY <1>11, <1>13, <1>14, <1>15 DEF Top1, Top3, ToSet

-----------------------------------------------------------------------------
(* The published numbers.                                                  *)

\* Every score of a case of the dataset stays right.
LEMMA RightNext ==
    EvalInv /\ RightScores /\ [EvalNext]_<<vars, evalVars>> => RightScores'
<1> SUFFICES ASSUME EvalInv, RightScores, [EvalNext]_<<vars, evalVars>>,
                    NEW n \in DOMAIN scores', NEW s, s = scores'[n],
                    s.agent # "fallback", s.case \in ToSet(Dataset)
             PROVE  Top1(s) /\ Top3(s) /\ s.status = "DIAGNOSED"
  BY DEF RightScores
<1>1. CASE n \in DOMAIN scores /\ s = scores[n]
  BY <1>1 DEF RightScores
<1>2. CASE s = Score /\ Current \in TurnSet /\ HeadInv /\ Tracks(Current) /\ node = "done"
  <2>1. PICK t \in TurnSet : t = Current
    BY <1>2
  <2>2. t.agent = s.agent /\ t.case = s.case /\ Tracks(t)
    BY <1>2, <2>1 DEF Score
  <2>3. Shows(t.case.template.fault, t.case.disturbed)
    BY <2>2, DatasetShows
  <2>4. Top1(Score) /\ Top3(Score) /\ Score.status = "DIAGNOSED"
    BY <1>2, <2>1, <2>2, <2>3, ScoreRight
  <2> QED BY <1>2, <2>4
<1> QED BY <1>1, <1>2, ScoreAdded

\* The numbers are published once, when no turn is left.
LEMMA PublishedNext == Published /\ [EvalNext]_<<vars, evalVars>> => Published'
<1> SUFFICES ASSUME Published, [EvalNext]_<<vars, evalVars>> PROVE Published'
  OBVIOUS
<1>1. study' = study /\ cases' = cases
  BY DEF EvalNext, CallFakeTool, VerifyFresh, RunNode, ScoreReport, Summarize, evalVars
<1>2. Turns' = Turns
  BY <1>1, SameTurns
<1>3. CASE Diagnosing
  <2>1. summary = <<>> /\ summary' = summary
    BY <1>3 DEF Published, EvalNext, CallFakeTool, VerifyFresh, RunNode, ScoreReport, Summarize,
                evalVars
  <2> QED BY <1>1, <2>1 DEF Published
<1>4. CASE ~Diagnosing
  <2>1. scores' = scores
    BY <1>4 DEF EvalNext, CallFakeTool, VerifyFresh, RunNode, ScoreReport, Summarize, evalVars
  <2>2. ~Diagnosing'
    BY <1>2, <1>4, <2>1 DEF Diagnosing
  <2>3. (\A a : Rates(a)' = Rates(a)) /\ VariantA' = VariantA
    BY <1>1, <2>1 DEF Rates, VariantA, WithoutRunbook, WithoutVerification, FullLogs
  <2>4. CASE Summarize
    <3>1. study = "evaluation" => summary' = <<Rates("rules")>>
      BY <2>4, Zenon DEF Summarize
    <3>2. study \in Experiment => summary' = <<VariantA, Rates("rules")>>
      <4>1. study \in Experiment => study # "evaluation" /\ study # "LLM evaluation"
        BY DEF Experiment
      <4> QED BY <2>4, <4>1, Zenon DEF Summarize
    <3> QED BY <1>1, <2>2, <2>3, <3>1, <3>2 DEF Published
  <2>5. CASE summary' = summary
    BY <1>1, <1>2, <2>1, <2>2, <2>3, <2>5 DEF Published
  <2> QED BY <1>4, <2>4, <2>5
      DEF EvalNext, CallFakeTool, VerifyFresh, RunNode, ScoreReport, evalVars
<1> QED BY <1>3, <1>4

\* As many distinct positions as the range they are numbered by.
LEMMA CountedBy ==
    ASSUME NEW N \in Nat, NEW S, NEW b \in [1..N -> S],
           \A j, k \in 1..N : b[j] = b[k] => j = k,
           \A n \in S : \E k \in 1..N : b[k] = n
    PROVE  Cardinality(S) = N
<1>1. b \in Injection(1..N, S) /\ b \in Surjection(1..N, S)
  BY DEF Injection, Surjection, IsInjective
<1>2. ExistsBijection(1..N, S)
  BY <1>1 DEF ExistsBijection, Bijection
<1> QED BY <1>2, FS_CountingElements

\* An agent whose cases are all of the dataset has them all right.
LEMMA RightRates ==
    ASSUME DisturbanceNeverMisleads, RightScores, NEW a, a # "fallback", NEW N \in Nat,
           Cardinality({n \in DOMAIN scores : scores[n].agent = a}) = N,
           \A n \in DOMAIN scores : scores[n].agent = a => scores[n].case \in ToSet(Dataset)
    PROVE  Rates(a) = [top1 |-> N, top3 |-> N, forbidden |-> 0, symptom |-> 0,
                       inconclusive |-> 0, diagnosed |-> N]
<1> DEFINE own == {n \in DOMAIN scores : scores[n].agent = a}
<1>1. ASSUME NEW n \in own
      PROVE  /\ Top1(scores[n]) /\ Top3(scores[n]) /\ ~Violates(scores[n])
             /\ scores[n].status = "DIAGNOSED" /\ scores[n].status # "INCONCLUSIVE"
             /\ ~SymptomAsCause(scores[n])
  <2>1. Top1(scores[n]) /\ Top3(scores[n]) /\ scores[n].status = "DIAGNOSED"
    BY DEF RightScores
  <2>2. ~Violates(scores[n])
    BY DEF DisturbanceNeverMisleads
  <2> QED BY <2>1, <2>2 DEF Top1, SymptomAsCause
<1>2. /\ {n \in own : Top1(scores[n])} = own
      /\ {n \in own : Top3(scores[n])} = own
      /\ {n \in own : scores[n].status = "DIAGNOSED"} = own
      /\ {n \in own : Violates(scores[n])} = {}
      /\ {n \in own : SymptomAsCause(scores[n])} = {}
      /\ {n \in own : scores[n].status = "INCONCLUSIVE"} = {}
  BY <1>1
<1>3. Cardinality(own) = N /\ Cardinality({}) = 0
  BY FS_EmptySet
<1>4. Rates(a) = [top1 |-> Cardinality({n \in own : Top1(scores[n])}),
                  top3 |-> Cardinality({n \in own : Top3(scores[n])}),
                  forbidden |-> Cardinality({n \in own : Violates(scores[n])}),
                  symptom |-> Cardinality({n \in own : SymptomAsCause(scores[n])}),
                  inconclusive |-> Cardinality({n \in own : scores[n].status = "INCONCLUSIVE"}),
                  diagnosed |-> Cardinality({n \in own : scores[n].status = "DIAGNOSED"})]
  BY DEF Rates
<1> HIDE DEF own
<1> QED BY <1>2, <1>3, <1>4

\* When no turn is left, there is a score for each turn, of its agent and case.
LEMMA AllTaken ==
    ASSUME EvalInv, ~Diagnosing
    PROVE  /\ DOMAIN scores = 1..Turns
           /\ \A n \in 1..Turns : /\ scores[n].agent = Turn(n).agent
                                  /\ scores[n].case = Turn(n).case
                                  /\ scores[n].case \in ToSet(cases)
<1>1. Iterating /\ Scored
  BY DEF EvalInv
<1>2. /\ Len(scores) \in Nat /\ DOMAIN scores = 1..Len(scores) /\ Turns \in Nat
      /\ Len(scores) = Turns
  <2>1. Len(scores) \in Nat /\ DOMAIN scores = 1..Len(scores) /\ Turns \in Nat
    BY <1>1, ScoresListed, TurnOf
  <2>2. Len(scores) <= Turns /\ ~(Len(scores) < Turns)
    BY <1>1 DEF Iterating, Diagnosing
  <2>3. \A k, l \in Nat : k <= l /\ ~(k < l) => k = l
    OBVIOUS
  <2> QED BY <2>1, <2>2, <2>3, Zenon
<1>3. ASSUME NEW n \in 1..Turns
      PROVE  /\ scores[n].agent = Turn(n).agent /\ scores[n].case = Turn(n).case
             /\ Turn(n).case \in ToSet(cases)
  <2>1. scores[n] = ScoreOf(Turn(n))
    BY <1>1, <1>2 DEF Scored
  <2>2. scores[n].agent = Turn(n).agent /\ scores[n].case = Turn(n).case
    BY <2>1 DEF ScoreOf
  <2>3. Len(cases) \in Nat \ {0} /\ Len(Agents) \in 1..2
    BY <1>1, TurnOf
  <2>4. (n - 1) \div Len(Agents) + 1 \in 1..Len(cases)
    BY <2>3, TurnsOf
  <2>5. DOMAIN cases = 1..Len(cases)
    <3>1. cases \in Seq(CaseSet)
      BY <1>1 DEF Iterating
    <3> QED BY <3>1
  <2>6. Turn(n).case \in ToSet(cases)
    BY <2>4, <2>5 DEF Turn, ToSet
  <2> QED BY <2>2, <2>6
<1> QED BY <1>2, <1>3

\* A study of one agent scores it once for each case.
LEMMA OneAgent ==
    ASSUME EvalInv, ~Diagnosing, Agents = <<"rules">>
    PROVE  Cardinality({n \in DOMAIN scores : scores[n].agent = "rules"}) = Len(cases)
<1>1. PICK N \in Nat : N = Len(cases)
  BY TurnOf DEF EvalInv
<1>2. Len(Agents) = 1 /\ Agents[1] = "rules"
  OBVIOUS
<1>3. Turns = N
  BY <1>1, <1>2 DEF Turns
<1>4. \A n \in 1..N : Turn(n).agent = "rules"
  <2>1. \A n \in 1..N : ((n - 1) % 1) + 1 = 1
    OBVIOUS
  <2> QED BY <1>2, <2>1 DEF Turn
<1>5. {n \in DOMAIN scores : scores[n].agent = "rules"} = 1..N
  BY <1>3, <1>4, AllTaken
<1>6. Cardinality(1..N) = N
  BY FS_Interval
<1> QED BY <1>1, <1>5, <1>6

\* One of two agents scores each of them once for each case: the raw agent in
\* the odd turns, the other in the even ones.
LEMMA TwoAgents ==
    ASSUME EvalInv, ~Diagnosing, Agents = <<"raw", "rules">>
    PROVE  /\ Cardinality({n \in DOMAIN scores : scores[n].agent = "raw"}) = Len(cases)
           /\ Cardinality({n \in DOMAIN scores : scores[n].agent = "rules"}) = Len(cases)
<1>1. PICK N \in Nat : N = Len(cases)
  BY TurnOf DEF EvalInv
<1>2. Len(Agents) = 2 /\ Agents[1] = "raw" /\ Agents[2] = "rules"
  OBVIOUS
<1>3. Turns = N * 2
  BY <1>1, <1>2 DEF Turns
<1>4. ASSUME NEW n \in 1..N * 2
      PROVE  /\ n \in DOMAIN scores
             /\ scores[n].agent = "raw" <=> (n - 1) % 2 = 0
             /\ scores[n].agent = "rules" <=> (n - 1) % 2 = 1
  <2>1. PICK r \in {0, 1} : r = (n - 1) % 2
    OBVIOUS
  <2>2. n \in DOMAIN scores /\ scores[n].agent = Turn(n).agent
    BY <1>3, AllTaken
  <2>3. Turn(n).agent = Agents[r + 1]
    BY <1>2, <2>1 DEF Turn
  <2>4. r = 0 => Turn(n).agent = "raw"
    BY <1>2, <2>3
  <2>5. r = 1 => Turn(n).agent = "rules"
    BY <1>2, <2>3
  <2> QED BY <2>1, <2>2, <2>4, <2>5
<1>5. DOMAIN scores = 1..N * 2
  BY <1>3, AllTaken
<1> DEFINE raw == {n \in DOMAIN scores : scores[n].agent = "raw"}
           rules == {n \in DOMAIN scores : scores[n].agent = "rules"}
<1>6. \A n : n \in raw <=> n \in 1..N * 2 /\ (n - 1) % 2 = 0
  BY <1>4, <1>5
<1>7. \A n : n \in rules <=> n \in 1..N * 2 /\ (n - 1) % 2 = 1
  BY <1>4, <1>5
<1> HIDE DEF raw, rules
<1>8. Cardinality(raw) = N
  <2> DEFINE b == [k \in 1..N |-> 2 * k - 1]
  <2>1. \A k \in 1..N : 2 * k - 1 \in 1..N * 2 /\ (2 * k - 1 - 1) % 2 = 0
    OBVIOUS
  <2>2. b \in [1..N -> raw]
    BY <1>6, <2>1
  <2>3. \A j, k \in 1..N : b[j] = b[k] => j = k
    OBVIOUS
  <2>4. ASSUME NEW n \in raw PROVE \E k \in 1..N : b[k] = n
    <3>1. n \in 1..N * 2 /\ (n - 1) % 2 = 0
      BY <1>6
    <3>2. \E k \in 1..N : n = 2 * k - 1
      BY <3>1
    <3> QED BY <3>2
  <2> HIDE DEF b
  <2> QED BY <2>2, <2>3, <2>4, CountedBy
<1>9. Cardinality(rules) = N
  <2> DEFINE b == [k \in 1..N |-> 2 * k]
  <2>1. \A k \in 1..N : 2 * k \in 1..N * 2 /\ (2 * k - 1) % 2 = 1
    OBVIOUS
  <2>2. b \in [1..N -> rules]
    BY <1>7, <2>1
  <2>3. \A j, k \in 1..N : b[j] = b[k] => j = k
    OBVIOUS
  <2>4. ASSUME NEW n \in rules PROVE \E k \in 1..N : b[k] = n
    <3>1. n \in 1..N * 2 /\ (n - 1) % 2 = 1
      BY <1>7
    <3>2. \E k \in 1..N : n = 2 * k
      BY <3>1
    <3> QED BY <3>2
  <2> HIDE DEF b
  <2> QED BY <2>2, <2>3, <2>4, CountedBy
<1> QED BY <1>1, <1>8, <1>9 DEF raw, rules

\* The first twelve cases are of the dataset.
LEMMA FirstTwelve ==
    Len(SubSeq(Dataset, 1, 12)) = 12 /\ ToSet(SubSeq(Dataset, 1, 12)) \subseteq ToSet(Dataset)
<1>1. PICK d : d = Dataset /\ d \in Seq(CaseSet) /\ Len(d) = 48
  BY DatasetOf
<1>2. Len(SubSeq(d, 1, 12)) = 12 /\ \A k \in 1..12 : SubSeq(d, 1, 12)[k] = d[k]
  BY <1>1
<1>3. DOMAIN SubSeq(d, 1, 12) = 1..12 /\ DOMAIN d = 1..48
  BY <1>1, <1>2
<1> QED BY <1>1, <1>2, <1>3 DEF ToSet

\* The numbers published at the end of the turns are the reported ones.
LEMMA NumbersHold ==
    EvalInv /\ DisturbanceNeverMisleads /\ RightScores /\ Published => NumbersAsReported
<1> SUFFICES ASSUME EvalInv, DisturbanceNeverMisleads, RightScores, Published, summary # <<>>
             PROVE  /\ study = "evaluation" =>
                          summary[1] = [top1 |-> 48, top3 |-> 48, forbidden |-> 0, symptom |-> 0,
                                        inconclusive |-> 0, diagnosed |-> 48]
                    /\ study \in Experiment /\ cases = SubSeq(Dataset, 1, 12) =>
                          <<summary[1].top1, summary[2].top1>> = Reported[study]
  BY DEF NumbersAsReported
<1>1. ~Diagnosing
  BY DEF Published
<1>2. ASSUME ToSet(cases) \subseteq ToSet(Dataset)
      PROVE  \A n \in DOMAIN scores : scores[n].case \in ToSet(Dataset)
  BY <1>1, <1>2, AllTaken
<1>3. ASSUME study = "evaluation"
      PROVE  summary[1] = [top1 |-> 48, top3 |-> 48, forbidden |-> 0, symptom |-> 0,
                           inconclusive |-> 0, diagnosed |-> 48]
  <2>1. cases = Dataset /\ Len(cases) = 48 /\ summary = <<Rates("rules")>>
    BY <1>3, DatasetOf DEF Published
  <2>2. Agents = <<"rules">>
    BY <1>3, Zenon DEF Agents
  <2>3. Cardinality({n \in DOMAIN scores : scores[n].agent = "rules"}) = 48
    BY <1>1, <2>1, <2>2, OneAgent
  <2>4. Rates("rules") = [top1 |-> 48, top3 |-> 48, forbidden |-> 0, symptom |-> 0,
                          inconclusive |-> 0, diagnosed |-> 48]
    BY <1>2, <2>1, <2>3, RightRates
  <2>5. <<Rates("rules")>>[1] = Rates("rules")
    OBVIOUS
  <2> QED BY <2>1, <2>4, <2>5, Zenon
<1>4. ASSUME study \in Experiment, cases = SubSeq(Dataset, 1, 12)
      PROVE  <<summary[1].top1, summary[2].top1>> = Reported[study]
  <2>1. Len(cases) = 12 /\ ToSet(cases) \subseteq ToSet(Dataset)
    BY <1>4, FirstTwelve
  <2>2. \A a : /\ a # "fallback"
               /\ Cardinality({n \in DOMAIN scores : scores[n].agent = a}) = 12
               => Rates(a).top1 = 12 /\ Rates(a).top3 = 12
    <3> SUFFICES ASSUME NEW a, a # "fallback",
                        Cardinality({n \in DOMAIN scores : scores[n].agent = a}) = 12
                 PROVE  Rates(a).top1 = 12 /\ Rates(a).top3 = 12
      OBVIOUS
    <3>1. Rates(a) = [top1 |-> 12, top3 |-> 12, forbidden |-> 0, symptom |-> 0,
                      inconclusive |-> 0, diagnosed |-> 12]
      BY <1>2, <2>1, RightRates
    <3> QED BY <3>1
  <2>3. summary = <<VariantA, Rates("rules")>>
    BY <1>4 DEF Published
  <2>4. summary[1] = VariantA /\ summary[2] = Rates("rules")
    <3>1. \A a, b : <<a, b>>[1] = a /\ <<a, b>>[2] = b
      OBVIOUS
    <3> QED BY <2>3, <3>1, Zenon
  <2>5. study \in {"runbooks", "verification", "logs"} => Agents = <<"rules">>
    BY Zenon DEF Agents
  <2>6. study = "raw or tools" => Agents = <<"raw", "rules">>
    BY Zenon DEF Agents
  <2>7. Rates("rules").top1 = 12
    <3>1. Cardinality({n \in DOMAIN scores : scores[n].agent = "rules"}) = 12
      <4>1. CASE study = "raw or tools"
        BY <1>1, <2>1, <2>6, <4>1, TwoAgents
      <4>2. CASE study \in {"runbooks", "verification", "logs"}
        BY <1>1, <2>1, <2>5, <4>2, OneAgent
      <4> QED BY <1>4, <4>1, <4>2 DEF Experiment
    <3> QED BY <2>2, <3>1
  <2>8. study = "raw or tools" => Rates("raw").top1 = 12
    BY <1>1, <2>1, <2>2, <2>6, TwoAgents
  <2>9. VariantA.top1 = IF study \in {"runbooks", "verification"} THEN 11 ELSE 12
    <3>1. Down(12) = 11
      BY DEF Down
    <3>2. CASE study = "raw or tools"
      <4>1. VariantA = [top1 |-> Rates("raw").top1, top3 |-> Rates("raw").top3]
        BY <3>2, Zenon DEF VariantA
      <4> QED BY <2>8, <3>2, <4>1
    <3>3. CASE study = "runbooks"
      <4>1. VariantA = [top1 |-> Down(Rates("rules").top1), top3 |-> Down(Rates("rules").top3)]
        BY <3>3, Zenon DEF VariantA, WithoutRunbook
      <4> QED BY <2>7, <3>1, <3>3, <4>1
    <3>4. CASE study = "verification"
      <4>1. VariantA = [top1 |-> Down(Rates("rules").top1), top3 |-> Rates("rules").top3]
        BY <3>4, Zenon DEF VariantA, WithoutVerification
      <4> QED BY <2>7, <3>1, <3>4, <4>1
    <3>5. CASE study = "logs"
      <4>1. VariantA = [top1 |-> Rates("rules").top1, top3 |-> Rates("rules").top3]
        BY <3>5, Zenon DEF VariantA, FullLogs
      <4> QED BY <2>7, <3>5, <4>1
    <3> QED BY <1>4, <3>2, <3>3, <3>4, <3>5 DEF Experiment
  <2>10. Reported[study] = IF study \in {"runbooks", "verification"} THEN <<11, 12>>
                           ELSE <<12, 12>>
    BY <1>4, Zenon DEF Reported
  <2> QED BY <2>4, <2>7, <2>9, <2>10
<1> QED BY <1>3, <1>4

\* The evaluation publishes what its report says: 48 of 48 causes at the top,
\* nothing forbidden, every case diagnosed; and in each experiment the reported
\* hits of both variants.
THEOREM NumbersCorrect == EvalSpec => []NumbersAsReported
<1>1. EvalInit => RightScores /\ Published
  <2> SUFFICES ASSUME EvalInit PROVE RightScores /\ Published
    OBVIOUS
  <2>1. scores = <<>> /\ summary = <<>>
    BY DEF EvalInit
  <2>2. DOMAIN scores = {}
    BY <2>1
  <2>3. study = "evaluation" => cases = Dataset
    BY DEF EvalInit, Experiment
  <2> QED BY <2>1, <2>2, <2>3 DEF RightScores, Published
<1> QED BY <1>1, EvalCorrect, DisturbanceCorrect, RightNext, PublishedNext, NumbersHold, PTL
    DEF EvalSpec
=============================================================================

------------------------- MODULE EvidenceGovernance -------------------------
(***************************************************************************)
(* What both diagnosis agents share: evidence, hypotheses, and the rules   *)
(* that merge, filter and judge them (evidence_governance.py, and the      *)
(* helpers of the same name in graph.py and llm_graph.py).                 *)
(*                                                                         *)
(* A piece of evidence is known by the number of the tool call that        *)
(* returned it (the code draws a random id) and by what the rules read in  *)
(* it: the patterns found in the logs, the level of a metric against the   *)
(* thresholds of its rules, the age and kind of the latest deployment.     *)
(* The evidence lists of a hypothesis have no duplicates, and nothing      *)
(* depends on their order: they are sets.                                  *)
(***************************************************************************)
EXTENDS Ordering, SequencesExt

Confidence == {"HIGH", "MEDIUM", "LOW"}
Weight == [HIGH |-> 3, MEDIUM |-> 2, LOW |-> 1]

Pool == "DATABASE_CONNECTION_POOL_EXHAUSTED"
Regression == "RECENT_DEPLOYMENT_REGRESSION"
Cause == {"DATABASE_SLOW_QUERY", Pool, "REDIS_TIMEOUT", "DOWNSTREAM_SERVICE_FAILURE",
          "RESOURCE_EXHAUSTION", "MQ_CONSUMER_ERROR", "APPLICATION_ERROR_SPIKE",
          Regression, "UNKNOWN"}

Hypothesis(cause, confidence, support) ==
    [cause |-> cause, confidence |-> confidence, support |-> support, contra |-> {}, rank |-> 0]
Unknown == [Hypothesis("UNKNOWN", "LOW", {}) EXCEPT !.rank = 1]

IsHypothesis(h) ==
    /\ h.cause \in Cause
    /\ h.confidence \in Confidence
    /\ h.support \subseteq Nat
    /\ h.contra \subseteq Nat
    /\ h.rank \in 0..3

Backed(h) == h.support # {}
Ids(evidence) == {evidence[i].id : i \in DOMAIN evidence}

-----------------------------------------------------------------------------
(* Ranking.                                                                *)

Strongest(levels) == CHOOSE c \in levels : \A d \in levels : Weight[d] <= Weight[c]

\* The hypotheses of the cause of hs[i], as one: the best confidence, and the
\* evidence of all of them.
Merged(hs, i) ==
    LET same == {hs[j] : j \in {k \in DOMAIN hs : hs[k].cause = hs[i].cause}}
    IN  [hs[i] EXCEPT !.confidence = Strongest({h.confidence : h \in same}),
                      !.support = UNION {h.support : h \in same},
                      !.contra = UNION {h.contra : h \in same}]

\* Seeded fault: hypotheses of the same cause are not merged.
KeepAll(hs) == hs

\* One hypothesis for each cause, in the order in which the causes appear.
MergeCauses(hs) ==
    LET firsts == Ascending({i \in DOMAIN hs : \A j \in 1..i - 1 : hs[j].cause # hs[i].cause})
    IN  [k \in DOMAIN firsts |-> Merged(hs, firsts[k])]

\* Seeded fault: all the causes stay.
Uncut(hs) == hs

TopThree(hs) == SubSeq(hs, 1, IF Len(hs) < 3 THEN Len(hs) ELSE 3)

Numbered(hs) == [i \in DOMAIN hs |-> [hs[i] EXCEPT !.rank = i]]

PoolIsLow(evidence) ==
    \E i \in DOMAIN evidence : /\ evidence[i].tool = "query_metrics"
                               /\ evidence[i].metric = "db_pool_active_ratio"
                               /\ evidence[i].level = "low"

\* A low pool usage refutes the exhaustion of the pool.
RemoveMetricContradicted(hs, evidence) ==
    IF PoolIsLow(evidence) THEN At(hs, {i \in DOMAIN hs : hs[i].cause # Pool}) ELSE hs

-----------------------------------------------------------------------------
(* Governance.                                                             *)

\* Seeded fault: only the supporting references are checked.
DropUnknownSupport(hs, evidence) ==
    [i \in DOMAIN hs |-> [hs[i] EXCEPT !.support = @ \cap Ids(evidence)]]

\* References to evidence that was not collected are dropped.
DropUnknownReferences(hs, evidence) ==
    [i \in DOMAIN hs |-> [hs[i] EXCEPT !.support = @ \cap Ids(evidence),
                                       !.contra = @ \cap Ids(evidence)]]

\* Hypotheses without supporting evidence go last, with a low confidence.
FilterWithoutEvidence(hs) ==
    LET backed == {i \in DOMAIN hs : Backed(hs[i])}
        unbacked == At(hs, DOMAIN hs \ backed)
    IN  Numbered(At(hs, backed)
                 \o [i \in DOMAIN unbacked |-> [unbacked[i] EXCEPT !.confidence = "LOW"]])

FullyTraceable(hs, evidence) ==
    \A i \in DOMAIN hs : hs[i].support \cup hs[i].contra \subseteq Ids(evidence)

\* Seeded fault: a medium confidence is not enough.
StatusOfHigh(hs, evidence) ==
    IF /\ hs # <<>>
       /\ Backed(hs[1])
       /\ hs[1].confidence = "HIGH"
       /\ FullyTraceable(hs, evidence)
    THEN "DIAGNOSED" ELSE "INCONCLUSIVE"

\* A report is DIAGNOSED on its first hypothesis.
DetermineStatus(hs, evidence) ==
    IF /\ hs # <<>>
       /\ Backed(hs[1])
       /\ hs[1].confidence # "LOW"
       /\ FullyTraceable(hs, evidence)
    THEN "DIAGNOSED" ELSE "INCONCLUSIVE"
=============================================================================

---------------------------- MODULE MCEvaluation ----------------------------
(* The evaluation as it is run, and cases disturbed in every way.          *)
EXTENDS Evaluation

Disturbances ==
    {flags \cup outage : flags \in SUBSET {"noisy", "deploy", "wrong runbook"},
                         outage \in {{}} \cup {{tool} : tool \in Tool}}

\* The experiments' own list is the first twelve cases; the others diagnose a
\* disturbed case, one of the next fault, and the first fault's clean case.
MCCaseLists ==
    {SubSeq(Dataset, 1, 12)}
    \cup {<<Case(Templates[k], d), Case(Templates[(k % Len(Templates)) + 1], {}),
            Case(Templates[k], {})>> : k \in DOMAIN Templates, d \in Disturbances}
=============================================================================

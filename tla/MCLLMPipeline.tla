--------------------------- MODULE MCLLMPipeline ----------------------------
(* Small instances of LLMPipeline for TLC.                                 *)
EXTENDS LLMPipeline

Other(step) == [step EXCEPT !.target = "other"]

\* The pool of another service, a metric the executor refuses, a step that the
\* agent requires anyway, a runbook search, and a tool that does not exist.
MCProposals ==
    {Other(Measure("db_pool_active_ratio")), Measure("unlisted"), Logs,
     [tool |-> "search_runbooks", metric |-> "none", target |-> "own"],
     [tool |-> "unlisted", metric |-> "none", target |-> "own"]}

Claim(cause, confidence) == [cause |-> cause, confidence |-> confidence]

\* A cause that the agent's rules see, one that they may refute, two that they
\* do not know, each as strong as theirs, and no cause at all.
MCClaims ==
    {Claim("DATABASE_SLOW_QUERY", "LOW"), Claim(Pool, "HIGH"),
     Claim("REDIS_TIMEOUT", "HIGH"), Claim("RESOURCE_EXHAUSTION", "HIGH"),
     Claim("UNKNOWN", "HIGH")}
=============================================================================

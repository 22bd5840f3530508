SPECIFICATION LLMSpec
CONSTANTS
    Alerts = {"P95_LATENCY_HIGH", "MQ_LAG_HIGH"}
    Services = {"order"}
    Patterns = {"slow", "pool"}
    Budgets = {1, 3, 5}
    MaxPatterns = 2
    Proposals <- MCProposals
    Claims <- MCClaims
    MaxSteps = 2
    MaxClaims = 2
INVARIANTS
    ReportIsRanked
    RequiredStepsTaken
    ReferencesAreReal
    StrongDiagnosisStands
    EvidentCauseIsDiagnosed
CHECK_DEADLOCK FALSE

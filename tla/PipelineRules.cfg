SPECIFICATION Spec
CONSTANTS
    Alerts = {"P95_LATENCY_HIGH", "ERROR_RATE_HIGH", "THROUGHPUT_LOW", "MQ_LAG_HIGH"}
    Services = {"order", "inventory", "payment", "other"}
    Patterns = {"slow", "pool", "redis", "downstream", "resource", "mq", "config", "npe"}
    Budgets = {0, 3, 4, 5}
    MaxPatterns = 2
INVARIANTS
    TypeOK
    BudgetIsKept
    ShortfallIsReported
    DiagnosisIsSupported
    StrongestAreListed
    StrongestLeads
    InconclusiveHasReason
CHECK_DEADLOCK FALSE

SPECIFICATION EvalSpec
CONSTANTS
    Alerts = {"P95_LATENCY_HIGH", "ERROR_RATE_HIGH", "THROUGHPUT_LOW", "MQ_LAG_HIGH"}
    Services = {"order", "inventory", "payment", "other"}
    Patterns = {"slow", "pool", "redis", "downstream", "resource", "mq", "config", "npe"}
    Budgets = {10}
    MaxPatterns = 2
    CaseLists <- MCCaseLists
INVARIANTS
    NumbersAsReported
    DisturbanceNeverMisleads
CHECK_DEADLOCK FALSE

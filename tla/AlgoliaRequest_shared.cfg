CONSTANTS
    Callers = {w1, w2}
    Hosts = {"dsn", "one"}
    HostOrder <- MCHostOrder
    Queries = {"page"}
    MaxRetries = 1
    MaxRequests = 4
    Burst = 1
    Rate = 1
    HostLimit = 1
    Threshold = 2
    Window = 1
    Recovery = 5
    Cooldown = 1
    TTL = 1
    MaxEntries = 1
    Timeout = 1
    MaxRestarts = 1
SPECIFICATION FairClientSpec
INVARIANTS
    BudgetHolds
    OneProbe
PROPERTIES
    RequestEnds
    ProbeEnds
CHECK_DEADLOCK FALSE

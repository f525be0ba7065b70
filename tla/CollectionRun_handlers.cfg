\* An HTTP client and the scheduler race over two runs of one task.
CONSTANTS
    t1 = t1  t2 = t2  t3 = t3  w1 = w1  w2 = w2  c1 = c1  s1 = s1
    NoRun = NoRun  NoTask = NoTask
    Runs <- TwoRuns
    Tasks = {t1}
    Workers = {w1}
    Clients = {c1}
    Schedulers = {s1}
    StreakLimit = 1
    MaxFaults = 0
SPECIFICATION Spec
INVARIANTS
    ActiveRowHasOwner
PROPERTIES
    OneRunIsServed
VIEW Unasked

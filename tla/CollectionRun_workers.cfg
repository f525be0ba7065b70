\* Two workers share three tasks; one failure may fail to be recorded.
CONSTANTS
    t1 = t1  t2 = t2  t3 = t3  w1 = w1  w2 = w2  c1 = c1  s1 = s1
    NoRun = NoRun  NoTask = NoTask
    Runs <- OneRun
    Tasks = {t1, t2, t3}
    Workers = {w1, w2}
    Clients = {c1}
    Schedulers = {}
    StreakLimit = 2
    MaxFaults = 1
SPECIFICATION FairSpec
INVARIANTS
    CompletedMeansCollected
    NoTaskFetchedTwice
PROPERTIES
    FinishedTasksStay
    JobEnds
    ActiveRowEnds

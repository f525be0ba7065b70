\* Every kind of index, with up to two interrupted attempts.
CONSTANTS
    Hits = {1, 2, 3, 4}
    Width = 3
    Indexes <- AnyIndex
    MaxInterrupts <- Attempts
    MaxChanges = 0
SPECIFICATION FairPagesSpec
INVARIANTS
    CompleteMeansCollected
    CursorIsStored
PROPERTIES
    TaskEnds
CHECK_DEADLOCK FALSE

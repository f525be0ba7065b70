\* Two slots, the first a Sunday, with one disturbance at any step: a run by hand, a restart, a deleted row or a database error.
CONSTANTS
    SlotLength = 4
    CATCH_UP = 3
    THROTTLE_PAUSE = 2
    MAINTENANCE_RETRY = 1
    LAUNCH_BACKOFF = 1
    SLOT_ATTEMPTS = 2
    MAINTENANCE_ATTEMPTS = 2
    FullSlots <- Sunday
    Horizon = 4
    MaxRuns = 2
    MaxManual = 1
    MaxRestarts = 1
    MaxOutside = 1
    MaxDeletes = 1
    MaxFaults = 1
SPECIFICATION FairSpec
INVARIANTS
    
    MaintainedOnce
    PauseHolds
PROPERTIES
    EveryEndIsFollowedUp

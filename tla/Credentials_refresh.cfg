\* Two requests of a client, two rotations of the key, two failures and discoveries elsewhere.
CONSTANTS
    r1 = r1
    r2 = r2
    Requests = {r1, r2}
    MaxKeys = 3
    MaxFaults = 2
    MaxOthers = 2
SPECIFICATION FairSpec
INVARIANTS
    OneRefreshPerSeed
    RefusedKeyIsReplaced

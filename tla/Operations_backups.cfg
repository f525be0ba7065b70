\* Two processes, three operations, one listing; backups expire by age and by number.
CONSTANTS
    p1 = p1  p2 = p2
    NoOne = NoOne  Blank = Blank
    Processes = {p1, p2}
    Listings = {1}
    RawDays = 1
    BackupDays = 1
    Keep = 1
    Batch = 1
    Longest = 1
    MaxTime = 3
    MaxStarts = 3
SYMMETRY Alike
SPECIFICATION OperationsSpec
INVARIANTS
    BackupsAreWhole
PROPERTIES
    PurgedIsBackedUp
    KeptBackupsStay
CHECK_DEADLOCK FALSE

CONSTANTS
    Ids = {1, 2}
    Prices = {1, 2}
    Overlap = 1
    Confirm = 1
    Limit = 1
    Workers = 2
    OnOffer = {1, 2}
    MaxEdits = 2
    MaxTime = 3
    MaxFaults = 1
SPECIFICATION FairSpec
INVARIANTS
    HistoryIsPrices
    WatermarkCovers
PROPERTIES
    RemovedMeansUnseen
    StoreCatchesUp
CHECK_DEADLOCK FALSE

\* Two brands, the first of which always fails; two listings of the second that one query cannot always read.
CONSTANTS
    Listings = {1, 2}
    Brands = {1, 2}
    BrandOf <- Second
    LOOKBACK = 2
    OVERLAP = 1
    Lag = 1
    Readable = 1
    FAILURE_STREAK = 2
    Broken = {1}
    Horizon = 2
    MaxFaults = 1
SPECIFICATION FairSpec
INVARIANTS
    NothingSkipped
PROPERTIES
    PricesAreJudged
CHECK_DEADLOCK FALSE

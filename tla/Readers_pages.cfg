SPECIFICATION ReadersSpec
CONSTANTS
    Periods = {30, 90}
    WholesaleMinActive = 2
    OutlierMinSales = 3
    MinPriceSales = 1
    HotSizeMin = 1
    SnapshotMinActive = 1
    ReferenceMinSales = 1
    ReferenceMinModels = 2
    HotMinSales = 1
    StableMinSales = 1
    BrandMinSalesYear = 1
    ModelMinSalesYear = 1
    BlendPrior = 2
    SeasonMinSales = 1
    Offers <- MCOffers
    MaxCommits = 3
    DayStep = 35
    LastDay = 70
    PageSizes = {1}
INVARIANTS
    ChainsCountOnce
    CatalogPagesMissNothing

    
CHECK_DEADLOCK FALSE

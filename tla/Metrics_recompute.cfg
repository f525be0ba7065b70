SPECIFICATION FairSpec
CONSTANTS
    Periods = {30, 90}
    WholesaleMinActive = 2
    OutlierMinSales = 3
    MinPriceSales = 1
    HotSizeMin = 1
    SnapshotMinActive = 1
    ReferenceMinSales = 1
    ReferenceMinModels = 2
    HotMinSales = 1
    StableMinSales = 1
    BrandMinSalesYear = 1
    ModelMinSalesYear = 1
    BlendPrior = 2
    SeasonMinSales = 1
    Ads <- MCAds
    FirstMarket <- MCMarket
    GroupInfo <- MCGroupInfo
    FirstGroups <- MCFirstGroups
    FirstRows <- MCFirstRows
    Home <- MCHome
    SectionOf <- MCSectionOf
    Policies <- MCPolicies
    FirstSaved <- MCFirstSaved
    DefaultPolicy <- MCDefaultPolicy
    KnownSections = {"outer"}
    RunBrands <- MCRunBrands
    FirstDay = 75
    MaxDay = 76
    MaxChanges = 2
INVARIANTS
    NoModelWithinTheScope
    
PROPERTIES
    MetricsCatchUp

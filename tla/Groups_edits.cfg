CONSTANTS
    Glued <- MCGlued
    Typos = {}
    Modifiers <- MCModifiers
    Numbers = {}
    Generic = {}
    Unfit <- MCUnfit
    BrandTerms <- MCBrandTerms
    Lexicon <- MCLexicon
    Taxonomy <- MCTaxonomy
    MaxWords = 3
    MinSellers = 2
    RelistWindow = 90
    Tolerance = 2
    Listings <- MCListings
    Policies <- MCPolicies
    Descriptions <- MCDescriptions
    Partners = {}
    KeepSellers = 1
    RetireTTL = 1
    Wholesale = 100
    FirstTitles <- MCFirstTitles
    TitleTexts <- MCTitles
    Names <- MCNames
    Attempts = 2
    MaxPasses = 3
    MaxEdits = 1
    MaxDay = 2
SPECIFICATION Spec
INVARIANTS
    
    DeltaAfterFullIsQuiet
    PassKeepsSlugsApart
    TombstonesStay
    RulingsSurvive
CHECK_DEADLOCK FALSE

INIT MCInit
NEXT MCNext
CONSTANTS
    Cards <- MCCards
    RuleLists <- MCRuleLists
    Amounts <- MCAmounts
    Titles <- MCTitles
    Requirements <- MCRequirements
    Suggestions <- MCSuggestions
    Threshold = 75
    Stores = {"x", "y"}
    Products <- MCProducts
    Shelves <- MCShelves
    TTL = 2
    MaxTime = 2
    HasFile = TRUE
    Screens = {"a", "b", "c"}
    FirstScreen = "a"
    Nothing = "nothing"
    Timeout = 3
    Settle = 1
    MaxQueue = 2
    MaxPuts = 2
    MaxRevision = 8
    Sites <- MCSites
    AllowedHosts = {"shop"}
    Elements = {1, 2, 3}
    Layouts <- MCLayouts
    Targets <- MCTargets
    Words <- MCWords
    Normal <- MCNormal
    Ratio <- MCRatio
INVARIANT UnconfirmedIsUnpriced
CHECK_DEADLOCK FALSE

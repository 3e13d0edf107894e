SPECIFICATION Spec
CONSTANTS
    Parts = {"listing"}
    RobotsTTL = 3
    RobotsTries = 2
    FetchBodies <- Bodies
    FetchSize <- Sizes
    FetchLimit = 2
    FetchAttempts = 2
    FetchRedirects = 1
    FetchMaxDelay = 2
    FetchMaxCalls = 2
    FetchNone = FetchNone
    ListingSites <- Sites
    ListingWanted <- Wanted
    ListingFormats <- Formats
    ListingCap = 2
    ListingPages = 2
    SitemapDefault = "b"
    SitemapBudget = 2
    CkanRows = 2
    ListingNone = ListingNone
    GridPlans = {"p", "q", "r"}
    GridName <- Names
    GridCells = 2
    GridSites <- Grids
    PagingIds = {0, 1, 2, 3}
    PagingTables <- Tables
    PagingPage = 2
    PagingCaps = {1, 2, 3}
    PagingMax = 3
    PagingChanges = 1
    TileBase = 4
    TileHeader = 2
    TileMaxRoot = 1000
    TileLeaf = 12
    TileRatio = 2
    TileOverhead = 1
    TilePlaces <- Places
    TileSize <- Payloads
    TileLookups <- Lookups
    TileMax = 3
    TileNone = TileNone
    TileUnreadable = TileUnreadable
    LayerFiles <- Files
    LayerUnprojectable <- Unprojectable
    Comparisons = {"first", "second"}
    QualityShape <- Shapes
    QualityOverlaps <- Overlaps
    QualityCrossings <- Crossings
    QualityGaps <- Gaps
    QualityBroken <- Broken
    QualityUndated <- Undated
    QualityNone = QualityNone
    RegistryKeys = {1, 2}
    RegistryDescriptors <- Descriptors
    RegistryTask <- Tasks
    RegistryEdits = 1
    RegistryNone = RegistryNone
CHECK_DEADLOCK FALSE
INVARIANT ResourcesToldApart

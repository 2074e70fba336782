SPECIFICATION MCSpec
CONSTANTS
    garment = garment
    panel = panel
    lining = lining
    thread = thread
    hall = hall
    yard = yard
    b1 = b1
    b2 = b2
    x1 = x1
    x2 = x2
    None = None
    BomItems = {garment, panel}
    Components = {panel, lining}
    Styles = {}
    MaxVersion = 2
    BomRequests = {b1, b2}
    LineChoices <- MCLineChoices
    OpeningBoms <- MCOpeningBoms
    BomKinds <- AllBomKinds
    Runs = {x1, x2}
    Demands <- MCDemands
    MaxDepth = 3
    Items = {garment, panel, lining, thread}
    Locations = {hall, yard}
    EngineBoms <- MCEngineBoms
    EngineDemands <- MCEngineDemands
    StockRows <- MCStockRows
    EngineDepth = 3
SYMMETRY BomSymmetry
CHECK_DEADLOCK FALSE
INVARIANTS
    LatestIsActive
    NumbersDistinct
    CompletedIsWhole
    ComputedIsNeeded
    RunsStoreWhatIsComputed
PROPERTIES
    CompletedIsFinal

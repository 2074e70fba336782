SPECIFICATION Spec
CONSTANTS
    i1 = i1
    i2 = i2
    main = main
    store = store
    g1 = g1
    g2 = g2
    r1 = r1
    r2 = r2
    r3 = r3
    None = None
    NoQty = NoQty
    Items = {i1, i2}
    Locations = {main, store}
    Grns = {g1, g2}
    GrnLocation <- MCGrnLocation
    GrnLines <- MCGrnLines
    MaxQty = 1
    Requests = {r1, r2, r3}
    Kinds <- AllKinds
    PoolSize = 1
    Opening <- MCOpening
SYMMETRY RequestSymmetry
INVARIANTS
    CacheMatchesLedger
    NoOverIssue
PROPERTIES
    ImplementsAtomicStock

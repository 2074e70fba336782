SPECIFICATION WSpec
CONSTANTS
    i1 = i1
    main = main
    g1 = g1
    r1 = r1
    r2 = r2
    p1 = p1
    p2 = p2
    None = None
    NoQty = NoQty
    Items = {i1}
    Locations = {main}
    Grns = {g1}
    GrnLocation <- MCGrnLocation
    GrnLines <- MCGrnLines
    MaxQty = 1
    Requests = {r1}
    Kinds <- WriterKinds
    PoolSize = 2
    Mutations = {p1, p2}
    Opening <- NoStock
    MrpLevels <- MCLevels
    MaxMrpWrites = 1
    GrnPatches = {"POSTED", "CANCELLED"}
SYMMETRY WriterSymmetry
INVARIANTS
    RowsReplay

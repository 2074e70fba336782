SPECIFICATION FairSpec
CONSTANTS
    m1 = m1
    m2 = m2
    m3 = m3
    p1 = p1
    p2 = p2
    p3 = p3
    None = None
    Mutations = {m1, m2, m3}
    Pushes = {p1, p2}
    Batches <- ThreeBatches
    PoolSize = 2
    MaxOpen = 2
    MayFail = TRUE
INVARIANTS
    RecordedIffApplied
    DeletedTookEffect
    AppliedOnceWithoutOverlap
PROPERTIES
    EveryPushAnswered

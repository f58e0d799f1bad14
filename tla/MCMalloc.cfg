CONSTANTS
    Base = 1
    MaxBrk = 20
    Granule = 6
    TopFoot = 1
    SmallLimit = 5
    Requests = {1, 48, 72}
    Huge = 4000
    MaxLive = 5
VIEW WithoutStaleWords
SPECIFICATION Spec
INVARIANTS
    TypeOK
    OwnersData
    MallocStateOK
    Merged
    ServedIfPossible
PROPERTY
    IsBlockStore

CONSTANTS
    N = 2
    Capacity = 1
    Workers = {w1, w2}
    Providers <- BothProviders
    MaxLives = 2
    NoOne = NoOne
SPECIFICATION FairSpec
INVARIANTS
    InOnePlace
    DeviceIsRight
PROPERTIES
    ManagerEnds

SPECIFICATION Spec
CONSTANTS
    f1 = f1
    f2 = f2
    s1 = s1
    s2 = s2
    None = None
    Functions = {f1, f2}
    Sids = {s1, s2}
    Devices = {"OptaneDCPM", "OptaneNVMe"}
    Dest <- MCDest
    WarmDevice = "OptaneNVMe"
    Fallback = "OptaneNVMe"
    QueueCap = 2
    MaxFailed = 1
    MaxLives = 3
    MaxMade = 2
    MaxMoves = 1
SYMMETRY SameIds
INVARIANTS
    RowsHaveFiles
    SnapshotForItsFunction
    KeptAcrossRestart
CHECK_DEADLOCK FALSE

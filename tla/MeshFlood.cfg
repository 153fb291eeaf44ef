SPECIFICATION MCSpec
CONSTANTS
    Parts = {"diamond", "triangle", "recovery", "fetch"}
    a = a
    b = b
    c = c
    d = d
    Node = {a, b, c, d}
    Dest = d
    Links <- Diamond
    LinkQuality = {1, 9}
    InitialTtl = 3
    MaxRounds = 1
    MaxChanges = 0
    MaxLosses = 1
    None = None
    Group = {}
    Interface = {0}
    MaxOriginators = 2
    MaxPaths = 4
    MaxMcastMembers = 1
    MaxTq = 10
    HopPenalty = 1
    SeedInterval = 1
    FloorInterval = 1
    KeepaliveSeed = 1
    MaxMissedOgms = 6
    MaxMissedKeepalives = 3
    MaxMissedProofs = 3
    StampAgeCeiling = 6
    HalfSeq = 5
    HalfClock = 7
    Window = 3
    ReorderTolerance = 1
    ResetProtection = 2
    NoWatch = NoWatch
CHECK_DEADLOCK FALSE
INVARIANTS
    
    RelaysLoopFree
    
PROPERTIES
    FloodsSettle
    Readmitted
    Fetched

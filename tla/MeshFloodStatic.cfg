SPECIFICATION MCSpec
CONSTANTS
    Parts = {"diamond"}
    a = a
    b = b
    c = c
    d = d
    Node = {a, b, c, d}
    Dest = d
    Links <- Diamond
    LinkQuality = {4, 9}
    InitialTtl = 4
    MaxRounds = 2
    MaxChanges = 0
    MaxLosses = 0
    None = None
    Group = {}
    Interface = {0}
    MaxOriginators = 2
    MaxPaths = 4
    MaxMcastMembers = 1
    MaxTq = 10
    HopPenalty = 1
    SeedInterval = 1
    FloorInterval = 1
    KeepaliveSeed = 1
    MaxMissedOgms = 6
    MaxMissedKeepalives = 3
    MaxMissedProofs = 3
    StampAgeCeiling = 6
    HalfSeq = 6
    HalfClock = 8
    Window = 3
    ReorderTolerance = 1
    ResetProtection = 2
    NoWatch = NoWatch
INVARIANT SettledLoopFree
CHECK_DEADLOCK FALSE

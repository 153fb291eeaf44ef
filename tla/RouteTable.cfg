SPECIFICATION Spec
CONSTANTS
    s = s
    x = x
    y = y
    z = z
    g = g
    Node = {s, x, y, z}
    None = None
    Self = s
    Neighbor = {x, y, z}
    Group = {}
    Interface = {0}
    MaxOriginators = 2
    MaxPaths = 2
    MaxMcastMembers = 1
    MaxTq = 3
    HopPenalty = 1
    OgmFrames <- OneOrigin
    Revocable = {y, z}
    Quality = {None}
    SeedInterval = 1
    FloorInterval = 1
    KeepaliveSeed = 1
    MaxMissedOgms = 2
    MaxMissedKeepalives = 1
    MaxMissedProofs = 1
    StampAgeCeiling = 2
    Authenticated = TRUE
    PurgePeriod = 2
    MaxEvents = 4
    LastTick = 2
    HalfSeq = 2
    HalfClock = 4
    Window = 1
    ReorderTolerance = 1
    ResetProtection = 1
    NoWatch = NoWatch
INVARIANTS
    BestTracked
    RevokedGone
SYMMETRY Relays
CHECK_DEADLOCK FALSE

SPECIFICATION MCSpec
CONSTANTS
    a = a
    b = b
    c = c
    d = d
    e = e
    f = f
    stranger = stranger
    None = None
    s = s
    r = r
    x = x
    y = y
    z = z
    Station <- Mesh
    source = s
    Medium <- Reach
    Threshold <- Thresholds
    Span <- Spans
    Gated = {"side"}
    Room <- Rooms
    MaxDests <- Dests
    Routes <- RouteTables
    MaxTtl = 3
    MaxUpsets = 2
    Recut = FALSE
    Interleave = TRUE
    Node = {a, b, c, d}
    Origin = {a, b}
    Adjacent <- RingOfFour
    MaxOriginators = 1
    InitialTtl = 2
    Overlap = FALSE
    MaxSends = 2
    MaxReboots = 0
    MaxDups = 1
    MaxLosses = 0
    MaxClock = 1
    HalfSeq = 4
    HalfClock = 4
    Window = 2
    ReorderTolerance = 1
    ResetProtection = 1
    NoWatch = NoWatch
INVARIANTS
    AtMostOnce
    FloodCovers
    
    Accounted
    OnePlace
    Reaches
SYMMETRY Senders
CHECK_DEADLOCK FALSE

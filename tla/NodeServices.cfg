SPECIFICATION MCSpec
CONSTANTS
    u = u
    v = v
    w = w
    Blob = {u, v, w}
    NoBlob = NoBlob
    Mix = Mix
    Writes <- Lengths
    GenCount = 4
    MaxSaves = 4
    RaisedBits = FALSE
    p = p
    q = q
    r = r
    Body = {p, q}
    NoBody = NoBody
    Snapshots <- OldSnapshots
    MaxCopies = 2
    MaxRows = 5
    Iface = {0, 1}
    Bounds <- BackOff
    Cadence <- KeepAlives
    Late = 1
    MaxConfigs = 1
    None = None
    Peer = {p, q}
    Counts = {1, 3}
    Interval = 1
    Timeout = 3
    MaxProbes = 2
    SeqMod = 3
    ClockMod = 5
    Overdue = 1
    Idle = 3
    MaxIssued = 4
    RING_CAPACITY = 2
    Sizes = {1, 2}
    BATCH_BYTE_BUDGET = 2
    Batches = {0, 1}
    MaxRecords = 5
    Condition = {p, q, r}
    ALARM_CAPACITY = 2
    Severity = {1, 2, 3}
    Stale = 1
    MaxNow = 2
    MaxDropped = 3
    RX_QUEUE_DEPTH = 2
    Commands = 2
    InitialDelay = 1
    MaxDelay = 2
    MaxFragments = 2
    MaxPackets = 3
    MaxFaults = 1
    MaxGivenUp = 1
INVARIANTS
    StoredIsAnswered
    OnSchedule
    CreditedRight
    NothingSkipped
    WorstShown
    HandedUpInOrder
PROPERTIES
    Implements
    FileImplements
    SessionEnds
    Recovers

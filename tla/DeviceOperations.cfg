SPECIFICATION Spec
CONSTANTS
    None = None
    Ids = {i1}
    Targets = {allow, block}
    Descriptions = {d1, d2}
    UnknownTarget = unknown
    Policies = {allow, "reject"}
    AllowTarget = allow
    Ops = {o1, o2}
    QUIET_WINDOW <- MCQuietWindow
    MAX_LATENCY <- MCMaxLatency
    RESYNC_THRESHOLD <- MCResyncThreshold
    CHANNEL_CAPACITY <- MCChannelCapacity
    MaxDisturbances = 2
SYMMETRY Symmetry
INVARIANTS
    TypeOK
    MarkedRowHasOperation
    LoneOperationIsMarked
    TableConverges
    ConnectionShown
CHECK_DEADLOCK FALSE

SPECIFICATION Spec
CONSTANTS
    None = None
    Ids = {i1, i2}
    Targets = {allow, block}
    Descriptions = {d1, d2}
    UnknownTarget = unknown
    ProvisionalTarget = block
    QUIET_WINDOW <- MCQuietWindow
    MAX_LATENCY <- MCMaxLatency
    RESYNC_THRESHOLD <- MCResyncThreshold
    CHANNEL_CAPACITY <- MCChannelCapacity
    MaxChanges = 3
    MaxLosses = 0
INVARIANTS
    DisplayIsDaemons
CHECK_DEADLOCK FALSE

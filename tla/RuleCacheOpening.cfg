SPECIFICATION Spec
CONSTANTS
    Ops = {}
    None = None
    CHANNEL_CAPACITY <- MCChannelCapacity
    MaxDisturbances = 1
    MaxShows = 2
PROPERTIES
    OpeningRereads
CHECK_DEADLOCK FALSE

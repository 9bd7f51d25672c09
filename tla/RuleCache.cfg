SPECIFICATION FairSpec
CONSTANTS
    Ops = {o1}
    None = None
    CHANNEL_CAPACITY <- MCChannelCapacity
    MaxDisturbances = 2
    MaxShows = 2
INVARIANTS
    TypeOK
    RulesConverge
    ErrorIsRetried
    NoOperationForgotten
PROPERTIES
    Settles
CHECK_DEADLOCK FALSE

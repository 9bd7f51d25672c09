SPECIFICATION FairSpec
CONSTANTS
    BACKOFF_MIN <- MCBackoffMin
    BACKOFF_MAX <- MCBackoffMax
INVARIANTS
    TypeOK
    BackoffDoubles
PROPERTIES
    KeepsPromise
    FailingServiceWaits
    HeardAppearanceWakes
    Recovers

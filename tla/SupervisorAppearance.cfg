SPECIFICATION FairSpec
CONSTANTS
    BACKOFF_MIN <- MCBackoffMin
    BACKOFF_MAX <- MCBackoffMax
PROPERTIES
    AppearanceWakes

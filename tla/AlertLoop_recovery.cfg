SPECIFICATION FairSpec
CONSTANTS
    a = a
    b = b
    Pools = {a}
    Order <- ListedOnce
    MaxTier = 2
    Faults = {"withhold", "reply"}
    MaxRestarts = 0
PROPERTIES
    RecoveryAlwaysAnnounced

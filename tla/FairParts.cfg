SPECIFICATION FairPartsSpec
CONSTANTS
    a = a
    b = b
    Pools = {a, b}
    Order <- ListedBoth
    MaxTier = 1
    Faults = {"api", "load", "save", "withhold", "reply", "shutdown", "crash"}
    MaxRestarts = 1
    Requests = {"r1", "r2"}
    PriceTTL = 2
    CallLimit = 1
    Quotes = {1, 2}
    StakeEpochs = 2
    MaxDelegators = 3
    Lovelace <- OneMoreEach
    PagingCount = 2
    MaxFailures = 1
    LastSlot = 5
    EpochSlots = 3
INVARIANTS
    PriceKept
    SnapshotWhole
    ShareOfWhole
PROPERTIES
    ViolationAnnounced
    RecoveryAnnounced
    AskedOncePerTTL
    EveryRequestAnswered
    SnapshotTaken
    HealthCatchesUp

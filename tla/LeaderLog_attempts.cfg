SPECIFICATION Spec
CONSTANTS
    p1 = p1
    l1 = l1
    l2 = l2
    Empty = Empty
    Other = Other
    Pools = {p1}
    NSlots = 2
    Epochs = {0}
    EpochOf <- OneEpoch
    Leader <- LeadsFirst
    Busy = {2}
    SettleMargin = 0
    Faults = {"tip", "key", "stale", "pool", "cli", "crash", "reorg"}
    Listings = {l1, l2}
    PoolOf <- BothListP1
    MaxAttempts = 1
    CLIParallel = 2
    BackfillEpochs = 1
    PageSize = 2
    MaxRestarts = 1
INVARIANTS
    AttemptsBounded
    NoFalseAnomaly
    NoFabricatedMiss

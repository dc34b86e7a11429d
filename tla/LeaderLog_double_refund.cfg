SPECIFICATION Spec
CONSTANTS
    p1 = p1
    l1 = l1
    l2 = l2
    Empty = Empty
    Other = Other
    Pools = {p1}
    NSlots = 3
    Epochs = {0, 1}
    EpochOf <- TwoEpochs
    Leader <- LeadsOneEach
    Busy = {2, 3}
    SettleMargin = 0
    Faults = {"shutdown", "pool"}
    Listings = {p1}
    PoolOf <- EachItself
    MaxAttempts = 2
    CLIParallel = 1
    BackfillEpochs = 1
    PageSize = 2
    MaxRestarts = 1
INVARIANTS
    AttemptsNonNegative

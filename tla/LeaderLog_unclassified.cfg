SPECIFICATION FairSpec
CONSTANTS
    p1 = p1
    l1 = l1
    l2 = l2
    Empty = Empty
    Other = Other
    Pools = {p1}
    NSlots = 2
    Epochs = {0}
    EpochOf <- OneEpoch
    Leader <- LeadsFirst
    Busy = {2}
    SettleMargin = 0
    Faults = {}
    Listings = {p1}
    PoolOf <- EachItself
    MaxAttempts = 2
    CLIParallel = 1
    BackfillEpochs = 1
    PageSize = 2
    MaxRestarts = 0
PROPERTIES
    UnclassifiedPickedUp

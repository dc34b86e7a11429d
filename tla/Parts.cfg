SPECIFICATION PartsSpec
CONSTANTS
    a = a
    b = b
    Pools = {a, b}
    Order <- ListedTwice
    MaxTier = 2
    Faults = {"api", "load", "save", "withhold", "reply", "shutdown", "crash"}
    MaxRestarts = 1
    Window = 4
    MaxKesEvolutions = 3
    KesPeriod = 2
    Thresholds <- ThreeTiers
    ForgeGap = 2
    PassGap = 1
    KesFaults = {"probe", "load", "save", "crash"}
    MaxTime = 6
    MaxCerts = 2
    EpochTicks = 12
    NetworkBlocks = 20
    Floor = 2
    Cap = 6
    K = 2
    MinBlocksEpoch = 2
    Stakes = {0, 10, 50, 100}
    DParams = {0, 60}
    NetworkFaults = {"epoch", "params", "pool"}
    LastEpoch = 1
    Day = 6
    ClockShift = 1
    MaxChanges = 1
    MaxBytes = 40
    SepBytes = 2
    CountText = 9
    PartsText = 13
    Base = 2
    TextLengths = {1, 5, 12, 21}
    MaxAlerts = 5
    FeeEpochs = 4
    Params <- TwoFees
    MaxReward = 5
    NFiles = 2
    PoolIds = {"p1"}
    SinglePool = "all pools"
    BoardSlots = 3
    BoardEpochOf <- TwoSlotEpochs
    Leads <- LeadsAll
INVARIANTS
    TypeOK
    OnePerPass
    BoundaryFound
    SearchIsShort
    EstimateNearExpiry
    DecentralisationCurrent
    QuietIsTheWindow
    DeferralsEnd
    MessagesFit
    BatchCarried
    EstimateAsLedger
    PoolsNeverEmptied
    OkShowsWholeSchedule
PROPERTIES
    CommitFollowsDelivery
    NothingToldTwice
    TierFollowsRenewal
    StallAsDocumented
    SteadyFilesListed

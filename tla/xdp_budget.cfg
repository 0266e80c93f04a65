\* How much a source and a spoofed flood get through in any second.
CONSTANTS
    CPU = {c1}
    Src = {s1, s2, s3, s4}
    V4 = {}
    NoSrc = NoSrc
    Low32 <- MCLow32
    Packets <- MCPackets
    Configs <- MCConfigs
    PortRules <- MCPortRules
    Window = 2
    AmpLimit = 1
    RingCap = 1
    DaemonExpiry = {}
    Reclaimable = {"throttle"}
    WhitelistFile = {}
    BlacklistFile = {}
    MaxTime = 4
    Cost <- MCCost
    WriteCost = 2
    MaxSpent = 6
SPECIFICATION BudgetSpec
SYMMETRY Symmetric
INVARIANTS AcceptBudget ListingBudget
CHECK_DEADLOCK FALSE

\* Every stage of the data plane, every map full at times.
CONSTANTS
    CPU = {c1, c2}
    Src = {s1, s2}
    V4 = {s1}
    NoSrc = NoSrc
    Low32 <- MCLow32
    Packets <- MCPackets
    Configs <- MCConfigs
    PortRules <- MCPortRules
    Window = 3
    AmpLimit = 1
    RingCap = 1
    DaemonExpiry = {0, 4}
    Reclaimable = {"blacklist", "known", "rates", "flow"}
    WhitelistFile = {}
    BlacklistFile = {}
    MaxTime = 4
    Cost <- MCCost
    WriteCost = 4
    MaxSpent = 8
SPECIFICATION Spec
SYMMETRY Symmetric
INVARIANTS TypeOK Accounting LockdownSealed
PROPERTIES SentenceServed BansKept ReportsSpaced
CHECK_DEADLOCK FALSE

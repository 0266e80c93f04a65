\* More sources and pairs than the board, the log and the limiter keep.
CONSTANTS
    Src = {s1, s2, s3}
    Types = {"syn_flood", "geoip_blocked"}
    AlertEvents = {"rule_trigger"}
    Intervals = {0, 1}
    PostTimeout = 1
    Second = 2
    MaxPerSecond = 2
    DedupTTL = 2
    PruneAt = 1
    BoardCap = 2
    EvictCount = 1
    BoardTTL = 1
    RingCap = 1
    MaxTime = 2
    MaxEvents = 5
SYMMETRY Symmetry
SPECIFICATION Spec
INVARIANTS TypeOK LeaderboardCapped EventBudget DedupBounded PostsBounded
    PostsBudgeted
PROPERTIES LogsSpaced RecentStay
CHECK_DEADLOCK FALSE

\* A CPU, the consumer and the sweeper on one blacklist, and an alias.
CONSTANTS
    CPU = {c1}
    v4 = v4
    mapped = mapped
    Src = {p, v4, mapped}
    Named <- MCNamed
    NoSrc = NoSrc
    PermanentIPs = {p}
    Durations = {0, 1}
    Epoch = 9
    RingCap = 1
    MaxTime = 2
    MaxFrames = 2
SPECIFICATION FairSpec
INVARIANTS TypeOK PermanentBansHold OnlyOffendersBanned
PROPERTIES TemporaryBansEnd ImplementsPolicy
CHECK_DEADLOCK FALSE

\* The sweeper compares kernel timestamps with the wall clock.
CONSTANTS
    CPU = {c1, c2}
    v4 = v4
    mapped = mapped
    Src = {p, v4}
    Named <- MCNamed
    NoSrc = NoSrc
    PermanentIPs = {p}
    Durations = {2}
    Epoch = 9
    RingCap = 1
    MaxTime = 4
    MaxFrames = 2
SPECIFICATION Spec
PROPERTY BanLasts
CHECK_DEADLOCK FALSE

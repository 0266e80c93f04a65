\* A reload to ban_duration_sec 0 overtakes an event on its way to BanIP().
CONSTANTS
    CPU = {c1}
    v4 = v4
    mapped = mapped
    Src = {p, v4}
    Named <- MCNamed
    NoSrc = NoSrc
    PermanentIPs = {p}
    Durations = {0, 1}
    Epoch = 9
    RingCap = 1
    MaxTime = 2
    MaxFrames = 1
SPECIFICATION Spec
PROPERTY ZeroBansNobody
CHECK_DEADLOCK FALSE

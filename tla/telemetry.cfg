\* Two CPUs, the monitor and a read that may fail.
CONSTANTS
    CPU = {c1, c2}
    Protos = {"udp", "syn"}
    DropLimit = 1
    Weight = 4
    MaxMissed = 1
    MaxFrames = 2
SPECIFICATION FairSpec
INVARIANTS TypeOK ReasonsCoverDrops CountedOnce
PROPERTY AttacksEnd

SPECIFICATION LiveSpec
CONSTANTS
    Tasks = {t1, t2}
    Ops = {"save", "snapshot", "restore", "evict"}
    Overlap = FALSE
    Flaky = FALSE
    MaxWrites = 2
    MaxFails = 0
    MaxCrashes = 1
CHECK_DEADLOCK FALSE
INVARIANTS
    EvictableMirrored
    IndexFlushed
PROPERTIES
    ImplementsRegister
    MirrorCatchesUp

SPECIFICATION Spec
CONSTANTS
    Tasks = {t1}
    Ops = {"save", "snapshot", "delete", "override", "restore", "evict"}
    Overlap = FALSE
    Flaky = TRUE
    MaxWrites = 3
    MaxFails = 1
    MaxCrashes = 1
CHECK_DEADLOCK FALSE
INVARIANTS
    
    IndexFlushed

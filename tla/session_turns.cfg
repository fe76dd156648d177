SPECIFICATION Spec
CONSTANTS
    Clients = {a, b}
    Flushers = {sweeper}
    Agents = {}
    Binary = TRUE
    Paged = TRUE
    Removals = {2}
    Coincide = {"failFlatten"}
    MaxEdits = 3
    MaxHandles = 2
    MaxFails = 1
    MaxRestarts = 1
    MaxDeletes = 1
SYMMETRY ClientSymmetry
CHECK_DEADLOCK FALSE
INVARIANTS
    EditsKept
    CleanIsDurable
    WritesReachAll
    NothingUnearthed
PROPERTIES
    ImplementsEditLog

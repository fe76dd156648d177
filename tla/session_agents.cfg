SPECIFICATION LiveSpec
CONSTANTS
    Clients = {a}
    Flushers = {sweeper}
    Agents = {agent, bot}
    Binary = TRUE
    Paged = TRUE
    Removals = {2}
    Coincide = {}
    MaxEdits = 3
    MaxHandles = 2
    MaxFails = 1
    MaxRestarts = 0
    MaxDeletes = 0
CHECK_DEADLOCK FALSE
INVARIANTS
    EditsKept
    JsonCurrent
    ColdReadIsCurrent
PROPERTIES
    EditsReachDisk

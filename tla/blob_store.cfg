SPECIFICATION LiveSpec
CONSTANTS
    d1 = d1
    d2 = d2
    w1 = w1
    w2 = w2
    Workspaces = {w1, w2}
    Docs = {d1, d2}
    Shared = shared
    Tasks = {t1, t2}
    Sweeper = sweeper
    Modes <- AllModes
    Coincide = {}
    MaxOps = 3
    MaxRestarts = 1
CHECK_DEADLOCK FALSE
INVARIANTS
    UsedIsReadable
    BooksBalance
PROPERTIES
    OrphansReclaimed

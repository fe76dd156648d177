SPECIFICATION LiveSpec
CONSTANTS
    Mine = {m1}
    Theirs = {t1}
    Coincide = {}
    FrameCap = 1
    Ceiling = 2
    BroadcastRoom = 1
    MaxAttempts = 1
    MaxTroubles = 3
CHECK_DEADLOCK FALSE
INVARIANTS
    Coherent
PROPERTIES
    EditsReachRelay
    EditsReachEditor
    DeadIsNoticed

SPECIFICATION LiveSpec
CONSTANTS
    Editors = {a, b}
    Ids = {x, y}
    Names = {m, n}
    Absent = Absent
    None = None
    MaxChanges = 2
    MaxTroubles = 1
    MaxReconciles = 1
    Coincide = {}
INVARIANTS
    ConfirmedStays
    CreatedKept
    RenamePushed
PROPERTIES
    Converges

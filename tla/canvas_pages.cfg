CONSTANTS
    Pages = {p1, p2, p3}
    Shapes = {s1, s2}
    NoPage = NoPage
    MaxDrops = 2
    Coincide = {}
SPECIFICATION Spec
SYMMETRY Interchangeable
CHECK_DEADLOCK FALSE
INVARIANTS
    PagesApart
    DrawnIsKept
    ErasedStaysErased
    PagesShared
    ViewFollowsSurface

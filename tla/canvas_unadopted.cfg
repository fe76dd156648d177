CONSTANTS
    Pages = {p1, p2, p3}
    Shapes = {s1, s2}
    NoPage = NoPage
    MaxDrops = 1
    Coincide = {"moveUnadopted"}
SPECIFICATION Spec
SYMMETRY Interchangeable
CHECK_DEADLOCK FALSE
INVARIANTS
    PagesApart

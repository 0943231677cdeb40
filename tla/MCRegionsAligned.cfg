\* The threshold, for blocks that start on a slot boundary.
CONSTANTS
    t1 = t1
    g1 = g1
    g2 = g2
    AppThreads = {t1}
    Regs = {g1, g2}
    None = None
    REGION_SIZE = 2
    LeafSlots = 2
    Fan = 3
    Depth = 1
    Space = 12
    MaxSize = 5
    AlignedStarts = TRUE
    MayMove = FALSE
SPECIFICATION Spec
SYMMETRY Symmetry
INVARIANTS
    Handled

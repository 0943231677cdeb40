\* structures.c: two threads, blocks that start inside a slot, a tree of two levels.
CONSTANTS
    t1 = t1
    t2 = t2
    p1 = p1
    p2 = p2
    w1 = w1
    w2 = w2
    w3 = w3
    b1 = b1
    b2 = b2
    AppThreads = {t1, t2}
    Regs = {w1, w2, w3}
    None = None
    REGION_SIZE = 2
    LeafSlots = 2
    Fan = 3
    Depth = 1
    Space = 11
    MaxSize = 5
    AlignedStarts = FALSE
    MayMove = FALSE
SPECIFICATION AllSpec
SYMMETRY Symmetry
INVARIANTS
    
    IndexFinds
    StaleKept
    Consistent
    PurgeSafe
    SecExact
    PacExact
    BinsExact

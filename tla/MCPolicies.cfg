\* lru.c: two blocks of at most three chunks, two fast chunks, two threads.
CONSTANTS
    t1 = t1
    t2 = t2
    b1 = b1
    b2 = b2
    b3 = b3
    b4 = b4
    w1 = w1
    w2 = w2
    w3 = w3
    AppThreads = {t1, t2}
    Sampler = Sampler
    None = None
    Blocks = {b1, b2}
    Aligned = {}
    MaxChunks = 3
    FastChunks = 2
SPECIFICATION AllSpec
SYMMETRY Symmetry
INVARIANTS
    ListUse
    FastUse
    
    WindowCounts
    
    Placed
    ProfRight
PROPERTIES
    RecencySpec

\* The comment on the promotion of a chunk when another region is freed.
CONSTANTS
    t1 = t1
    t2 = t2
    b1 = b1
    b2 = b2
    b3 = b3
    AppThreads = {t1, t2}
    Sampler = Sampler
    None = None
    Blocks = {b1, b2, b3}
    Aligned = {}
    MaxChunks = 2
    FastChunks = 2
SPECIFICATION Spec
SYMMETRY Symmetry
INVARIANTS
    FastIsFast

\* Two readers of one descriptor: the comment in sample_read.
CONSTANTS
    t1 = t1
    t2 = t2
    r1 = r1
    r2 = r2
    s1 = s1
    s2 = s2
    Threads = {t1, t2}
    Readers = {r1, r2}
    Samples = {s1, s2}
    None = None
    Timer = Timer
    PerVmaLocks = FALSE
    SharedFd = TRUE
    MayExit = FALSE
SPECIFICATION Spec
SYMMETRY Symmetry
INVARIANTS
    NoDuplicate

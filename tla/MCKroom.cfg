\* Two threads, one reader, fork and exit; faults under per-VMA locks (6.5, 6.6).
CONSTANTS
    t1 = t1
    t2 = t2
    r1 = r1
    s1 = s1
    s2 = s2
    Threads = {t1, t2}
    Readers = {r1}
    Samples = {s1, s2}
    None = None
    Timer = Timer
    PerVmaLocks = TRUE
    SharedFd = FALSE
    MayExit = TRUE
SPECIFICATION Spec
SYMMETRY Symmetry
INVARIANTS
    NoDuplicate
    NoTornSample
    NoLostSample
    PoisonArmed
    NoBogusEntry
    
    SamplerMmAlive
PROPERTIES
    MailboxSpec
\* The process may exit.
CHECK_DEADLOCK FALSE

\* Liveness: a thread, two readers of one descriptor and the timer; fork, exit and release; mmap_lock faults.
CONSTANTS
    t1 = t1
    r1 = r1
    r2 = r2
    s1 = s1
    Threads = {t1}
    Readers = {r1, r2}
    Samples = {s1}
    None = None
    Timer = Timer
    PerVmaLocks = FALSE
    SharedFd = TRUE
    MayExit = TRUE
SPECIFICATION FairSpec
PROPERTIES
    
    ReaderServed
    ReleaseCompletes
\* The process may exit.
CHECK_DEADLOCK FALSE

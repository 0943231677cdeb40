\* jemalloc.c: two threads that each call twice, up to four processors, stages of each phase that fail.
CONSTANTS
    t1 = t1
    t2 = t2
    Nil = Nil
    Threads = {t1, t2}
    MaxCalls = 2
    MaxCpus = 4
    Limit = 5
    Narenas = {0, 3, 9}
    Failing = {"pages_boot", "tsd_boot0", "background_thread_create"}
SPECIFICATION AllSpec
SYMMETRY Symmetry
INVARIANTS
    BootRight
    ConfRight
    NamesRight
    

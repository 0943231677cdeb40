\* Hooks: three threads, realloc may move blocks, one call nested in the initialisation.
CONSTANTS
    h1 = h1
    h2 = h2
    h3 = h3
    p1 = p1
    p2 = p2
    p3 = p3
    Threads = {h1, h2, h3}
    Main = h1
    None = None
    Blocks = {p1, p2, p3}
    InitNests = 1
    MaxDepth = 4
    MayMove = TRUE
SPECIFICATION AllSpec
INVARIANTS
    PluginSafe
    
    ClassesRight
    ForkRight
    BackgroundRight
    StatsRight
    LogsRight

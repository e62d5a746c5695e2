SPECIFICATION AllSpec
CONSTANTS
    Threads = {t1, t2}
    PageSize = 4
    PoolSize = 6
    MaxAlloc = 2
    GuardEnd = 5
    NoThread = NoThread
    LoggerThreads = {l1, l2, l3}
    Quota = 2
    Places = {p1, p2, p3}
    MaxId = 4
    Originals = {"default", "ignore", "user"}
    MaxPools = 3
    None = None
    MAX_ASSOC = 4
    Bits = 2
    Stride <- Shifts
SYMMETRY Interchangeable
INVARIANTS
    AllTyped
    ObjectsTile
    ExhaustionFaults
    PointersOrdered
    AssertionsHold
    DispositionRestored
    DepletionReported
    ReadsSafely
    
    ProbeMeasures
CHECK_DEADLOCK FALSE

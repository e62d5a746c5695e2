SPECIFICATION Spec
CONSTANTS
    Threads = {t1, t2}
    ClassOf <- BothClasses
    Quota = 2
    Places = {p1, p2}
    MaxId = 2
    Originals = {"user"}
    None = None
INVARIANTS
    DepletionReported
CHECK_DEADLOCK FALSE

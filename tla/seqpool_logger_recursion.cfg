SPECIFICATION Spec
CONSTANTS
    Places = {p1, p2}
    MaxPools = 2
    None = None
PROPERTIES
    HandsOver
CHECK_DEADLOCK FALSE

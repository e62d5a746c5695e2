SPECIFICATION BothSpec
CONSTANTS
    Programs <- SmallPrograms
    Globals = 2
    Unreached = Unreached
    MaxVstack = 10000
    MaxFrames = 3
    SmallStack = 5
INVARIANTS
    BothTyped
    RunsAsVerified
    OperandsExist
PROPERTIES
    VerdictOnAll
    ChecksSpared
CHECK_DEADLOCK FALSE

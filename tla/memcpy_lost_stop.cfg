SPECIFICATION FairSpec
CONSTANTS
    N = 2
    Sizes = {4}
    MaxCalls = 1
    Client = Client
    Free = Free
PROPERTIES
    IdleWorkersStop
CHECK_DEADLOCK FALSE

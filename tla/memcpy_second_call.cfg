SPECIFICATION FairSpec
CONSTANTS
    N = 2
    Sizes = {4}
    MaxCalls = 2
    Client = Client
    Free = Free
PROPERTIES
    EveryCallReturns
CHECK_DEADLOCK FALSE

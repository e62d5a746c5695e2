SPECIFICATION FairSpec
CONSTANTS
    N = 3
    Sizes = {2, 6, 7}
    MaxCalls = 2
    Client = Client
    Free = Free
INVARIANTS
    TypeOK
    QuietOutsideJob
    Accounting
    OneChunkPerJob
    NoOverlap
    ReturnedChunksCopied
PROPERTIES
    ImplementsCopy
    FirstCallReturns
CHECK_DEADLOCK FALSE

SPECIFICATION Spec
CONSTANTS
    N = 3
    Sizes = {3, 4, 5, 6, 7}
    MaxCalls = 1
    Client = Client
    Free = Free
INVARIANTS
    WholeBufferCopied
CHECK_DEADLOCK FALSE

SPECIFICATION SequentialSpec
CONSTANTS
    WordSize = 8
    CharBits = 6
    HashBits = 4
    Radix = 4
    STRINGBUF_INIT = 2
    TagLimit = 2
    ConsTag <- ConsName
    Client = Client
    Free = Free
    MaxCalls = 1
    PlainSizes = {0, 1, 2, 3}
    Bytecodes <- SmallBytecodes
    Trees = {}
    rare_thresh = 2
    HashRange = 16
INVARIANTS
    PairsBelowZero
CHECK_DEADLOCK FALSE

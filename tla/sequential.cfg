SPECIFICATION SequentialSpec
CONSTANTS
    STRINGBUF_INIT = 2
    WordSize = 8
    CharBits = 6
    HashBits = 4
    Radix = 4
    TagLimit = 2
    ConsTag <- ConsName
    Client = Client
    Free = Free
    MaxCalls = 1
    PlainSizes = {0, 1, 2, 3}
    Bytecodes <- SmallBytecodes
    Trees <- SmallTrees
    rare_thresh = 2
    HashRange = 16
INVARIANTS
    ValuesOrdered
    LibraryAgrees
    ReportExact
    NamesResolve
    PatternsTakeApart
PROPERTIES
    PlainCallsCopy
CHECK_DEADLOCK FALSE

SPECIFICATION Spec
CONSTANTS
    MinimumCapacity = 4
    Bases = {256, 512}
    Words = {1}
    Chunks = {264}
    Heads = {264}
    MaxStack = 2
    ArraySizes = {0, 2}
    SexpSizes = {1}
    Captures = {1}
    MaxObjects = 3
INVARIANTS
    TypeOK
    FlagsKept
    MarksWhatIsReachable
    SlidesDown
PROPERTIES
    CollectionMakesRoom
    ImplementsStore
CHECK_DEADLOCK FALSE

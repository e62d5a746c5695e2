SPECIFICATION Spec
CONSTANTS
    Objects = {o1, o2, o3}
    Addresses = {2, 4, 6}
    Strings = {s1, s2}
    Empty = Empty
    Free = Free
    Dead = Dead
    Unspecified = Unspecified
SYMMETRY Interchangeable
INVARIANTS
    TypeOK
    OwnersAreUnique
    NothingDangles
    FreesAnnounced
PROPERTIES
    KeepsValues

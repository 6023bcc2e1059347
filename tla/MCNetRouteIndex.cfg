CONSTANTS
    Nets = {n1, n2}
    Froms = {f1, f2, f3}
    Tos = {1}
    Alone = f3
    Tiles = {t1, t2}
    MaxId = 2
    NoAnswer = NoAnswer
    Hash <- OneCollision
    Addresses = {a1, a2}
    CacheLimit = 1
    MaxRevision = 3
SPECIFICATION Spec
INVARIANTS
    TypeOK
    LookupsExact
    RegistrationsExact
    OwnersExact
PROPERTIES
    ImplementsSearch
SYMMETRY Interchangeable
VIEW WithoutAnswer
CHECK_DEADLOCK FALSE

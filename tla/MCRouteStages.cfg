SPECIFICATION Spec
CONSTANTS
    Conns = {"pX", "pY", "qZ", "qW"}
    Ports = {"p", "q"}
    Cells = {"A", "B", "X", "Y", "Z", "W"}
    From <- Star
    Owner <- StarOwner
    To <- StarTo
    Fixed = {"B", "W"}
    NoCell = "none"
    FanoutPasses = 2
INVARIANTS TypeOK ReturnedComplete NothingLost TrunkBarrier SourcesOnce
PROPERTY Progress
CHECK_DEADLOCK FALSE

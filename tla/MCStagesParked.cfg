SPECIFICATION Spec
CONSTANTS
    Conns = {"pX", "pY", "qZ", "qW"}
    Ports = {"p", "q"}
    Cells = {"A", "B", "X", "Y", "Z", "W"}
    From <- Star
    Owner <- StarOwner
    To <- StarTo
    Fixed = {}
    NoCell = "none"
    FanoutPasses = 2
INVARIANT NoneParked
CHECK_DEADLOCK FALSE

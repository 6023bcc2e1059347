SPECIFICATION Spec
CONSTANTS
    Conns = {"pX1", "pX2", "pY", "pZ"}
    Ports = {"p"}
    Cells = {"A", "X", "Y", "Z"}
    From <- Fan
    Owner <- FanOwner
    To <- FanTo
    Fixed = {}
    NoCell = "none"
    FanoutPasses = 2
INVARIANT NoDeferredExit
CHECK_DEADLOCK FALSE

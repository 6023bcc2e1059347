SPECIFICATION Spec
CONSTANTS
    Conns = {"pX", "rY", "qA"}
    Ports = {"p", "q", "r"}
    Cells = {"A", "B", "X", "Y"}
    From <- Twin
    Owner <- TwinOwner
    To <- TwinTo
    Fixed = {}
    NoCell = "none"
    FanoutPasses = 2
INVARIANT NothingLost
CHECK_DEADLOCK FALSE

SPECIFICATION Spec
CONSTANTS
    Cells <- MCCells
    Placeable = {"a", "b", "c"}
    Movable = {"a", "b"}
    Orphans = {"b"}
    Plan <- MCPlan
    Conns <- MCConns
    DriverOf <- MCDriverOf
    SinkOf <- MCSinkOf
    Direct = {"dir"}
    Sites = {1, 2, 3, 4, 5}
    NoSite = 0
INVARIANTS TypeOK LaterRunsPending RunsSettled FinalComplete Restored
PROPERTIES PendingUntouched CompletedKept Returns
CHECK_DEADLOCK FALSE

SPECIFICATION Spec
CONSTANTS
    CellOrder <- MCOrder
    NameRank <- MCNames
    Bunches = {"br", "bq"}
    NoBunch = "none"
    BunchOf <- MCBunchOf
    RegOf <- MCRegOf
    Feeds <- MCFeeds
    Strict <- MCStrict
    Clocked <- MCClocked
    Deficits = {0, 1}
    Delay <- MCDelay
    MaxRunCells = 4
INVARIANTS TypeOK Forest CoveredOnce NothingSplit ClocksAnchored RunsSized CriticalFirst
CHECK_DEADLOCK FALSE

SPECIFICATION Spec
CONSTANTS
    Sources <- MCSources
    SrcNodes <- MCSrcNodes
    DstNodes <- MCDstNodes
    Pins <- MCPins
    Landing <- MCLanding
    FanIn <- MCFanIn
    Entry <- MCEntry
    TileOf <- MCTileOf
    NoNode = "none"
    Bindings <- MCBindings
    BindingOrder <- MCOrder
    Nets = {"na", "alias", "nb"}
    NetOf <- MCNetOf
    SourceOf <- MCSourceOf
    PinOf <- MCPinOf
    Backstepped <- MCBindings
    MoveSets = {}
    Protected = {}
    MaxHops = 2
INVARIANTS TypeOK NoOrphanLease UsedNodesLeased SingleDriver RegistrationExact Continuous HoleBoundariesHeld
PROPERTY StepsBackAlone

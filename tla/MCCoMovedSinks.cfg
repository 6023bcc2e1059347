SPECIFICATION Spec
CONSTANTS
    Sources <- MCSources
    SrcNodes <- ShortSrcNodes
    DstNodes <- ShortDstNodes
    Pins <- MCPins
    Landing <- ShortLanding
    FanIn <- ShortFanIn
    Entry <- ShortEntry
    TileOf <- ShortTileOf
    NoNode = "none"
    Bindings <- MCBindings
    BindingOrder <- MCOrder
    Nets = {"na", "alias", "nb"}
    NetOf <- MCNetOf
    SourceOf <- MCSourceOf
    PinOf <- MCPinOf
    Backstepped = {}
    MoveSets <- MCCluster
    Protected = {}
    MaxHops = 2
INVARIANT SharedHopsOwned

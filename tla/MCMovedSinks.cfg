SPECIFICATION Spec
CONSTANTS
    Sources <- MCSources
    SrcNodes <- ShortSrcNodes
    DstNodes <- ShortDstNodes
    Pins <- MCPins
    Landing <- ShortLanding
    FanIn <- ShortFanIn
    Entry <- ShortEntry
    TileOf <- NearTileOf
    NoNode = "none"
    Bindings <- MCBindings
    BindingOrder <- MCOrder
    Nets = {"na", "alias", "nb"}
    NetOf <- MCOneNet
    SourceOf <- MCSourceOf
    PinOf <- MCPinOf
    Backstepped = {"b1"}
    MoveSets <- MCMoveSets
    Protected = {}
    MaxHops = 2
INVARIANTS NoOrphanLease UsedNodesLeased RegistrationExact SharedHopsOwned LeasesSound
PROPERTY ExchangeIsTransit

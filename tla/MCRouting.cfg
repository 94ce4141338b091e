\* Three fleets that change three times.
CONSTANTS
    NodeIds <- ThreeNodes
    Models <- TwoModels
    Subscribers <- InConfiguration
    Requests <- BothModes
    Orders <- MapOrders
    Reports <- HeartbeatReports
    Results <- BenchmarkResults
    EndpointTrust <- LanTrust
    Fleets <- RunningFleets
    Window = 1
    BenchWindow = 1
    MaxResults = 2
    MaxEvents = 3
    NoRec = NoRec
SPECIFICATION RoutingSpec
CHECK_DEADLOCK FALSE
INVARIANTS
    DecisionFollowsPolicy
    RoutedNodesAreAlive
    ConsensusIsStricter

SPECIFICATION MCSpec
CONSTANTS
    Containers = {"c1", "c2"}
    Requests <- MCNetworks
INVARIANTS
    NetworksReleased
    PortsAreSeparate
    BundleTreeIsAsAsked
    FetchesAreSound
    TreeIsAsAsked
    LaunchIsSound
    WritersAreAlone
    RunsAsListed
CHECK_DEADLOCK FALSE

SPECIFICATION MCSpec
CONSTANTS
    Instances = {"i1", "i2", "i3"}
    Timeout = 2
INVARIANTS
    StopEffective
    GraceBounded
    ChainIsSound
    DriversAreSafe
    RegistryIsTrue
    ContainerIsShared
PROPERTIES
    WaitsEnd
CHECK_DEADLOCK FALSE

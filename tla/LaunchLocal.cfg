SPECIFICATION LocalSpec
CONSTANTS
    Containers = {"c1", "c2"}
    Requests <- MCNetworks
INVARIANT OnlyPulledRemoved
CHECK_DEADLOCK FALSE

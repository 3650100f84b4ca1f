SPECIFICATION ImageSpec
CONSTANTS
    Containers = {"c1", "c2"}
    Requests <- MCNetworks
PROPERTY ImageIsKept
CHECK_DEADLOCK FALSE

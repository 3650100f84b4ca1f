SPECIFICATION Spec
CONSTANTS
    Instances = {i1, i2}
    Timeout = 2
INVARIANTS
    GraceRespected
CHECK_DEADLOCK FALSE

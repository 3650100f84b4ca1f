SPECIFICATION Spec
CONSTANTS
    Admins = {"r1", "r2"}
    Items = {"a", "b", "localtime"}
    MaxEdits = 2
INVARIANT UnsetRemoves
CHECK_DEADLOCK FALSE

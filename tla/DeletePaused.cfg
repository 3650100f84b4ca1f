SPECIFICATION Spec
CONSTANTS
    Masters = {m1}
    Clients = {c1, c2, c3}
    None = None
    Ops = {"start", "pause", "delete"}
    MayFail = FALSE
    MayTimeout = FALSE
    Early = FALSE
PROPERTIES
    DeleteSparesPaused
CHECK_DEADLOCK FALSE

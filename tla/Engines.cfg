SPECIFICATION MCSpec
CONSTANTS
    Masters = {"m1"}
    Clients = {"c1", "c2", "c3"}
    None = "none"
    Ops = {"start", "kill", "pause", "resume"}
    MayFail = TRUE
    MayTimeout = FALSE
    Early = TRUE
INVARIANTS
    ReportsAreTrue
    DeletedStaysGone
    BundleIsAsReported
    EndsLikeCommand
PROPERTIES
    Lifecycle
    EndsAreNoticed
CHECK_DEADLOCK FALSE

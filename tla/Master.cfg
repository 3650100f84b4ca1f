SPECIFICATION FairSpec
CONSTANTS
    IsInstance = TRUE
    SignalPropagation = TRUE
    Resources = {"mounts", "cgroup"}
    ExitStatuses <- MCExitStatuses
    SigCap = 2
    MaxSignals = 1
INVARIANTS
    ExitFaithful
    ParentTruth
    FailedStartUnrecorded
    SettledReleased
PROPERTIES
    EndReported
CHECK_DEADLOCK FALSE

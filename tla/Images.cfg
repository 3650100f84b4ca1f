SPECIFICATION MCSpec
CONSTANTS
    Procs = {"p1", "p2"}
    MaxLoopDevices = 2
    Views <- MCViews
    Hosts <- MCHosts
    sleepRetries = 2
    None = "none"
    Foreign = "foreign"
    MaxRuns = 2
    MaxCrashes = 1
    MayFail = TRUE
INVARIANTS
    LoopsAreTheirs
    RootedWritesLand
    BuildIsSound
PROPERTIES
    ImageStepsEnd
CHECK_DEADLOCK FALSE

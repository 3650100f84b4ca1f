SPECIFICATION MCSpec
CONSTANTS
    Procs = {p1, p2}
    MaxVersions = 1
    MaxPulls = 2
    MaxCleans = 1
    MaxFails = 1
    MaxCrashes = 1
INVARIANTS
    GivesItsImage
    EntriesAreSound
    PullsEndWell
    RemotesAreUsable
    GrantsAreSound
    KeysAreKept
    ListedLoads
    EditIsLocal
    OutputIsWhole
    DefinitionIsDeclared
SYMMETRY Symmetry
CHECK_DEADLOCK FALSE

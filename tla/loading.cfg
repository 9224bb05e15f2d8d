SPECIFICATION MCSpec
CONSTANTS
    CoreModules = {"math"}
    ModuleNames = {"m"}
    Dirs = {"app"}
    HomeSet = FALSE
    MaxLoads = 3
    Bases = {p1}
    MaxPad = 1
    Versions = {"1.0", "2.0"}
    MaxVms = 2
    MaxGlobals = 2
INVARIANTS ListsSound LastLoadCached  InstallTruthful VersionsOrdered
CHECK_DEADLOCK FALSE

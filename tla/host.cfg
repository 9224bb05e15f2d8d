SPECIFICATION MCSpec
CONSTANTS
    Scripts = {1, 2, 3}
    Names = {1, 3, 9}
    OtherNames = {9}
    Buckets = 2
    MaxCached = 2
    MaxChanges = 3
    Vms = {1, 2, 3, 4}
    Configs <- MCConfigs
    Defaults <- MCDefaults
    MaxConfig = 5
    Window = 2
    SizeLimit = 6
    ModuleNames = {"a", "b"}
    CustomPaths = {"lib"}
    Places <- MCPlaces
    MaxPaths = 8
    MaxModules = 2
    MaxLocals = 1
    MaxArgs = 1
    MaxNesting = 3
    MaxImports = 3
    VirtualPaths <- MCVirtualPaths
    Hosts = {"h1", "h2"}
    Queries <- MCQueries
    Unsafe = {".", ".."}
    LinksOut = {"link"}
    FirstCapacity = 2
    MaxMounts = 4
    FirstSuites = 1
    MaxSuites = 3
    MaxTests = 3
    MaxRuns = 2
INVARIANTS CacheSound PoolOwned   ResultsCounted
PROPERTIES DisableReturns
CHECK_DEADLOCK FALSE

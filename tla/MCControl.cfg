SPECIFICATION MCSpec
CONSTANTS
    h1 = h1
    h2 = h2
    Hosts = {h1, h2}
    NoHost = none
    Configs <- MCConfigs
    MaxNodes = 2
    MaxShards = 2
    MaxFuncs = 1
    MaxRoutes = 1
    MaxRequests = 4
    Used <- MCUsed
    MaxWork = 3
    MaxConns = 2
    MaxCtl = 2
    Slots <- MCSlots
    Targets <- MCTargets
    Threads = {t1, t2}
    MAX_HOOKS = 2
    PerPage = 1
    MaxUses = 3
    MaxDepth = 4
    MaxClock = 2
INVARIANTS CountDrift OwnershipExact RoutesFollowMigration  ReportedOk NoMutualWait Chained ProfileHonest
CHECK_DEADLOCK FALSE

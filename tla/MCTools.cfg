SPECIFICATION Spec
CONSTANTS
    W = 3
    N = 2
    Unroll = 4
    Params <- MCParams
    Stmts <- MCStmts
    Uses <- MCUses
    Finals <- MCFinals
    MaxStmts = 3
    FuncAddr <- MCFuncAddr
    PltFuncs <- MCPltFuncs
    SecFuncs <- MCSecFuncs
    RwInsns <- MCInsns
    RwOptions <- MCOptions
    Base = 32
    MaxInsns = 4
    MaxCells = 4
    MeshSizes = {2, 3}
    MeshN = 2
    FifoDepth = 2
    MaxWords = 2
    MaxResets = 2
    HeldSets <- MCHeldSets
    RtlDepth = 2
    MemDepth = 16
    RtlWords = {"p", "q"}
    MemAddrs = {0, 4, 20, 24}
    NvcAddrs <- MCNvcAddrs
    NumCores = 2
    CounterMod = 8
    TestLength = 3
    MaxOps = 3
    FlowScripts = {"fb", "hd", "dz", "sl", "fx", "mn", "vx", "as", "va", "vs", "pb"}
    FlowConfigs = 2
INVARIANTS   RewriteSound PlacementSound   
CHECK_DEADLOCK FALSE

SPECIFICATION RcSpec
CONSTANTS
    Used <- MCOneCall
    MaxWork = 1
    MaxConns = 1
    MaxCtl = 0
INVARIANTS ReturnsResult
CHECK_DEADLOCK FALSE

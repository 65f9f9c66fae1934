SPECIFICATION FairSpec
CONSTANTS
    Procs <- MCProcs
    Conns <- MCConns
    Keys <- MCKeys
    MaxReq <- MCMaxReq
PROPERTY FailureIsLocal
CHECK_DEADLOCK FALSE

SPECIFICATION FairSpec
CONSTANTS
    Procs <- MCProcs
    Conns <- MCConns
    Keys <- MCKeys
    MaxReq <- MCMaxReq
INVARIANTS
    Reachable
    NoCrossTalk
PROPERTIES
    ZombieIsAddedLate
    DesertedIsForgotten
CHECK_DEADLOCK FALSE

SPECIFICATION FairSpec
CONSTANTS
    DataQueueSize <- MCDataQueueSize
    MaxPush <- LiveMaxPush
    MaxBlocks <- LiveMaxBlocks
    MaxSeq <- MCMaxSeq
    MaxBroken <- MCMaxBroken
PROPERTIES
    ServerGetsRequest
    Delivery
    DestroyStopsProcessLoop
CHECK_DEADLOCK FALSE

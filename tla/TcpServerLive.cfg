SPECIFICATION FairSpec
CONSTANTS
    DataQueueSize <- MCDataQueueSize
    MaxIn <- LiveMaxIn
    MaxBlocks <- LiveMaxBlocks
PROPERTIES
    Teardown
    DestroyStopsLoops
CHECK_DEADLOCK FALSE

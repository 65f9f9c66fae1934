SPECIFICATION FairSpec
CONSTANTS
    DataQueueSize <- MCDataQueueSize
    MaxIn <- MCMaxIn
    MaxOut <- MCMaxOut
    MaxBlocks <- MCMaxBlocks
    MaxReq <- MCMaxReq
    Expires = FALSE
PROPERTIES
    StartedIsFinished
    AcceptedIsAnswered
    DestroyStopsLoops
CHECK_DEADLOCK FALSE

SPECIFICATION Spec
CONSTANTS
    DataQueueSize <- MCDataQueueSize
    MaxIn <- MCMaxIn
    MaxOut <- MCMaxOut
    MaxBlocks <- MCMaxBlocks
    MaxReq <- MCMaxReq
    Expires = TRUE
INVARIANTS
    UplinkInOrder
    ReturnedIsUnused
    DownlinkInOrder
CHECK_DEADLOCK FALSE

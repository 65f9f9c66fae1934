SPECIFICATION Spec
CONSTANTS
    DataQueueSize <- MCDataQueueSize
    MaxIn <- MCMaxIn
    MaxBlocks <- MCMaxBlocks
INVARIANTS
    UpInOrder
    UpIsDrained
    DownInOrder
CHECK_DEADLOCK FALSE

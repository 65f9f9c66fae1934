SPECIFICATION Spec
CONSTANTS
    DataQueueSize <- MCDataQueueSize
    MaxPush <- MCMaxPush
    MaxBlocks <- MCMaxBlocks
    MaxSeq <- MCMaxSeq
    MaxBroken <- MCMaxBroken
INVARIANTS
    RequestsInOrder
    ResponsesInOrder
    PollOutstanding
PROPERTY TunnelSpec
CHECK_DEADLOCK FALSE

SPECIFICATION Spec
CONSTANTS
    DataQueueSize <- PollsDataQueueSize
    MaxPush <- PollsMaxPush
    MaxBlocks <- PollsMaxBlocks
    MaxSeq <- PollsMaxSeq
    MaxBroken <- PollsMaxBroken
INVARIANT FewPolls
CHECK_DEADLOCK FALSE

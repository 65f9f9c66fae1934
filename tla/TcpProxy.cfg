SPECIFICATION FairSpec
CONSTANTS
    DataQueueSize <- MCDataQueueSize
    MaxIn <- MCMaxIn
    MaxOut <- MCMaxOut
INVARIANTS
    PoppedInOrder
    WrittenInOrder
    DrainBeforeDead
    NoSpuriousNil
PROPERTIES
    DestroyWakesPopper
    DestroyStopsSendLoop
CHECK_DEADLOCK FALSE

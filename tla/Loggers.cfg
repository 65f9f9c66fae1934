\* A process may have nothing to do.
SPECIFICATION FairSpec
CONSTANTS
    Instances <- MCInstances
    MaxLogged = 4
    MaxQueueSize = 2
INVARIANTS
    DocumentIsMeant
    LogIsKept
    OldFilesAreBounded
PROPERTIES
    LoggedIsWritten
CHECK_DEADLOCK FALSE

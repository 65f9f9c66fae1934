\* The process may stop: it exits.
SPECIFICATION StartupSpec
CONSTANTS
    Configs <- MCConfigs
    MaxAway = 1
    MaxQueue = 2
    Starts <- MCStarts
    Saved <- MCSaved
    MaxEdits = 1
    Meaning <- MCMeaning
    GoodLogs <- MCGoodLogs
INVARIANTS
    KeyIsKept
    FileIsMeant
    ServedIsWritten
    AnnouncedIsServed
    IdleSurvives
PROPERTIES
    StartIsDecided
    GoneIsDestroyed
CHECK_DEADLOCK FALSE

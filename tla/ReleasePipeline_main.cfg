CONSTANTS
    t1 = t1
    t2 = t2
    Tasks <- MCTasks
    NumRepos = 2
    Work <- WorkAll
    Migrates <- MigratesFirst
    Codes <- AllCodes
    MaxOutside <- PushesToFirst
    MaxFaults = 1
    MayClose = {t1}
    Batching = TRUE
SPECIFICATION FairSpec
INVARIANTS
    TypeOK
    ReleasedIsLive
    WorkNeverLost
    OnlyGuiltyBlocked
PROPERTIES
    GreenStaysGreen
    NothingUndone
    EveryReleaseSettles

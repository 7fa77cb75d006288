CONSTANTS
    t1 = t1
    t2 = t2
    Tasks <- MCTasks
    NumRepos = 2
    Work <- WorkUneven
    Migrates <- MigratesFirst
    Codes <- HarmlessOnly
    MaxOutside <- NoPushes
    MaxFaults = 1
    MayClose = {}
    Batching = FALSE
SPECIFICATION Spec
INVARIANTS
    PartNeverShipped

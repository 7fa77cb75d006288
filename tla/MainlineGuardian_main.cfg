SPECIFICATION FairSpec
CONSTANTS
    r1 = r1
    r2 = r2
    Repos <- MCRepos
    Failures <- MCFailures
    Unnamed = "unnamed"
    CheckOf <- MCCheckOf
    Healths <- MCHealths
    MaxPushes = 1
    MaxDisturbed = 1
    MaxFaults = 1
INVARIANTS
    TypeOK
    OneMainRed
    OpenedOnlyConfirmed
PROPERTIES
    MainRedFollowsMain

SPECIFICATION EnvSpec
CONSTANTS
    Tasks = {t1}
    Workers = {w1, w2}
    Alone = {w1}
    Areas = {"area"}
    AreaOf <- MCAreaOf
    SentinelTasks = {}
    MaxRuns = 2
    NoWorker = NoWorker
    Gone = Gone
    NoTask = NoTask
    Concurrency = 1
    PatchStatuses = {"review_again"}
    PatchAi = {TRUE}
    StopControls = {}
    Verdicts = {"review"}
    MayStall = {w1}
    MayCrash = {}
    ChildrenOutlive = FALSE
INVARIANTS
    ActiveIsLatest
PROPERTIES
    ImplementsLedger
    RunEnds

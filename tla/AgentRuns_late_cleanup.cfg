SPECIFICATION Spec
CONSTANTS
    Tasks = {t1}
    Workers = {w1}
    Areas = {"area"}
    AreaOf <- MCAreaOf
    SentinelTasks = {}
    MaxRuns = 2
    NoWorker = NoWorker
    Gone = Gone
    NoTask = NoTask
    Concurrency = 2
    PatchStatuses = {}
    PatchAi = {TRUE}
    StopControls = {"stop", "stop_revert"}
    Verdicts = {"completed", "sandbox", "review", "blocked"}
    MayStall = {}
    MayCrash = {w1}
    ChildrenOutlive = FALSE
INVARIANTS
    CleanupSparesNewerResult

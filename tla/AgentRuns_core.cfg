SPECIFICATION Spec
CONSTANTS
    Tasks = {t1, t2}
    Workers = {w1}
    Areas = {"area"}
    AreaOf <- MCAreaOf
    SentinelTasks = {t1, t2}
    MaxRuns = 2
    NoWorker = NoWorker
    Gone = Gone
    NoTask = NoTask
    Concurrency = 2
    PatchStatuses = {"done"}
    PatchAi = {TRUE}
    StopControls = {"stop_revert"}
    Verdicts = {"completed", "review", "sandbox"}
    MayStall = {}
    MayCrash = {w1}
    ChildrenOutlive = FALSE
SYMMETRY MCSymmetry
INVARIANTS
    TypeOK
    BegunReleaseExcludesRun
    JobOwnsRow
    RunningHasJob
    OneAgentPerTask
    NoRevertUnderAgent
    CleanupHasExecutor
PROPERTIES
    FinalReleaseStays

SPECIFICATION Spec
CONSTANTS
    Errors = {"error"}
    Others = {"below", "ignored", "more"}
    MaxLines = 2
    MaxPerHour = 2
    Hour = 3
    Recur = 2
    Backoff = 2
    Cooldown = 1
    MaxTasks = 3
    MaxEdits = 1
    MaxFaults = 1
INVARIANTS
    TypeOK
    NoSecondTask
    CooldownsKept
    HourlyLimit
CHECK_DEADLOCK FALSE

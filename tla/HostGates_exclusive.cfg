SPECIFICATION Spec
CONSTANTS
    Procs = {p1, p2}
    Free = Free
    Dead = Dead
    Asks <- MCAsks
    MaxDotnet = 1
    MaxDotnetTestsForVitest = 1
    MaxPolls = 1
    MaxFaults = 0
INVARIANTS
    ExclusiveHost

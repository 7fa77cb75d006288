SPECIFICATION Spec
CONSTANTS
    MaxMain = 4
    MaxWork = 3
    MaxFaults = 2
INVARIANTS
    TypeOK
    WorkKept
    AgentSeesAll

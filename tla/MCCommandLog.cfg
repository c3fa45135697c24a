CONSTANTS
    t1 = t1
    t2 = t2
    o1 = o1
    p1 = p1
    p2 = p2
    Process = {p1, p2}
    Label = {t1, t2}
    BckId = {1, 2}
    ObjName = {o1}
    Instance = {1, 2}
    Time = {2}
    Size = {1}
    MaxUsage = 1
    MaxErrors = 2
    Confirms = TRUE
    GivenInstance = {0}
    LostDate = 1
    MaxCommands = 4
    Expirations = FALSE
    Kills = TRUE
SPECIFICATION CSpec
SYMMETRY LabelsAndProcesses
CHECK_DEADLOCK FALSE
INVARIANTS
    ReplayRestores
    ReplayIsConsistent

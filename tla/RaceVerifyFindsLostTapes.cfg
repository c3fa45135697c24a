CONSTANTS
    t1 = t1
    t2 = t2
    o1 = o1
    p1 = p1
    p2 = p2
    Label = {t1, t2}
    BckId = {1, 2}
    ObjName = {o1}
    Instance = {1, 2}
    Time = {1, 2}
    Size = {1}
    MaxUsage = 1
    MaxErrors = 1
    Confirms = FALSE
    Process = {p1, p2}
    Given = {0}
    EndDate = {1}
    MaxCommands = 3
    Disciplined = FALSE
    Kills = FALSE
SPECIFICATION PSpec
SYMMETRY ProcessSymmetry
CHECK_DEADLOCK FALSE
INVARIANT VerifyFindsLostTapes

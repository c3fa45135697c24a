SPECIFICATION Spec
CONSTANTS
    SQL_MAX = 5
    Failures = {"prepare", "step"}
    MaxStuck = 4
INVARIANTS
    StuckStatements
    LoopsKeepCursors
    CursorsAreOwn
    ExitsNeedFailures

SPECIFICATION Spec
CONSTANTS
    p1 = p1
    p2 = p2
    Process = {p1, p2}
    Commands = {"add", "start", "change", "end", "err", "finish", "modify", "remove", "expire", "report"}
    Deletes = 6
    Tables = 12
    MaxRows = 2
    Kills = TRUE
INVARIANTS
    SharingTypeOK
    OnlyExpiryIsRefused
    DeletesAreWholeUnlessYielded
    SchemaIsWholeUnlessDisturbed
PROPERTY CommandsEnd

CONSTANTS
    t1 = t1
    t2 = t2
    o1 = o1
    Label = {t1, t2}
    BckId = {1, 2}
    ObjName = {o1}
    Instance = {1}
    Time = {1, 2}
    Size = {1, 2}
    MaxUsage = 1
    MaxErrors = 1
    Confirms = TRUE
SPECIFICATION Spec
SYMMETRY LabelSymmetry
CHECK_DEADLOCK FALSE
INVARIANTS
    TypeOK
    SegmentsOnOwnedVolumes
    FreeVolumesAreUnowned
    CatalogReferences
    VerifyAlarmsAreExplained
    ReportAddsUp
    ErrorsAreReported
PROPERTIES
    VolumesReturnBeforeReuse
    SegmentsAreHistory
    ErrorHistoryIsKept
    ImplementsTapePool

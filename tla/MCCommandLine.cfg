CONSTANTS
    Commands <- MCCommands
    Qualifiers <- MCQualifiers
    MaxQualifiers = 2
    Volumes <- MCVolumes
SPECIFICATION Spec
CHECK_DEADLOCK FALSE
INVARIANTS
    CommandTypeOK
    WordsStayApart
    ReportIsRightInOrder
    LogReadsBackUnless

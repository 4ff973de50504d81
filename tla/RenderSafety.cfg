\* The program may stop rendering.
CHECK_DEADLOCK FALSE
SPECIFICATION Spec
CONSTANTS
    Contents = {a, b, c}
    MaxRenders = 4
    MaxErrors = 2
    MaxCrashes = 2
    None = None
SYMMETRY Symmetry
INVARIANTS
    BackupSurvives
    BackupIsPrevious
PROPERTIES
    RendersAtomically
    KeepsMode

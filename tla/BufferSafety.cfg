SPECIFICATION Spec
CONSTANTS
    Ids = {n1, n2}
    MinPeriod = 2
    MaxPeriod = 3
    ChCap = 1
    TriggerCap = 1
    MaxResets = 1
    None = None
SYMMETRY Symmetry
INVARIANTS
    TypeOK
    
    DueByDeadline

CHECK_DEADLOCK FALSE
SPECIFICATION Spec
CONSTANTS
    Notifiers = {n1, n2}
    Deps = {d1}
    Objects = 2
    MaxVersion = 1
    Cap = 1
    MayFail = FALSE
    MayStop = FALSE
    None = None
SYMMETRY Symmetry
INVARIANTS
    TypeOK
    ViewsAccounted
    NoStaleTemplate
PROPERTIES
    PanicsOnlyInDeregister

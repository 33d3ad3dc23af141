\* Two Python functions of one project share a runtime; one call and one
\* cleanup job run beside the reconciler; nothing fails.
CONSTANTS
    Functions = {f1, f2}
    Registered = {f1, f2}
    NoFunction = NoFunction
    Calls = {c1}
    Jobs = {j1}
    Language <- Python
    Project <- OneProject
    KeepWarm = 1
    MaxFaults = 0
SYMMETRY Symmetry
SPECIFICATION Spec
INVARIANTS
    TypeOK
    CurrentCopyIsExact
    DropIsRepaired
PROPERTY OnlyCleanupStrands

\* Three requests about functions of one name in two languages, a push by
\* somebody else, and one fault.
CONSTANTS
    Names = {n1}
    Languages = {python, go}
    Requests = {r1, r2, r3}
    None = None
    Seed = Seed
    MaxPushes = 1
    MaxFaults = 1
SYMMETRY Symmetry
SPECIFICATION Spec
INVARIANTS
    TypeOK
    
PROPERTIES
    
    
    FailedDeleteKeepsRow
\* The system stops when every request has been answered.
CHECK_DEADLOCK FALSE

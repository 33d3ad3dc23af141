\* Two requests, and nothing that goes wrong.
CONSTANTS
    Names = {n1}
    Languages = {python, go}
    Requests = {r1, r2}
    None = None
    Seed = Seed
    MaxPushes = 0
    MaxFaults = 0
SYMMETRY Symmetry
SPECIFICATION FreshSpec
PROPERTIES
    CrIsCreated
\* The system stops when every request has been answered.
CHECK_DEADLOCK FALSE

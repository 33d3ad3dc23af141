\* Two requests and a push by somebody else, and nothing that goes wrong.
CONSTANTS
    Names = {n1}
    Languages = {python}
    Requests = {r1, r2}
    None = None
    Seed = Seed
    MaxPushes = 1
    MaxFaults = 0
SPECIFICATION FreshSpec
PROPERTIES
    RepoIsSourceOfTruth
\* The system stops when every request has been answered.
CHECK_DEADLOCK FALSE

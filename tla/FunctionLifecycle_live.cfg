\* Liveness: a function that is not registered yet, one call, one cleanup job
\* and at most one fault.
CONSTANTS
    Functions = {f1}
    Registered = {}
    NoFunction = NoFunction
    Calls = {c1}
    Jobs = {j1}
    Language <- Go
    Project <- OneProject
    KeepWarm = 1
    MaxFaults = 1
SPECIFICATION FairSpec
PROPERTIES
    LeaseKept
    ActiveIsServed
    LapsedIsReaped

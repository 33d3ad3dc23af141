\* The cleanup job overwrites a lease that was renewed after it listed.
CONSTANTS
    Functions = {f1}
    Registered = {f1}
    NoFunction = NoFunction
    Calls = {c1}
    Jobs = {j1}
    Language <- Go
    Project <- OneProject
    KeepWarm = 1
    MaxFaults = 0
SPECIFICATION Spec
PROPERTY ActivationOutlivesLease

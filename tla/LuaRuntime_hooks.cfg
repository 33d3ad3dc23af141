\* Two functions, three commits, so that one can come back; two faults.
CONSTANTS
    Functions = {f1, f2}
    Hook = hook
    MaxCommits = 3
    MaxEvents = 2
    MaxFaults = 2
SPECIFICATION FairSpec
INVARIANTS
    TypeOK
    ConsumersAgree
    EventRunsAnnouncedCode
    IdleIsCurrent
PROPERTY RuntimeFollowsRepo
\* The system stops when every commit has been applied.
CHECK_DEADLOCK FALSE

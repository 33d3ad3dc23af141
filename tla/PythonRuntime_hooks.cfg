\* Two functions, both hook subjects, two faults.
CONSTANTS
    Functions = {f1, f2}
    Subjects = {"py", "python"}
    MaxCommits = 2
    MaxFaults = 2
SPECIFICATION FairSpec
INVARIANTS
    TypeOK
    RefreshedRuntimeIsExact
PROPERTIES
    ConsumersSurviveRefresh
    RuntimeFollowsRepo
\* The system stops when every commit has been applied.
CHECK_DEADLOCK FALSE

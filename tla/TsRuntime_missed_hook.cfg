\* A hook that is sent while the runtime boots.
CONSTANTS
    Functions = {f1}
    Loads = {}
    Env = {"PROJECT", "NATS_URL", "HTTP_PORT"}
    Branch = "master"
    MaxCommits = 2
    MaxFaults = 0
SPECIFICATION FairSpec
PROPERTY RuntimeFollowsRepo
\* The system stops when every commit has been applied.
CHECK_DEADLOCK FALSE

\* One function that comes and goes, one request, two events.
CONSTANTS
    Functions = {f1}
    Loads <- RequestsAndTasks
    Clients = {c1}
    Env = {"PROJECT", "NATS_URL", "HTTP_PORT"}
    Branch = "master"
    MaxCommits = 3
    MaxFaults = 1
    MaxTasks = 2
    MaxEvents = 2
    MaxItems = 2
SPECIFICATION FairServiceSpec
INVARIANTS
    ServiceTypeOK
    NewModulesAreFresh
    ConsumersMatchFiles
    AnswersAreOneRun
\* The system stops when everything has been done.
CHECK_DEADLOCK FALSE
PROPERTIES
    NotFoundIsExplained
    HookIsApplied
    RuntimeComesUp
    RequestIsAnswered
    EventsGoOn

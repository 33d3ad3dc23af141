\* An event stream and a websocket that sends two events, on one serial
\* runtime that comes and goes.
CONSTANTS
    Requests = {"sse", "ws"}
    Kind <- KindIsName
    Language = "ts"
    Serial = TRUE
    MaxEvents = 2
    MaxAnswers = 2
    ChanCap = 1
    BufCap = 1
SPECIFICATION FairSpec
INVARIANTS
    TypeOK
    AnswersInOrder
PROPERTIES
    NoSilentLoss
    StreamHandlerEnds
    CallbackNeverBlocks

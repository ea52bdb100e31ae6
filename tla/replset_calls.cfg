SPECIFICATION AioFairSpec
CONSTANTS
    N = 2
    Requests = {r1}
    Budget <- ShortBudget
    ConnectTimeout = 1
    ConnectError = "CommandTimeout"
    MaxTime = 6
    MaxHeld = 1
    Environments = {{"loss", "silence", "garble"},
                    {"loss", "close"},
                    {"silence", "open"},
                    {"garble", "open"},
                    {"elect", "open"}}
INVARIANTS
    TypeOK
    OverrunBounded
    EveryNodeTried
PROPERTIES
    LiveClientKept
    CallsReturn
CHECK_DEADLOCK FALSE

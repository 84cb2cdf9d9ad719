CONSTANTS
    Messages = {"first", "second", "job"}
    AggregateOf <- MCAggregateOf
    Handled = {"first", "second"}
    Foreign = {"job"}
    Processes = {"p", "q"}
    Names = {"worker"}
    NameOf <- OneName
    Nobody = "nobody"
    Limit = 2
    Lease = 2
    RetryBase = 1
    RetryMax = 2
    MaxAttempts = 2
    MaxEvents = 2
    MaxTime = 4
    MaxCrashes = 1
    MaxErrors = 1
SPECIFICATION FairQueueSpec
INVARIANTS QueueInv
PROPERTIES QueueKeepsContract SettledByItsClaim EveryNoticeArrives
CHECK_DEADLOCK FALSE

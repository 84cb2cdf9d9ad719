CONSTANTS
    Requests = {"first", "again", "reuse"}
    Keys = {"key"}
    KeyOf <- MCKeyOf
    HashOf <- MCHashOf
    NoOne = "no one"
    SharedSessions = {TRUE, FALSE}
    Lease = 2
    Retention = 3
    MaxTime = 5
    MaxEffects = 2
    MaxFaults = 1
SPECIFICATION FairIdemSpec
INVARIANTS IdemInv OncePerKey
PROPERTIES AnswersStand EveryRequestSettles

CONSTANTS
    Mails = {"notice", "update", "alert"}
    Security = {"alert"}
    RecipientOf <- MCRecipientOf
    Processes = {"p", "q"}
    Limit = 1
    Quota = 1
    MaxAttempts = 2
    Lease = 1
    Backoff = 1
    Day = 2
    MaxTime = 3
    MaxFaults = 1
SPECIFICATION FairEmailSpec
INVARIANTS EmailInv QuotaKept
PROPERTIES EndedByItsClaim MailKeepsContract EveryMailEnds
CHECK_DEADLOCK FALSE

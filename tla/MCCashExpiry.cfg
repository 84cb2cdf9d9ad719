SPECIFICATION FairExpirySpec
CONSTANTS
    Users = {a, b}
    MaxRegs = 2
    Capacities = {1}
    StartTimes = {3}
    AllowedMethods = {"cash"}
    MaxTime = 3
    Lag = 0
    CashTicks = 1
    CutoffTicks = 1
    Workers = {"w1", "w2", "w3"}
    Names = {"main", "spare"}
    NameOf <- NamesOfWorkers
    Nobody = Nobody
    Lease = 1
    RetryBase = 1
    MaxAttempts = 2
    MaxFaults = 1
INVARIANTS ExpiryInv
PROPERTIES ExpiryIsOrderly ReservationsEnd

SPECIFICATION Spec
CONSTANTS
    Users = {a, b}
    MaxRegs = 2
    Capacities = {1, 2}
    StartTimes = {3}
    AllowedMethods = {"free"}
    MaxTime = 3
    Lag = 1
    CashTicks = 1
    CutoffTicks = 0
SYMMETRY MemberSymmetry
INVARIANTS NeverOverCapacity

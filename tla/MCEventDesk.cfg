SPECIFICATION Spec
CONSTANTS
    Users = {a, b, c}
    MaxRegs = 3
    Capacities = {1, 2}
    StartTimes = {2, 3}
    AllowedMethods = {"free", "cash"}
    MaxTime = 3
    Lag = 1
    CashTicks = 1
    CutoffTicks = 0
SYMMETRY MemberSymmetry
INVARIANTS DeskInv
PROPERTIES NeverOversells PromotionIsFifo TerminalIsFinal FreedSeatIsOffered

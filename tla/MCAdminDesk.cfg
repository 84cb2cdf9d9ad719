SPECIFICATION AdminSpec
CONSTANTS
    Accounts = {u1}
    ClubPages = {k1}
    EventPages = {}
    Cases = {c1, c2, c3}
    Flags = {f1}
    Policies = {p1}
    Decisions = {r1, r2}
    Nothing = nothing
    MaxDecisions = 4
SYMMETRY AdminSymmetry
INVARIANTS AdminTypeOK StoppedCanBeRestored
PROPERTIES AuditTellsTheTruth PreviewTakesEffect
CHECK_DEADLOCK FALSE

CONSTANTS
    Users = {u1, u2}
    Clubs = {c1, c2}
    Connections = {x, y}
    Posts = {"news"}
    ClubLimit = 1
    MaxEntries = 1
    MaxEdits = 2
    MaxRulings = 1
SYMMETRY MCSymmetry
SPECIFICATION ClubSpec
INVARIANTS ClubInv OneOwner WithinLimit
PROPERTIES MembershipsByTheBook
CHECK_DEADLOCK FALSE

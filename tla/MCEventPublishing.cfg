SPECIFICATION EventSpec
CONSTANTS
    Organizers = {o1, o2}
    Guests = {g1}
    Clubs = {c1}
    Events = {e1, e2}
    Links = {l1, l2}
    Requests = {r1, r2}
    None = none
    MaxLimit = 1
    MaxRequests = 3
SYMMETRY EventSymmetry
CHECK_DEADLOCK FALSE
INVARIANTS  EntryStands ToldOfEveryChange
PROPERTIES NothingUnseenIsChanged WithinEventLimit

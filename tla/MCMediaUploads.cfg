SPECIFICATION MediaSpec
CONSTANTS
    Assets = {a1}
    ValidBytes = {photo1, photo2}
    InvalidBytes = {junk}
    Requests = {r1, r2, r3}
    None = None
    CleanupLimit = 1
    MaxLate = 2
SYMMETRY MediaSymmetry
INVARIANTS MediaInv CoverIsServed

SPECIFICATION MediaSpec
CONSTANTS
    Assets = {a1}
    ValidBytes = {photo1, photo2}
    InvalidBytes = {junk}
    Requests = {r1, r2}
    None = None
    CleanupLimit = 1
    MaxLate = 1
SYMMETRY MediaSymmetry
INVARIANT RejectedIsQuarantined

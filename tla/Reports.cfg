SPECIFICATION Spec
CONSTANTS
    Patches = {p1, p2}
    Updates = {a1, a2}
    Uploads = {u1}
    Legacies = {v1}
    Regenerations = {g1, g2}
    Downloads = {d1, d2}
    MaxCalls = 5
SYMMETRY CallSymmetry
INVARIANTS TypeOK RowsHaveObjects PasswordOpensReport DownloadsAreCounted PatchesAreKept
PROPERTY StatusMovesAreLegal
CHECK_DEADLOCK FALSE

SPECIFICATION Spec
CONSTANTS
    Users = {u1, u2}
    Backfilled = {u1}
    Plans = {"starter", "pro"}
    Registers = {r1}
    Changes = {c1, c2}
    Cancels = {k1}
    Approves = {a1, a2, a3}
    Rejects = {j1}
    MaxCalls = 5
SYMMETRY CallSymmetry
INVARIANTS TypeOK OnePending ApprovalsStand ApprovalsChangeBillingOnly
CHECK_DEADLOCK FALSE

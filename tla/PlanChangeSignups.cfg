SPECIFICATION Spec
CONSTANTS
    Users = {u1, u2}
    Backfilled = {u1}
    Plans = {"starter", "pro"}
    Registers = {r1}
    Changes = {}
    Cancels = {}
    Approves = {a1}
    Rejects = {}
    MaxCalls = 2
INVARIANT SignupsCanBeApproved
CHECK_DEADLOCK FALSE

---------------------------- MODULE QuotaLedger -----------------------------
(***************************************************************************)
(* What the usage counters promise: a ledger per user and month to which a *)
(* request is either admitted, one unit per column it counts in, or not    *)
(* added at all; and, when caps are enforced, an admission leaves every    *)
(* column it counts in within the cap of some plan.  UsageQuota implements *)
(* this with a row lock, a private post-increment row and a rollback.      *)
(***************************************************************************)
EXTENDS Integers

CONSTANTS Users, Periods, Columns, Kinds, Plans, Caps, AllEnforced, Increments(_)

VARIABLE used

TypeOK == used \in [Users -> [Periods -> [Columns -> Nat]]]

Init == used = [u \in Users |-> [p \in Periods |-> [col \in Columns |-> 0]]]

\* The month's row after one more request of kind k.
After(u, p, k) ==
    [col \in Columns |-> used[u][p][col] + (IF col \in Increments(k) THEN 1 ELSE 0)]

WithinCaps(row, k, pl) ==
    \A col \in Increments(k) : Caps[pl][col] = -1 \/ row[col] <= Caps[pl][col]

Admit(u, p, k) ==
    /\ AllEnforced => \E pl \in Plans : WithinCaps(After(u, p, k), k, pl)
    /\ used' = [used EXCEPT ![u][p] = After(u, p, k)]

Next == \E u \in Users, p \in Periods, k \in Kinds : Admit(u, p, k)

Spec == Init /\ [][Next]_used
=============================================================================

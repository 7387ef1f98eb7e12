----------------------------- MODULE UsageQuota -----------------------------
(***************************************************************************)
(* Monthly usage counters (table usage_counters) and the transactions that *)
(* reserve from them: RequestsService.create for a testing request and     *)
(* ActiveScanService.createAndEnqueueJob for a deep scan.                  *)
(*                                                                         *)
(* A call is one HTTP request.  Its guard runs outside any transaction and *)
(* reads the plan (memoised for the rest of the call) and compares what    *)
(* the user has committed with it, query by query: the assets that were    *)
(* registered and, for a manual pentest, the pentests of this year.  Its   *)
(* transaction looks at the clock and upserts the counter row of (user,    *)
(* month), which waits for the row's lock and then holds it                *)
(* until COMMIT or ROLLBACK and returns the post-increment row; the row is *)
(* compared with the caps; the call commits its request together with the  *)
(* new counts, or throws and the increment is rolled back.                 *)
(*                                                                         *)
(* While the kill switch is being flipped, processes with either setting   *)
(* serve calls side by side: Enforced may be any set of calls.             *)
(*                                                                         *)
(* api_test stands for every testing type without a column of its own      *)
(* (vuln_scan and red_team are reserved like it); a sub-cap that a plan     *)
(* names for such a type is nowhere compared with anything.                *)
(*                                                                         *)
(* What PlanCapGuard reads in the body of a call is a constant: whether    *)
(* the plan's lists offer its asset type and testing type, and its asset.  *)
(*                                                                         *)
(* Outside the model: bypassPlanCaps (an admin's scan reserves nothing)    *)
(* and the concurrency check of ActiveScanPlanGuard (see ScanAdmission).   *)
(***************************************************************************)
EXTENDS Integers, FiniteSets

CONSTANTS
    Users,
    Calls,            \* HTTP requests; each runs once
    KindsOf,          \* KindsOf[c]: the kinds that call c may be of
    Plans,
    Caps,             \* Caps[p][n]: the cap named n of plan p
    Offered,          \* Offered[p]: the calls whose asset and testing type p allows
    Asset,            \* Asset[c]: the asset a call is about, "none" if it names none
    Enforced,         \* calls that a process with PLAN_CAPS_ENFORCED = 'true' serves
    MaxPeriod,        \* bound: the months of the model are 0..MaxPeriod
    PeriodsPerYear    \* months per calendar year (12 in production)

Unlimited == -1

\* The columns of a usage_counters row.
Columns == {"submissions", "source_review", "manual_pentest", "active_scan"}

\* TestingType, and the deep scan, which is reserved the same way.
Kinds == {"api_test", "source_review", "manual_pentest", "active_scan"}

\* Keys of plans.caps: submissionsPerMonth, activeScansPerMonth, the entries of
\* perTypeSubmissionsPerMonth (null and absent are Unlimited),
\* manualPentestsPerYear and registeredAssetsMax.
CapNames == Columns \cup {"manual_pentests_per_year", "registered_assets_max"}

Periods == 0..MaxPeriod

ASSUME CallsFinite == IsFiniteSet(Calls)
ASSUME KindsOfType == KindsOf \in [Calls -> SUBSET Kinds]
ASSUME CapsType == Caps \in [Plans -> [CapNames -> Nat \cup {Unlimited}]]
ASSUME OfferedType == Offered \in [Plans -> SUBSET Calls]
ASSUME AssetType == DOMAIN Asset = Calls
ASSUME EnforcedType == Enforced \subseteq Calls
ASSUME PeriodAssumption == MaxPeriod \in Nat /\ PeriodsPerYear \in Nat \ {0}

VARIABLES
    plan,      \* plan of each user's ACTIVE subscription, "none" without one
    period,    \* the current UTC month
    counter,   \* committed usage_counters rows; an absent row counts 0
    call       \* what each call holds, and how far it got

vars == <<plan, period, counter, call>>

Steps == {"arrived", "resolved", "counted", "checked", "guarded", "waiting", "reserved",
          "failed", "refused", "committed", "rejected", "aborted"}

CounterRow == [Columns -> Nat]

Call == [pc: Steps, user: Users, kind: Kinds,
         plan: Plans \cup {"none"},   \* the plan that getCaps has cached
         period: Periods, row: CounterRow,
         assets: Nat]                 \* the registered assets the guard has counted

TypeOK ==
    /\ plan \in [Users -> Plans \cup {"none"}]
    /\ period \in Periods
    /\ counter \in [Users -> [Periods -> CounterRow]]
    /\ call \in [Calls -> Call]

EmptyRow == [col \in Columns |-> 0]

Init ==
    /\ plan \in [Users -> Plans \cup {"none"}]
    /\ period = 0
    /\ counter = [u \in Users |-> [p \in Periods |-> EmptyRow]]
    /\ \E user \in [Calls -> Users], kind \in [Calls -> Kinds] :
         /\ \A c \in Calls : kind[c] \in KindsOf[c]
         /\ call = [c \in Calls |->
                      [pc |-> "arrived", user |-> user[c], kind |-> kind[c],
                       plan |-> "none", period |-> 0, row |-> EmptyRow, assets |-> 0]]

-----------------------------------------------------------------------------
\* The columns the upsert of a call of kind k adds one to.
Increments(k) ==
    IF k = "active_scan" THEN {"active_scan"}
    ELSE {"submissions"} \cup ({k} \cap {"source_review", "manual_pentest"})

\* Mutant: one statement bumps every column of the row.
IncrementedAll(row, k) == [col \in Columns |-> row[col] + 1]

\* Mutant: the column is counted down.
IncrementedDown(row, k) ==
    [col \in Columns |-> IF col \in Increments(k) THEN row[col] - 1 ELSE row[col]]

\* The row RETURNING gives: the committed row plus this call's increments.
Incremented(row, k) ==
    [col \in Columns |-> IF col \in Increments(k) THEN row[col] + 1 ELSE row[col]]

\* Mutant: the count before the increment is compared with the cap.
ExceedsBefore(row, p, k) ==
    \E col \in Increments(k) : /\ Caps[p][col] # Unlimited
                               /\ row[col] - 1 > Caps[p][col]

\* Mutant: a count that reaches its cap is turned away.
ExceedsAtCap(row, p, k) ==
    \E col \in Increments(k) : /\ Caps[p][col] # Unlimited
                               /\ row[col] >= Caps[p][col]

\* A returned count is above its cap.
Exceeds(row, p, k) ==
    \E col \in Increments(k) : /\ Caps[p][col] # Unlimited
                               /\ row[col] > Caps[p][col]

\* Mutant: the row is read and written back without a lock.
NoLock(u, p) == FALSE

\* Mutant: a rejected call throws without rolling back and keeps its lock.
LockedByRejected(u, p) ==
    \E d \in Calls : /\ call[d].pc \in {"reserved", "rejected"}
                     /\ call[d].user = u /\ call[d].period = p

\* Some open transaction holds the lock of the counter row (u, p).
Locked(u, p) ==
    \E d \in Calls : call[d].pc = "reserved" /\ call[d].user = u /\ call[d].period = p

Year(p) == p \div PeriodsPerYear

\* Committed manual pentests of u in the current year, as COUNT(*) sees them.
PentestsThisYear(u) ==
    Cardinality({d \in Calls : /\ call[d].pc = "committed"
                               /\ call[d].user = u
                               /\ call[d].kind = "manual_pentest"
                               /\ Year(call[d].period) = Year(period)})

\* The assets of u's committed requests: COUNT(DISTINCT ...) leaves null out.
RegisteredAssets(u) ==
    {Asset[d] : d \in {e \in Calls : /\ call[e].pc = "committed"
                                     /\ call[e].user = u
                                     /\ call[e].kind # "active_scan"}} \ {"none"}

Goto(c, step) == call' = [call EXCEPT ![c].pc = step]

-----------------------------------------------------------------------------
\* PlanCapGuard lets a testing request through unread when caps are not
\* enforced; ActiveScanPlanGuard has no such switch.
SkipGuard(c) ==
    /\ call[c].pc = "arrived"
    /\ c \notin Enforced /\ call[c].kind # "active_scan"
    /\ Goto(c, "guarded")
    /\ UNCHANGED <<plan, period, counter>>

\* getCaps: the plan of the ACTIVE subscription, cached for the whole call; without
\* one the call answers 500.
ResolveCaps(c) ==
    /\ call[c].pc = "arrived"
    /\ c \in Enforced \/ call[c].kind = "active_scan"
    /\ IF plan[call[c].user] # "none"
       THEN call' = [call EXCEPT ![c].pc = "resolved", ![c].plan = plan[call[c].user]]
       ELSE Goto(c, "failed")
    /\ UNCHANGED <<plan, period, counter>>

\* ActiveScanPlanGuard: the plan has deep scans.
GuardScan(c) ==
    /\ call[c].pc = "resolved" /\ call[c].kind = "active_scan"
    /\ Goto(c, IF Caps[call[c].plan]["active_scan"] = 0 THEN "refused" ELSE "guarded")
    /\ UNCHANGED <<plan, period, counter>>

\* Where PlanCapGuard goes from its asset checks: only a pentest has one more query.
AfterAssets(c) == IF call[c].kind = "manual_pentest" THEN "checked" ELSE "guarded"

\* PlanCapGuard: the lists of the plan, then COUNT(DISTINCT ...) of the assets.
CountAssets(c) ==
    /\ call[c].pc = "resolved" /\ call[c].kind # "active_scan"
    /\ IF c \notin Offered[call[c].plan] THEN Goto(c, "refused")
       ELSE IF Caps[call[c].plan]["registered_assets_max"] = Unlimited
       THEN Goto(c, AfterAssets(c))
       ELSE call' = [call EXCEPT ![c].pc = "counted",
                       ![c].assets = Cardinality(RegisteredAssets(call[c].user))]
    /\ UNCHANGED <<plan, period, counter>>

\* A second query tells whether the asset is new; no asset counts as a new one.
FindAsset(c) ==
    /\ call[c].pc = "counted"
    /\ LET known == Asset[c] \in RegisteredAssets(call[c].user)
           projected == call[c].assets + (IF known THEN 0 ELSE 1)
       IN  Goto(c, IF projected > Caps[call[c].plan]["registered_assets_max"]
                   THEN "refused" ELSE AfterAssets(c))
    /\ UNCHANGED <<plan, period, counter>>

CountPentests(c) ==
    /\ call[c].pc = "checked"
    /\ LET yearly == Caps[call[c].plan]["manual_pentests_per_year"] IN
       Goto(c, IF yearly # Unlimited /\ PentestsThisYear(call[c].user) >= yearly
               THEN "refused" ELSE "guarded")
    /\ UNCHANGED <<plan, period, counter>>

\* The transaction begins, and its month is that of the clock now.
StartUpsert(c) ==
    /\ call[c].pc = "guarded"
    /\ call' = [call EXCEPT ![c].pc = "waiting", ![c].period = period]
    /\ UNCHANGED <<plan, period, counter>>

\* INSERT ... ON CONFLICT (userId, periodStart) DO UPDATE ... RETURNING.
Reserve(c) ==
    /\ call[c].pc = "waiting"
    /\ ~Locked(call[c].user, call[c].period)
    /\ LET row == counter[call[c].user][call[c].period] IN
       call' = [call EXCEPT ![c].pc = "reserved", ![c].row = Incremented(row, call[c].kind)]
    /\ UNCHANGED <<plan, period, counter>>

\* PlanCapExceededException inside the transaction: ROLLBACK.
Reject(c) ==
    /\ call[c].pc = "reserved"
    /\ c \in Enforced /\ Exceeds(call[c].row, call[c].plan, call[c].kind)
    /\ Goto(c, "rejected")
    /\ UNCHANGED <<plan, period, counter>>

\* The request (or job) row is inserted and the transaction commits.
Commit(c) ==
    /\ call[c].pc = "reserved"
    /\ ~(c \in Enforced /\ Exceeds(call[c].row, call[c].plan, call[c].kind))
    /\ counter' = [counter EXCEPT ![call[c].user][call[c].period] = call[c].row]
    /\ Goto(c, "committed")
    /\ UNCHANGED <<plan, period>>

\* A failing INSERT, a lost connection or a crash of the API: ROLLBACK.
Abort(c) ==
    /\ call[c].pc = "reserved"
    /\ Goto(c, "aborted")
    /\ UNCHANGED <<plan, period, counter>>

\* An operator or a migration puts the user on another plan (or other caps) by an UPDATE
\* of its own; that an approval in the API does not is shown in PlanChange.
ChangePlan(u, p) ==
    /\ plan[u] \notin {"none", p}
    /\ plan' = [plan EXCEPT ![u] = p]
    /\ UNCHANGED <<period, counter, call>>

NextMonth ==
    /\ period < MaxPeriod
    /\ period' = period + 1
    /\ UNCHANGED <<plan, counter, call>>

Step(c) ==
    \/ SkipGuard(c) \/ ResolveCaps(c) \/ GuardScan(c)
    \/ CountAssets(c) \/ FindAsset(c) \/ CountPentests(c)
    \/ StartUpsert(c) \/ Reserve(c) \/ Reject(c) \/ Commit(c) \/ Abort(c)

Next ==
    \/ \E c \in Calls : Step(c)
    \/ \E u \in Users, p \in Plans : ChangePlan(u, p)
    \/ NextMonth

Spec == Init /\ [][Next]_vars

\* A call that has started runs on: the event loop and PostgreSQL are live.
Fairness == \A c \in Calls : WF_vars(Step(c))

FairSpec == Spec /\ Fairness

-----------------------------------------------------------------------------
\* The committed calls that count in column col of (u, p).
Counted(u, p, col) ==
    {d \in Calls : /\ call[d].pc = "committed"
                   /\ call[d].user = u
                   /\ call[d].period = p
                   /\ col \in Increments(call[d].kind)}

\* Every committed count is the number of requests (or scans) that committed
\* with it: no rejected, aborted or concurrent call leaks or loses an increment
\* (the rollback that plan-caps.service.ts relies on).
CounterIsLedger ==
    \A u \in Users, p \in Periods, col \in Columns :
        counter[u][p][col] = Cardinality(Counted(u, p, col))

\* However many calls race, the number of requests that caps are enforced for
\* and that a month admits never passes the cap that one of them was checked
\* against; under one plan that is the plan's cap (atomicIncrementAndCheck).
CapsRespected ==
    \A u \in Users, p \in Periods, col \in Columns :
        LET checked == Counted(u, p, col) \cap Enforced IN
        checked # {} =>
            \E d \in checked : \/ Caps[call[d].plan][col] = Unlimited
                               \/ Cardinality(checked) <= Caps[call[d].plan][col]

\* Nobody is told PLAN_CAP_EXCEEDED while the month still has room: a rejected
\* call found a column whose cap was already used up by committed calls.
RejectedOnlyWhenFull ==
    \A c \in Calls : call[c].pc = "rejected" =>
        \E col \in Increments(call[c].kind) :
            /\ Caps[call[c].plan][col] # Unlimited
            /\ Cardinality(Counted(call[c].user, call[c].period, col))
                 >= Caps[call[c].plan][col]

\* Calls that queue behind each other's row lock all get an answer: the lock of
\* a rejected or aborted transaction is let go.
EveryCallIsAnswered ==
    \A c \in Calls :
        <>(call[c].pc \in {"failed", "refused", "committed", "rejected", "aborted"})

\* The committed counters behave as the abstract ledger: admitted requests are
\* recorded one by one, whole and, if caps are enforced for every call, within a
\* plan's caps (QuotaLedger).
Ledger == INSTANCE QuotaLedger WITH
              used <- counter, AllEnforced <- (Enforced = Calls)

LedgerSpec == Ledger!Spec
=============================================================================

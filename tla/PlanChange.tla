----------------------------- MODULE PlanChange -----------------------------
(***************************************************************************)
(* Sign-ups, subscriptions and plan change requests: AuthService.register, *)
(* PlanChangeRequestsService.requestChange, cancelChange, approve and      *)
(* reject, with the parts of SubscriptionsService they call, while calls   *)
(* of users and admins overlap.                                            *)
(*                                                                         *)
(* A plan change request (PCR) is named by the call that inserts it, and a *)
(* user by the e-mail address, which is unique.  Cancel, reject and the    *)
(* note that follows a request save the entity they hold: save() SELECTs   *)
(* the row and UPDATEs the columns that differ, here the status.  A column *)
(* of a relation that the entity has loaded takes its value from that      *)
(* relation, whatever the entity's own property says: approve saves a      *)
(* subscription with its old plan loaded.                                  *)
(*                                                                         *)
(* The transactions run at READ COMMITTED: a superseding UPDATE sees the   *)
(* rows of its snapshot and checks each again when it locks it.            *)
(***************************************************************************)
EXTENDS Integers, FiniteSets

CONSTANTS
    Users,
    Backfilled,     \* users the migration gave an ACTIVE subscription
    Plans,
    Registers, Changes, Cancels, Approves, Rejects, \* calls; each runs once
    MaxCalls        \* bound on the calls that arrive

Calls == Registers \cup Changes \cup Cancels \cup Approves \cup Rejects
Pcrs == Registers \cup Changes

ASSUME BackfilledAreUsers == Backfilled \subseteq Users
ASSUME PlansAssumption == "starter" \in Plans /\ "none" \notin Plans \cup Users \cup Calls
ASSUME CallsFinite == IsFiniteSet(Calls)
ASSUME MaxCallsAssumption == MaxCalls \in Nat
ASSUME CallsDisjoint ==
    /\ Registers \cap (Changes \cup Cancels \cup Approves \cup Rejects) = {}
    /\ Changes \cap (Cancels \cup Approves \cup Rejects) = {}
    /\ Cancels \cap (Approves \cup Rejects) = {}
    /\ Approves \cap Rejects = {}

VARIABLES
    sub,        \* each user's subscription; no account has none
    pcr,        \* the plan_change_requests rows
    call,       \* what each call holds
    applied,    \* history: how many approvals of each PCR committed
    contested,  \* history: PCRs approved while another call held them
    lastBy,     \* history: each user's last approval
    overtaken   \* history: approvals that compared before another one committed

vars == <<sub, pcr, call, applied, contested, lastBy, overtaken>>
history == <<applied, contested, lastBy, overtaken>>

Statuses == {"pending", "approved", "rejected", "cancelled"}

BillingCycle == {"monthly", "annual"}

\* cycle is "none" where the column is null.
Sub == [status: {"none", "active", "pending_upgrade"}, plan: Plans,
        cycle: BillingCycle \cup {"none"}]

\* user is "none" where there is no row.
Pcr == [user: Users \cup {"none"}, toPlan: Plans, cycle: BillingCycle, status: Statuses]

NoPcr == [user |-> "none", toPlan |-> "starter", cycle |-> "monthly", status |-> "pending"]

Call == [pc: {"waiting", "hashing", "active", "superseding", "save", "update", "read",
              "found", "loaded", "locked", "done", "refused", "failed", "not_found"},
         user: Users \cup {"none"}, cycle: BillingCycle, notes: BOOLEAN,
         plan: Plans,               \* the plan asked for; then that of the loaded relation
         pcr: Pcrs \cup {"none"},   \* the entity it holds
         status: Statuses,          \* that entity's status
         seen: SUBSET Pcrs,         \* the snapshot of a superseding UPDATE
         dirty: SUBSET {"status", "plan", "cycle"}] \* columns that differ from the row

TypeOK ==
    /\ sub \in [Users -> Sub]
    /\ pcr \in [Pcrs -> Pcr]
    /\ call \in [Calls -> Call]
    /\ applied \in [Pcrs -> 0..Cardinality(Approves)]
    /\ contested \subseteq Pcrs
    /\ lastBy \in [Users -> Approves \cup {"none"}]
    /\ overtaken \subseteq Approves

\* A call that has ended holds nothing but the PCR it was about.
At(pc, p) == [pc |-> pc, user |-> "none", plan |-> "starter", cycle |-> "monthly",
              notes |-> FALSE, pcr |-> p, status |-> "pending", seen |-> {}, dirty |-> {}]

Init ==
    /\ sub = [u \in Users |-> [status |-> IF u \in Backfilled THEN "active" ELSE "none",
                               plan |-> "starter", cycle |-> "none"]]
    /\ pcr = [p \in Pcrs |-> NoPcr]
    /\ call = [c \in Calls |-> At("waiting", "none")]
    /\ applied = [p \in Pcrs |-> 0]
    /\ contested = {}
    /\ lastBy = [u \in Users |-> "none"]
    /\ overtaken = {}

Exists(p) == pcr[p].user # "none"
Pending(u) == {p \in Pcrs : pcr[p].user = u /\ pcr[p].status = "pending"}

End(c, pc, p) == call' = [call EXCEPT ![c] = At(pc, p)]

Ended(c) == call[c].pc \in {"done", "refused", "failed", "not_found"}

Arrives(c) ==
    /\ call[c].pc = "waiting"
    /\ Cardinality({d \in Calls : call[d].pc # "waiting"}) < MaxCalls

\* The other calls that hold PCR p while they run.
Holders(p, c) == {d \in Calls \ {c} : call[d].pcr = p /\ ~Ended(d)}

-----------------------------------------------------------------------------
(* register *)

CheckEmail(r) ==
    /\ Arrives(r)
    /\ \E u \in Users, p \in Plans, cycle \in BillingCycle :
         IF p = "enterprise" \/ sub[u].status # "none"
         THEN End(r, "refused", "none")
         ELSE call' = [call EXCEPT ![r].pc = "hashing", ![r].user = u, ![r].plan = p,
                                   ![r].cycle = cycle]
    /\ UNCHANGED <<sub, pcr, history>>

\* The row that a sign-up or a request inserts.
Requested(c) == [user |-> call[c].user, toPlan |-> call[c].plan, cycle |-> call[c].cycle,
                 status |-> "pending"]

\* One transaction: the user (unique e-mail), its subscription, its PCR.
CreateAccount(r) ==
    /\ call[r].pc = "hashing"
    /\ LET u == call[r].user IN
       IF sub[u].status # "none"
       THEN End(r, "failed", "none") /\ UNCHANGED <<sub, pcr>>
       ELSE /\ sub' = [sub EXCEPT ![u].status = "pending_upgrade"]
            /\ pcr' = [pcr EXCEPT ![r] = Requested(r)]
            /\ End(r, "done", r)
    /\ UNCHANGED history

-----------------------------------------------------------------------------
(* requestChange *)

RequireActive(c) ==
    /\ Arrives(c)
    /\ \E u \in Users, p \in Plans, cycle \in BillingCycle, notes \in BOOLEAN :
         IF sub[u].status # "active" \/ sub[u].plan = p
         THEN End(c, "refused", "none")
         ELSE call' = [call EXCEPT ![c].pc = "active", ![c].user = u, ![c].plan = p,
                                   ![c].cycle = cycle, ![c].notes = notes]
    /\ UNCHANGED <<sub, pcr, history>>

ToSupersede(u) == Pending(u)

Snapshot(c) ==
    /\ call[c].pc = "active"
    /\ call' = [call EXCEPT ![c].pc = "superseding", ![c].seen = ToSupersede(call[c].user)]
    /\ UNCHANGED <<sub, pcr, history>>

\* Mutant: nothing but the superseding UPDATE keeps requests apart.
NoIndex(rows, p) == FALSE

\* ux_pcr_user_pending: would p be a second pending row of its user?
Taken(rows, p) ==
    \E q \in Pcrs \ {p} : rows[q].user = rows[p].user /\ rows[q].status = "pending"

\* The transaction's commit: the old rows end and the new one begins, or neither.
InsertPcr(c) ==
    /\ call[c].pc = "superseding"
    /\ LET ended == [p \in Pcrs |-> IF p \in call[c].seen /\ pcr[p].status = "pending"
                                    THEN [pcr[p] EXCEPT !.status = "rejected"] ELSE pcr[p]]
           rows == [ended EXCEPT ![c] = Requested(c)]
       IN  IF Taken(rows, c)
           THEN End(c, "failed", "none") /\ UNCHANGED pcr
           ELSE /\ pcr' = rows
                /\ call' = [call EXCEPT ![c] = At(IF call[c].notes THEN "save" ELSE "done", c)]
    /\ UNCHANGED <<sub, history>>

-----------------------------------------------------------------------------
(* cancelChange, reject, and saving a PCR entity *)

\* Hold PCR p as an entity whose status is about to be saved.
Hold(c, p, status) ==
    call' = [call EXCEPT ![c].pc = "save", ![c].pcr = p, ![c].status = status]

FindPending(k) ==
    /\ Arrives(k)
    /\ \E u \in Users :
         \/ Pending(u) = {} /\ End(k, "refused", "none")
         \/ \E p \in Pending(u) : Hold(k, p, "cancelled")
    /\ UNCHANGED <<sub, pcr, history>>

Reject(j) ==
    /\ Arrives(j)
    /\ \E p \in Pcrs :
         /\ Exists(p)
         /\ IF pcr[p].status = "pending" THEN Hold(j, p, "rejected")
            ELSE End(j, "refused", "none")
    /\ UNCHANGED <<sub, pcr, history>>

\* save(): the row is loaded and compared with the entity.
Load(c) ==
    /\ call[c].pc = "save"
    /\ call' = [call EXCEPT ![c].pc = "update",
                            ![c].dirty = {x \in {"status"} :
                                            call[c].status # pcr[call[c].pcr].status}]
    /\ UNCHANGED <<sub, pcr, history>>

\* save(): UPDATE by id of what differed; the unique index may refuse it.
Update(c) ==
    /\ call[c].pc = "update"
    /\ LET p == call[c].pcr
           rows == IF "status" \in call[c].dirty
                   THEN [pcr EXCEPT ![p].status = call[c].status] ELSE pcr
       IN  IF rows[p].status = "pending" /\ rows # pcr /\ Taken(rows, p)
           THEN End(c, "failed", "none") /\ UNCHANGED pcr
           ELSE End(c, "done", p) /\ pcr' = rows
    /\ UNCHANGED <<sub, history>>

-----------------------------------------------------------------------------
(* approve *)

\* Mutant: the status is not looked at.
AnyStatus(p) == TRUE

Approvable(p) == pcr[p].status = "pending"

ReadPcr(a) ==
    /\ Arrives(a)
    /\ \E p \in Pcrs :
         /\ Exists(p)
         /\ IF Approvable(p)
            THEN call' = [call EXCEPT ![a].pc = "read", ![a].pcr = p, ![a].user = pcr[p].user,
                                      ![a].cycle = pcr[p].cycle, ![a].status = "approved"]
            ELSE End(a, "refused", "none")
    /\ UNCHANGED <<sub, pcr, history>>

\* The transaction begins: applyPlanChange needs an ACTIVE subscription, and has the
\* plan it is on now loaded with it.
FindSub(a) ==
    /\ call[a].pc = "read"
    /\ IF sub[call[a].user].status # "active"
       THEN End(a, "not_found", call[a].pcr)
       ELSE call' = [call EXCEPT ![a].pc = "found", ![a].plan = sub[call[a].user].plan]
    /\ UNCHANGED <<sub, pcr, history>>

\* Mutant: the request's own id is written where its plan's belongs.
RequestAsPlan(a) == [plan |-> call[a].pcr, cycle |-> call[a].cycle]

\* Mutant: the relation is not loaded, and planId is written as assigned (:217).
AssignedPlan(a) == [plan |-> pcr[call[a].pcr].toPlan, cycle |-> call[a].cycle]

\* What save() compares and writes of the subscription: the cycle as assigned (:218),
\* and for planId the plan of the loaded relation.
Saved(a) == [plan |-> call[a].plan, cycle |-> call[a].cycle]

\* save(): the row is loaded and compared with the entity.
LoadSub(a) ==
    /\ call[a].pc = "found"
    /\ LET row == sub[call[a].user] IN
       call' = [call EXCEPT ![a].pc = "loaded",
                            ![a].dirty = {x \in {"plan", "cycle"} : Saved(a)[x] # row[x]}]
    /\ UNCHANGED <<sub, pcr, history>>

\* save(): UPDATE of the subscription, which stays locked until the commit; the
\* reload, and the load of the request's row.
LockSub(a) ==
    /\ call[a].pc = "loaded"
    /\ \A b \in Approves : call[b].pc = "locked" => call[b].user # call[a].user
    /\ call' = [call EXCEPT ![a].pc = "locked",
                            ![a].seen = {p \in {call[a].pcr} : pcr[p].status # "approved"}]
    /\ UNCHANGED <<sub, pcr, history>>

\* The subscription's row with the columns that differed.
Written(a) ==
    LET row == sub[call[a].user]
        New(x) == IF x \in call[a].dirty THEN Saved(a)[x] ELSE row[x]
    IN  [row EXCEPT !.plan = New("plan"), !.cycle = New("cycle")]

Commit(a) ==
    /\ call[a].pc = "locked"
    /\ LET p == call[a].pcr
           u == call[a].user
       IN  /\ sub' = [sub EXCEPT ![u] = Written(a)]
           /\ pcr' = IF p \in call[a].seen THEN [pcr EXCEPT ![p].status = "approved"] ELSE pcr
           /\ applied' = [applied EXCEPT ![p] = @ + 1]
           /\ contested' = IF Holders(p, a) = {} THEN contested ELSE contested \cup {p}
           /\ lastBy' = [lastBy EXCEPT ![u] = a]
           /\ overtaken' = overtaken \cup {b \in Approves \ {a} :
                             call[b].user = u /\ call[b].pc \in {"loaded", "locked"}
                               /\ "cycle" \notin call[b].dirty}
           /\ End(a, "done", p)

Next ==
    \/ \E r \in Registers : CheckEmail(r) \/ CreateAccount(r)
    \/ \E c \in Changes : RequireActive(c) \/ Snapshot(c) \/ InsertPcr(c)
    \/ \E k \in Cancels : FindPending(k)
    \/ \E j \in Rejects : Reject(j)
    \/ \E c \in Changes \cup Cancels \cup Rejects : Load(c) \/ Update(c)
    \/ \E a \in Approves : ReadPcr(a) \/ FindSub(a) \/ LoadSub(a) \/ LockSub(a) \/ Commit(a)

Spec == Init /\ [][Next]_vars

-----------------------------------------------------------------------------
(* Properties *)

\* "At most one row per user with status='pending'" (PlanChangeRequest): also when
\* requests overlap and a late note saves a superseded entity as pending again.
OnePending == \A u \in Users : Cardinality(Pending(u)) <= 1

\* A request that no other call held when its approval committed stays approved, and is
\* approved once; only a cancel, reject, note or approval that had read it as
\* pending can write over it (approve reads outside its transaction, :297-311).
ApprovalsStand ==
    \A p \in Pcrs \ contested :
      applied[p] > 0 => applied[p] = 1 /\ pcr[p].status = "approved"

\* The billing cycle is that of the user's last approval, unless that approval had left
\* the column out of its UPDATE, finding the same cycle in the row before another
\* approval for the user committed (applyPlanChange's save, :228).
BillingOfLastApproval ==
    \A u \in Users :
      lastBy[u] \notin overtaken \cup {"none"} =>
        sub[u].cycle = pcr[call[lastBy[u]].pcr].cycle

\* Every subscription still has the plan that the backfill or the sign-up gave it.
PlansStay == \A u \in Users : sub[u].plan = "starter"

\* What approvals change of a subscription is its billing cycle and never its plan:
\* planId is assigned (:217), but the save follows the plan relation that was loaded with
\* the subscription (:209) and names the old plan, so an approved plan is not in force.
ApprovalsChangeBillingOnly == BillingOfLastApproval /\ PlansStay

\* "Every signup now lands in the same 1-business-day admin review flow" (:123) and the
\* request "admin must approve" (:144): no approval of one fails for want of a
\* subscription.
SignupsCanBeApproved ==
    \A a \in Approves : call[a].pc = "not_found" => call[a].pcr \notin Registers
=============================================================================

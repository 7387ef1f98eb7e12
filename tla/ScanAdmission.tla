---------------------------- MODULE ScanAdmission ---------------------------
(***************************************************************************)
(* Verified targets and the admission of deep scans for one user:          *)
(* addTarget, verifyTarget, removeTarget, requestScan with its guard, and  *)
(* the admin's trigger, all of ActiveScanService, while they overlap.      *)
(*                                                                         *)
(* Target handlers save the entity they loaded: save() loads the row with  *)
(* the entity's id again, then UPDATEs the columns that differ, or INSERTs *)
(* the entity if there is no such row any more.  The scan transaction runs *)
(* at READ COMMITTED and its findOne takes no lock.  The reservation of    *)
(* the monthly quota is one step with the commit, as UsageQuota (through   *)
(* the ledger it implements) shows it to be; enqueueing comes after it and *)
(* is modelled in ActiveScanJobs.                                          *)
(*                                                                         *)
(* Tokens and row ids are the add request that made them; an expiresAt is  *)
(* the verify request that set it.                                         *)
(***************************************************************************)
EXTENDS Integers, FiniteSets

CONSTANTS
    Hosts,
    Adds, Verifies, Removes, Scans,     \* requests; each runs once
    Admin,          \* the scans that an admin triggers
    MaxTargets,     \* activeScanMaxTargets
    Concurrency,    \* activeScanConcurrency
    MonthlyScans    \* activeScansPerMonth

Unlimited == -1
Requests == Adds \cup Verifies \cup Removes \cup Scans

ASSUME AdminAreScans == Admin \subseteq Scans
ASSUME RequestsDisjoint ==
    /\ Adds \cap (Verifies \cup Removes \cup Scans) = {}
    /\ Verifies \cap (Removes \cup Scans) = {}
    /\ Removes \cap Scans = {}
    /\ "null" \notin Adds \cup Verifies
ASSUME RequestsFinite == IsFiniteSet(Hosts) /\ IsFiniteSet(Scans)
ASSUME CapsAssumption == {MaxTargets, Concurrency, MonthlyScans} \subseteq Nat \cup {Unlimited}

VARIABLES
    target,     \* the verified_targets row of each hostname
    published,  \* the token in each host's DNS record or file
    elapsed,    \* the expiry times that have passed
    jobs,       \* the active_scan_jobs rows
    request,    \* what each request holds
    proved      \* history: the tokens a verification has found on each host

vars == <<target, published, elapsed, jobs, request, proved>>

TargetColumns == {"token", "status", "expiresAt"}
TargetStatuses == {"pending", "verified", "expired"}

\* A row, or an entity in memory; id is "null" for none.
Target == [id: Adds \cup {"null"}, token: Adds \cup {"null"},
           status: TargetStatuses, expiresAt: Verifies \cup {"null"}]

NoTarget == [id |-> "null", token |-> "null", status |-> "pending", expiresAt |-> "null"]

Exists(row) == row.id # "null"

\* A job keeps the target's id and the token it had (verifyTokenSnapshot).
Jobs == [scan: Scans, host: Hosts, targetId: Adds, token: Adds, active: BOOLEAN]

Request == [pc: {"arrived", "counted", "admitted", "found", "resolved", "insert",
                 "update", "marking", "checked", "done", "refused", "failed",
                 "expired"},
            host: Hosts, mem: Target, dirty: SUBSET TargetColumns, count: Nat]

TypeOK ==
    /\ target \in [Hosts -> Target]
    /\ published \in [Hosts -> Adds \cup {"nothing"}]
    /\ elapsed \subseteq Verifies
    /\ jobs \subseteq Jobs
    /\ request \in [Requests -> Request]
    /\ proved \in [Hosts -> SUBSET Adds]

\* A request about host h that holds nothing.
At(pc, h) == [pc |-> pc, host |-> h, mem |-> NoTarget, dirty |-> {}, count |-> 0]

Init ==
    /\ target = [h \in Hosts |-> NoTarget]
    /\ published = [h \in Hosts |-> "nothing"]
    /\ elapsed = {}
    /\ jobs = {}
    /\ \E host \in [Requests -> Hosts] :
         request = [r \in Requests |-> At("arrived", host[r])]
    /\ proved = [h \in Hosts |-> {}]

Row(r) == target[request[r].host]

\* Request r goes to pc; what it held in memory is not used again.
Goto(r, pc) == request' = [request EXCEPT ![r] = At(pc, request[r].host)]

\* Request r goes to pc holding entity.
Hold(r, pc, entity) == request' = [request EXCEPT ![r].pc = pc, ![r].mem = entity]

-----------------------------------------------------------------------------
(* Saving a target entity *)

\* repository.save() of an entity that has an id: the row is loaded.
Load(r) ==
    /\ request[r].pc = "resolved"
    /\ request' =
         [request EXCEPT
            ![r].pc = IF Row(r).id = request[r].mem.id THEN "update" ELSE "insert",
            ![r].dirty = IF Row(r).id = request[r].mem.id
                         THEN {col \in TargetColumns : request[r].mem[col] # Row(r)[col]}
                         ELSE {}]
    /\ UNCHANGED <<target, published, elapsed, jobs, proved>>

\* UPDATE ... WHERE id: nothing happens if the row is gone.
Update(r) ==
    /\ request[r].pc = "update"
    /\ target' = IF Row(r).id = request[r].mem.id
                 THEN [target EXCEPT ![request[r].host] =
                         [col \in {"id"} \cup TargetColumns |->
                            IF col \in request[r].dirty
                            THEN request[r].mem[col] ELSE Row(r)[col]]]
                 ELSE target
    /\ Goto(r, "done")
    /\ UNCHANGED <<published, elapsed, jobs, proved>>

\* INSERT: refused by the unique index on (userId, hostname) if a row is there.
Insert(r) ==
    /\ request[r].pc = "insert"
    /\ IF Exists(Row(r))
       THEN Goto(r, "failed") /\ UNCHANGED target
       ELSE /\ Goto(r, "done")
            /\ target' = [target EXCEPT ![request[r].host] = request[r].mem]
    /\ UNCHANGED <<published, elapsed, jobs, proved>>

-----------------------------------------------------------------------------
(* addTarget *)

Retained == Cardinality({h \in Hosts : Exists(target[h])})

CountTargets(a) ==
    /\ request[a].pc = "arrived"
    /\ request' = [request EXCEPT ![a].pc = "counted", ![a].count = Retained]
    /\ UNCHANGED <<target, published, elapsed, jobs, proved>>

CheckMaxTargets(a) ==
    /\ request[a].pc = "counted"
    /\ Goto(a, IF /\ MaxTargets # Unlimited /\ ~Exists(Row(a))
                  /\ request[a].count >= MaxTargets
               THEN "refused" ELSE "admitted")
    /\ UNCHANGED <<target, published, elapsed, jobs, proved>>

\* Mutant: the new token lands in the wrong column.
ReaddedMisplaced(row, token) ==
    [row EXCEPT !.token = token, !.status = "pending", !.expiresAt = token]

\* A re-added target gets a new token and is pending again.
Readded(row, token) ==
    [row EXCEPT !.token = token, !.status = "pending", !.expiresAt = "null"]

FindOrCreate(a) ==
    /\ request[a].pc = "admitted"
    /\ IF Exists(Row(a))
       THEN Hold(a, "resolved", Readded(Row(a), a))
       ELSE Hold(a, "insert", Readded([NoTarget EXCEPT !.id = a], a))
    /\ UNCHANGED <<target, published, elapsed, jobs, proved>>

-----------------------------------------------------------------------------
(* verifyTarget *)

FindToVerify(v) ==
    /\ request[v].pc = "arrived"
    /\ IF Exists(Row(v)) THEN Hold(v, "found", Row(v)) ELSE Goto(v, "refused")
    /\ UNCHANGED <<target, published, elapsed, jobs, proved>>

\* DNS or HTTP shows the token the entity holds; a failed check is saved too
\* (lastCheckedAt), with whatever else the entity holds.
Resolve(v) ==
    /\ request[v].pc = "found"
    /\ LET entity == request[v].mem
           host == request[v].host
       IN  IF published[host] = entity.token
           THEN /\ Hold(v, "resolved",
                        [entity EXCEPT !.status = "verified", !.expiresAt = v])
                /\ proved' = [proved EXCEPT ![host] = @ \cup {entity.token}]
           ELSE Hold(v, "resolved", entity) /\ UNCHANGED proved
    /\ UNCHANGED <<target, published, elapsed, jobs>>

-----------------------------------------------------------------------------
(* removeTarget *)

FindToRemove(m) ==
    /\ request[m].pc = "arrived"
    /\ IF Exists(Row(m)) THEN Hold(m, "found", Row(m)) ELSE Goto(m, "refused")
    /\ UNCHANGED <<target, published, elapsed, jobs, proved>>

\* Mutant: only jobs that still run keep their target.
RestrictedWhileRunning(id) == \E j \in jobs : j.targetId = id /\ j.active

\* ON DELETE RESTRICT: a target some job refers to cannot be deleted.
Restricted(id) == \E j \in jobs : j.targetId = id

Delete(m) ==
    /\ request[m].pc = "found"
    /\ IF Restricted(request[m].mem.id)
       THEN Goto(m, "failed") /\ UNCHANGED target
       ELSE /\ Goto(m, "done")
            /\ target' = IF Row(m).id = request[m].mem.id
                         THEN [target EXCEPT ![request[m].host] = NoTarget]
                         ELSE target
    /\ UNCHANGED <<published, elapsed, jobs, proved>>

-----------------------------------------------------------------------------
(* requestScan and adminRequestScan *)

Running == Cardinality({j \in jobs : j.active})

\* ActiveScanPlanGuard; the admin's route does not have it.
Guard(s) ==
    /\ request[s].pc = "arrived"
    /\ Goto(s, IF s \notin Admin /\ \/ MonthlyScans = 0
                                    \/ /\ Concurrency # Unlimited
                                       /\ Running >= Concurrency
               THEN "refused" ELSE "admitted")
    /\ UNCHANGED <<target, published, elapsed, jobs, proved>>

Expired(row) == row.expiresAt \in elapsed

\* Mutant: only an expired target is turned away.
UnverifiedIfExpired(s, row) == s \notin Admin /\ row.status = "expired"

\* The transaction's check, skipped with bypassOwnership.
Unverified(s, row) == s \notin Admin /\ row.status # "verified"

\* The transaction's findOne and its checks.
CheckTarget(s) ==
    /\ request[s].pc = "admitted"
    /\ IF ~Exists(Row(s)) \/ Unverified(s, Row(s))
       THEN Goto(s, "refused")
       ELSE Hold(s, IF s \notin Admin /\ Expired(Row(s)) THEN "marking" ELSE "checked",
                 Row(s))
    /\ UNCHANGED <<target, published, elapsed, jobs, proved>>

\* The target is saved as expired inside the transaction, which the exception
\* thrown next rolls back.
MarkExpired(s) ==
    /\ request[s].pc = "marking"
    /\ Goto(s, "expired")
    /\ UNCHANGED <<target, published, elapsed, jobs, proved>>

\* Jobs that count in the month's active_scan column (no bypassPlanCaps).
Reserved == Cardinality({j \in jobs : j.scan \notin Admin})

\* Reservation, INSERT of the job and COMMIT.  The foreign key refuses a target
\* that is gone; Enforced is PLAN_CAPS_ENFORCED = 'true' here.
CommitJob(s) ==
    /\ request[s].pc = "checked"
    /\ IF s \notin Admin /\ MonthlyScans # Unlimited /\ Reserved >= MonthlyScans
       THEN Goto(s, "refused") /\ UNCHANGED jobs
       ELSE IF Row(s).id # request[s].mem.id
       THEN Goto(s, "failed") /\ UNCHANGED jobs
       ELSE /\ Goto(s, "done")
            /\ jobs' = jobs \cup {[scan |-> s, host |-> request[s].host,
                                   targetId |-> request[s].mem.id,
                                   token |-> request[s].mem.token, active |-> TRUE]}
    /\ UNCHANGED <<target, published, elapsed, proved>>

\* The job ends (ActiveScanJobs).
EndJob(j) ==
    /\ j.active
    /\ jobs' = (jobs \ {j}) \cup {[j EXCEPT !.active = FALSE]}
    /\ UNCHANGED <<target, published, elapsed, request, proved>>

-----------------------------------------------------------------------------
(* The world outside *)

\* The domain's owner publishes a token the API has answered with, or withdraws it.
Publish(h) ==
    /\ \E token \in {a \in Adds : request[a].pc = "done" /\ request[a].host = h}
                    \cup {"nothing"} :
         published' = [published EXCEPT ![h] = token]
    /\ UNCHANGED <<target, elapsed, jobs, request, proved>>

\* Verification TTL: an expiry time passes.
Elapse(v) ==
    /\ \E h \in Hosts : target[h].expiresAt = v
    /\ elapsed' = elapsed \cup {v}
    /\ UNCHANGED <<target, published, jobs, request, proved>>

-----------------------------------------------------------------------------
Next ==
    \/ \E a \in Adds : CountTargets(a) \/ CheckMaxTargets(a) \/ FindOrCreate(a)
    \/ \E v \in Verifies : FindToVerify(v) \/ Resolve(v) \/ Elapse(v)
    \/ \E r \in Adds \cup Verifies : Load(r) \/ Update(r) \/ Insert(r)
    \/ \E m \in Removes : FindToRemove(m) \/ Delete(m)
    \/ \E s \in Scans : Guard(s) \/ CheckTarget(s) \/ MarkExpired(s) \/ CommitJob(s)
    \/ \E j \in jobs : EndJob(j)
    \/ \E h \in Hosts : Publish(h)

Spec == Init /\ [][Next]_vars

-----------------------------------------------------------------------------
\* The keystone of VerifiedTarget's doc: whatever adds, removals, verifications
\* and stale saves overlap, a user's scan only ever runs against a host on which
\* a verification has found one of the user's tokens.
ScannedHostsWereProved ==
    \A j \in jobs : j.scan \notin Admin => proved[j.host] # {}

\* A job's target row never goes away under it: deletion and the stale saves
\* that insert a deleted row again leave the row the job refers to in place.
JobsKeepTheirTarget ==
    \A j \in jobs : target[j.host].id = j.targetId
=============================================================================

-------------------------- MODULE PlanChangeProofs --------------------------
(***************************************************************************)
(* Proofs about PlanChange for any users, plans and calls.  A request that *)
(* stands approved and uncontested is held by nobody and can be picked up  *)
(* by nobody; an approval that need not write the billing cycle still      *)
(* finds it in force, unless another approval for the user overtook it;    *)
(* and no approval has anything to write into planId.  An account that     *)
(* signed up stays apart: nothing makes its subscription ACTIVE, so no     *)
(* call ever approves its request.                                         *)
(***************************************************************************)
EXTENDS PlanChange, FiniteSetTheorems, TLAPS

Begun(c) == call[c].pc \notin {"waiting", "hashing", "active", "superseding"}

\* What call c holds at each place it may be in.
CallKnows(c) ==
    /\ ~Begun(c) => /\ call[c].pcr = "none"
                    /\ c \in Pcrs => ~Exists(c)
    /\ call[c].pc = "hashing" => c \in Registers /\ call[c].user \in Users
    /\ call[c].pc \in {"active", "superseding"} =>
         /\ c \in Changes /\ call[c].user \in Users
         /\ sub[call[c].user].status # "none"
    /\ call[c].pc \in {"save", "update"} =>
         /\ c \in Changes \cup Cancels \cup Rejects
         /\ call[c].pcr \in Pcrs /\ Exists(call[c].pcr) /\ call[c].status # "approved"
    /\ call[c].pc \in {"read", "found", "loaded", "locked"} =>
         /\ c \in Approves /\ call[c].pcr \in Pcrs /\ call[c].user \in Users
         /\ pcr[call[c].pcr].user = call[c].user
         /\ pcr[call[c].pcr].cycle = call[c].cycle
    /\ call[c].pc \in {"found", "loaded", "locked"} => call[c].plan = "starter"
    /\ call[c].pc \in {"loaded", "locked"} => "plan" \notin call[c].dirty

\* Only users with a subscription have requests, and no two of theirs are pending.
OneEach ==
    /\ \A p \in Pcrs : Exists(p) => sub[pcr[p].user].status # "none"
    /\ \A p, q \in Pcrs :
         /\ pcr[p].user = pcr[q].user /\ Exists(p)
         /\ pcr[p].status = "pending" /\ pcr[q].status = "pending"
         => p = q

\* The approvals that have applied request p.
Appliers(p) == {a \in Approves : call[a].pc = "done" /\ call[a].pcr = p}

\* Only an approval that commits makes a request approved.
ApprovedWasApplied ==
    /\ \A p \in Pcrs : /\ applied[p] = Cardinality(Appliers(p))
                       /\ applied[p] > 0 => Exists(p)
                       /\ pcr[p].status = "approved" => applied[p] > 0
    /\ \A a \in Approves :
         call[a].pc = "locked" /\ call[a].pcr \notin call[a].seen => applied[call[a].pcr] > 0

\* A request that stands approved is held by no call that runs.
NobodyHolds ==
    \A p \in Pcrs \ contested : applied[p] > 0 =>
      /\ applied[p] = 1 /\ pcr[p].status = "approved"
      /\ \A c \in Calls : call[c].pcr = p => Ended(c)

\* An approval that need not write the billing cycle still finds it in force.
CleanIsCurrent ==
    \A a \in Approves \ overtaken :
      call[a].pc \in {"loaded", "locked"} /\ "cycle" \notin call[a].dirty =>
        sub[call[a].user].cycle = call[a].cycle

\* A user's last approval has ended and still names its request.
LastIsDone ==
    \A u \in Users : lastBy[u] # "none" =>
      /\ call[lastBy[u]].pc = "done" /\ call[lastBy[u]].pcr \in Pcrs
      /\ pcr[call[lastBy[u]].pcr].user # "none"

IInv ==
    /\ TypeOK
    /\ \A c \in Calls : CallKnows(c)
    /\ OneEach
    /\ ApprovedWasApplied
    /\ NobodyHolds
    /\ CleanIsCurrent
    /\ LastIsDone
    /\ BillingOfLastApproval
    /\ PlansStay

-----------------------------------------------------------------------------
(* Lemmas about calls and rows *)

Pcs == {"waiting", "hashing", "active", "superseding", "save", "update", "read", "found",
        "loaded", "locked", "done", "refused", "failed", "not_found"}

LEMMA Kinds ==
    /\ \A r \in Registers : r \in Calls /\ r \in Pcrs /\ r \notin Approves
    /\ \A c \in Changes : c \in Calls /\ c \in Pcrs /\ c \notin Approves /\ c \notin Registers
    /\ \A k \in Cancels \cup Rejects : k \in Calls /\ k \notin Pcrs /\ k \notin Approves
    /\ \A a \in Approves : a \in Calls /\ a \notin Pcrs
    /\ "none" \notin Pcrs /\ "none" \notin Users /\ "none" \notin Approves
    /\ Pcrs \subseteq Calls
BY CallsDisjoint, PlansAssumption DEF Calls, Pcrs

LEMMA AtType ==
    ASSUME NEW pc \in Pcs, NEW p \in Pcrs \cup {"none"}
    PROVE  /\ At(pc, p) \in Call /\ At(pc, p).pc = pc /\ At(pc, p).pcr = p
           /\ At(pc, p).status = "pending" /\ At(pc, p).user = "none"
BY PlansAssumption DEF At, Call, Pcs, Statuses, BillingCycle

LEMMA Rows ==
    ASSUME TypeOK
    PROVE  /\ \A p \in Pcrs : /\ pcr[p] \in Pcr /\ pcr[p].status \in Statuses
                              /\ pcr[p].cycle \in BillingCycle
                              /\ pcr[p].user \in Users \cup {"none"}
                              /\ applied[p] \in 0..Cardinality(Approves)
           /\ \A u \in Users : sub[u] \in Sub /\ sub[u].plan \in Plans
           /\ \A c \in Calls : call[c] \in Call /\ call[c].pc \in Pcs
BY DEF TypeOK, Pcr, Sub, Call, Pcs

LEMMA OneCall ==
    ASSUME TypeOK, NEW c \in Calls, NEW v \in Call, call' = [call EXCEPT ![c] = v]
    PROVE  /\ call' \in [Calls -> Call] /\ call'[c] = v
           /\ \A d \in Calls \ {c} : call'[d] = call[d]
BY DEF TypeOK

LEMMA EndEffect ==
    ASSUME TypeOK, NEW c \in Calls, NEW pc \in Pcs, NEW p \in Pcrs \cup {"none"}, End(c, pc, p)
    PROVE  /\ call' \in [Calls -> Call] /\ call'[c] = At(pc, p)
           /\ \A d \in Calls \ {c} : call'[d] = call[d]
BY AtType, OneCall DEF End

LEMMA ApproversFinite == IsFiniteSet(Approves) /\ Cardinality(Approves) \in Nat
<1>1. Approves \in SUBSET Calls  BY DEF Calls
<1>. QED  BY <1>1, CallsFinite, FS_Subset, FS_CardinalityType

LEMMA InitInv == Init => IInv
<1> SUFFICES ASSUME Init PROVE IInv  OBVIOUS
<1>1. \A c \in Calls : call[c] = At("waiting", "none") /\ call[c] \in Call
  BY AtType DEF Init, Pcs
<1>2. TypeOK
  <2>1. pcr \in [Pcrs -> Pcr]
    BY PlansAssumption DEF Init, NoPcr, Pcr, Statuses, BillingCycle
  <2>2. sub \in [Users -> Sub]
    BY PlansAssumption DEF Init, Sub
  <2>3. applied \in [Pcrs -> 0..Cardinality(Approves)]
    BY ApproversFinite DEF Init
  <2>. QED  BY <1>1, <2>1, <2>2, <2>3 DEF Init, TypeOK
<1>3. ASSUME NEW c \in Calls PROVE CallKnows(c)
  BY <1>1, AtType DEF Init, CallKnows, Begun, Exists, NoPcr, Pcs
<1>4. OneEach
  BY DEF Init, OneEach, Exists, NoPcr
<1>5. ApprovedWasApplied
  <2>1. ASSUME NEW p \in Pcrs PROVE Cardinality(Appliers(p)) = 0
    <3>1. Appliers(p) = {}
      BY <1>1, AtType, Kinds DEF Appliers, Pcs
    <3>. QED  BY <3>1, FS_EmptySet
  <2>2. \A a \in Approves : call[a].pc = "waiting"
    BY <1>1, AtType, Kinds DEF Pcs
  <2>. QED  BY <2>1, <2>2 DEF Init, ApprovedWasApplied, NoPcr
<1>6. NobodyHolds /\ CleanIsCurrent /\ LastIsDone /\ BillingOfLastApproval /\ PlansStay
  BY <1>1, AtType, Kinds
  DEF Init, NobodyHolds, CleanIsCurrent, LastIsDone, BillingOfLastApproval, PlansStay, Pcs
<1>. QED  BY <1>2, <1>3, <1>4, <1>5, <1>6 DEF IInv

-----------------------------------------------------------------------------
(* Steps that move one call and write no row *)

LEMMA CallStep ==
    ASSUME IInv, NEW c \in Calls, NEW v \in Call, call' = [call EXCEPT ![c] = v],
           UNCHANGED <<sub, pcr, history>>,
           CallKnows(c)',
           c \in Approves => v.pc # "done" /\ call[c].pc # "done",
           v.pcr # "none" /\ v.pc \notin {"done", "refused", "failed", "not_found"} =>
             \/ v.pcr = call[c].pcr /\ ~Ended(c)
             \/ v.pcr \in Pcrs /\ pcr[v.pcr].status # "approved",
           v.pc = "locked" /\ v.pcr \notin v.seen => applied[v.pcr] > 0,
           v.pc \in {"loaded", "locked"} /\ "cycle" \notin v.dirty /\ c \notin overtaken =>
             sub[v.user].cycle = v.cycle
    PROVE  IInv'
<1>1. /\ call' \in [Calls -> Call] /\ call'[c] = v
      /\ \A d \in Calls \ {c} : call'[d] = call[d]
  BY OneCall DEF IInv
<1>2. UNCHANGED <<applied, contested, lastBy, overtaken>>
  BY DEF history
<1>3. TypeOK'
  BY <1>1, <1>2 DEF IInv, TypeOK
<1>4. ASSUME NEW d \in Calls PROVE CallKnows(d)'
  <2>1. CASE d = c
    BY <2>1
  <2>2. CASE d # c
    BY <1>1, <2>2 DEF IInv, CallKnows, Begun, Exists
  <2>. QED  BY <2>1, <2>2
<1>5. OneEach'
  BY DEF IInv, OneEach, Exists
<1>6. ApprovedWasApplied'
  <2>1. \A p \in Pcrs : Appliers(p)' = Appliers(p)
    BY <1>1, Kinds DEF Appliers
  <2>. QED  BY <1>1, <1>2, <2>1, Kinds DEF IInv, ApprovedWasApplied, Exists
<1>7. NobodyHolds'
  <2> SUFFICES ASSUME NEW p \in Pcrs \ contested, applied[p] > 0
               PROVE  /\ applied[p] = 1 /\ pcr[p].status = "approved"
                      /\ \A d \in Calls : call'[d].pcr = p => Ended(d)'
    BY <1>2 DEF NobodyHolds
  <2>1. /\ applied[p] = 1 /\ pcr[p].status = "approved"
        /\ \A d \in Calls : call[d].pcr = p => Ended(d)
    BY DEF IInv, NobodyHolds
  <2>2. ASSUME NEW d \in Calls, call'[d].pcr = p PROVE Ended(d)'
    BY <1>1, <2>1, <2>2, Kinds DEF Ended
  <2>. QED  BY <2>1, <2>2
<1>8. CleanIsCurrent'
  BY <1>1, <1>2, Kinds DEF IInv, CleanIsCurrent
<1>9. LastIsDone' /\ BillingOfLastApproval' /\ PlansStay'
  <2>1. ASSUME NEW u \in Users, lastBy[u] # "none" PROVE call'[lastBy[u]] = call[lastBy[u]]
    <3>1. lastBy[u] \in Approves /\ lastBy[u] \in Calls /\ call[lastBy[u]].pc = "done"
      BY <2>1, Kinds DEF IInv, TypeOK, LastIsDone
    <3>. QED  BY <1>1, <3>1
  <2>. QED
    BY <1>2, <2>1 DEF IInv, LastIsDone, BillingOfLastApproval, PlansStay, Exists
<1>. QED  BY <1>3, <1>4, <1>5, <1>6, <1>7, <1>8, <1>9 DEF IInv

\* A call that ends without having written anything.
LEMMA EndStep ==
    ASSUME IInv, NEW c \in Calls, NEW pc \in {"refused", "failed", "not_found"},
           NEW p \in Pcrs \cup {"none"}, End(c, pc, p), call[c].pc # "done",
           UNCHANGED <<sub, pcr, history>>
    PROVE  IInv'
<1> DEFINE v == At(pc, p)
<1>1. /\ v \in Call /\ v.pc = pc /\ v.pcr = p /\ call' = [call EXCEPT ![c] = v]
  BY AtType DEF End, Pcs
<1> HIDE DEF v
<1>2. CallKnows(c)'
  <2>1. call'[c].pc \in {"refused", "failed", "not_found"}
    BY <1>1, OneCall DEF IInv
  <2>. QED  BY <2>1 DEF CallKnows, Begun
<1>. QED  BY <1>1, <1>2, CallStep

\* A call that arrives holds no request, and what it would insert is not there.
LEMMA Unbegun ==
    ASSUME IInv, NEW c \in Calls, ~Begun(c)
    PROVE  /\ call[c].pc # "done" /\ call[c].pcr = "none" /\ ~Ended(c)
           /\ c \in Pcrs => ~Exists(c)
BY DEF IInv, CallKnows, Begun, Ended

LEMMA CheckEmailInv ==
    ASSUME IInv, NEW r \in Registers, CheckEmail(r)
    PROVE  IInv'
<1>1. /\ r \in Calls /\ r \in Pcrs /\ r \notin Approves /\ TypeOK /\ call[r] \in Call
      /\ call[r].pc = "waiting" /\ UNCHANGED <<sub, pcr, history>>
  BY Kinds, Rows DEF IInv, CheckEmail, Arrives
<1>2. PICK u \in Users, p \in Plans, cycle \in BillingCycle :
        \/ End(r, "refused", "none")
        \/ call' = [call EXCEPT ![r].pc = "hashing", ![r].user = u, ![r].plan = p,
                                ![r].cycle = cycle]
  BY DEF CheckEmail
<1>3. CASE End(r, "refused", "none")
  BY <1>1, <1>3, EndStep
<1>4. CASE call' = [call EXCEPT ![r].pc = "hashing", ![r].user = u, ![r].plan = p,
                                ![r].cycle = cycle]
  <2> DEFINE v == [call[r] EXCEPT !.pc = "hashing", !.user = u, !.plan = p, !.cycle = cycle]
  <2>1. call' = [call EXCEPT ![r] = v]
    BY <1>1, <1>4 DEF TypeOK
  <2>2. v \in Call /\ v.pc = "hashing" /\ v.user = u /\ v.pcr = call[r].pcr
    BY <1>1 DEF Call
  <2> HIDE DEF v
  <2>3. call[r].pcr = "none" /\ ~Exists(r)
    BY <1>1, Unbegun DEF Begun
  <2>4. CallKnows(r)'
    BY <1>1, <2>1, <2>2, <2>3, OneCall DEF CallKnows, Begun, Exists
  <2>. QED  BY <1>1, <2>1, <2>2, <2>3, <2>4, CallStep
<1>. QED  BY <1>2, <1>3, <1>4

LEMMA RequireActiveInv ==
    ASSUME IInv, NEW c \in Changes, RequireActive(c)
    PROVE  IInv'
<1>1. /\ c \in Calls /\ c \in Pcrs /\ c \notin Approves /\ TypeOK /\ call[c] \in Call
      /\ call[c].pc = "waiting" /\ UNCHANGED <<sub, pcr, history>>
  BY Kinds, Rows DEF IInv, RequireActive, Arrives
<1>2. PICK u \in Users, p \in Plans, cycle \in BillingCycle, notes \in BOOLEAN :
        IF sub[u].status # "active" \/ sub[u].plan = p
        THEN End(c, "refused", "none")
        ELSE call' = [call EXCEPT ![c].pc = "active", ![c].user = u, ![c].plan = p,
                                  ![c].cycle = cycle, ![c].notes = notes]
  BY Zenon DEF RequireActive
<1>3. CASE End(c, "refused", "none")
  BY <1>1, <1>3, EndStep
<1>4. CASE /\ sub[u].status = "active"
           /\ call' = [call EXCEPT ![c].pc = "active", ![c].user = u, ![c].plan = p,
                                   ![c].cycle = cycle, ![c].notes = notes]
  <2> DEFINE v == [call[c] EXCEPT !.pc = "active", !.user = u, !.plan = p,
                            !.cycle = cycle, !.notes = notes]
  <2>1. call' = [call EXCEPT ![c] = v]
    BY <1>1, <1>4 DEF TypeOK
  <2>2. v \in Call /\ v.pc = "active" /\ v.user = u /\ v.pcr = call[c].pcr
    BY <1>1 DEF Call
  <2> HIDE DEF v
  <2>3. call[c].pcr = "none" /\ ~Exists(c)
    BY <1>1, Unbegun DEF Begun
  <2>4. CallKnows(c)'
    BY <1>1, <1>4, <2>1, <2>2, <2>3, OneCall DEF CallKnows, Begun, Exists
  <2>. QED  BY <1>1, <2>1, <2>2, <2>3, <2>4, CallStep
<1>. QED  BY <1>2, <1>3, <1>4

LEMMA SnapshotInv ==
    ASSUME IInv, NEW c \in Changes, Snapshot(c)
    PROVE  IInv'
<1> DEFINE v == [call[c] EXCEPT !.pc = "superseding", !.seen = ToSupersede(call[c].user)]
<1>1. /\ c \in Calls /\ c \in Pcrs /\ c \notin Approves /\ TypeOK /\ call[c] \in Call
      /\ call[c].pc = "active" /\ UNCHANGED <<sub, pcr, history>>
      /\ call' = [call EXCEPT ![c] = v]
  BY Kinds, Rows DEF IInv, Snapshot, TypeOK
<1>2. /\ v \in Call /\ v.pc = "superseding" /\ v.user = call[c].user
      /\ v.pcr = call[c].pcr
  <2>1. ToSupersede(call[c].user) \in SUBSET Pcrs
    BY DEF ToSupersede, Pending
  <2>. QED  BY <1>1, <2>1 DEF Call
<1> HIDE DEF v
<1>3. call[c].pcr = "none" /\ ~Exists(c) /\ CallKnows(c)
  BY <1>1, Unbegun DEF Begun, IInv
<1>4. CallKnows(c)'
  BY <1>1, <1>2, <1>3, OneCall DEF CallKnows, Begun, Exists
<1>. QED  BY <1>1, <1>2, <1>3, <1>4, CallStep

\* Cancel and reject take hold of a request they find pending.
LEMMA HoldInv ==
    ASSUME IInv, NEW c \in Cancels \cup Rejects, call[c].pc = "waiting",
           NEW p \in Pcrs, Exists(p), pcr[p].status = "pending",
           NEW status \in {"cancelled", "rejected"}, Hold(c, p, status),
           UNCHANGED <<sub, pcr, history>>
    PROVE  IInv'
<1> DEFINE v == [call[c] EXCEPT !.pc = "save", !.pcr = p, !.status = status]
<1>1. /\ c \in Calls /\ c \notin Pcrs /\ c \notin Approves /\ TypeOK /\ call[c] \in Call
      /\ call' = [call EXCEPT ![c] = v]
  BY Kinds, Rows DEF IInv, Hold, TypeOK
<1>2. v \in Call /\ v.pc = "save" /\ v.pcr = p /\ v.status = status
  BY <1>1 DEF Call, Statuses
<1> HIDE DEF v
<1>3. CallKnows(c)'
  BY <1>1, <1>2, OneCall DEF CallKnows, Begun, Exists
<1>. QED  BY <1>1, <1>2, <1>3, CallStep

LEMMA FindPendingInv ==
    ASSUME IInv, NEW k \in Cancels, FindPending(k)
    PROVE  IInv'
<1>1. call[k].pc = "waiting" /\ k \in Calls /\ UNCHANGED <<sub, pcr, history>>
  BY Kinds DEF FindPending, Arrives
<1>2. PICK u \in Users :
        \/ End(k, "refused", "none")
        \/ \E p \in Pending(u) : Hold(k, p, "cancelled")
  BY DEF FindPending
<1>3. CASE End(k, "refused", "none")
  BY <1>1, <1>3, EndStep
<1>4. CASE \E p \in Pending(u) : Hold(k, p, "cancelled")
  <2>1. PICK p \in Pending(u) : Hold(k, p, "cancelled")
    BY <1>4
  <2>2. p \in Pcrs /\ Exists(p) /\ pcr[p].status = "pending"
    BY Kinds DEF Pending, Exists
  <2>. QED  BY <1>1, <2>1, <2>2, HoldInv
<1>. QED  BY <1>2, <1>3, <1>4

LEMMA RejectInv ==
    ASSUME IInv, NEW j \in Rejects, Reject(j)
    PROVE  IInv'
<1>1. call[j].pc = "waiting" /\ j \in Calls /\ UNCHANGED <<sub, pcr, history>>
  BY Kinds DEF Reject, Arrives
<1>2. PICK p \in Pcrs :
        /\ Exists(p)
        /\ IF pcr[p].status = "pending" THEN Hold(j, p, "rejected")
           ELSE End(j, "refused", "none")
  BY DEF Reject
<1>3. CASE pcr[p].status = "pending"
  BY <1>1, <1>2, <1>3, HoldInv
<1>4. CASE pcr[p].status # "pending"
  BY <1>1, <1>2, <1>4, EndStep
<1>. QED  BY <1>3, <1>4

LEMMA LoadInv ==
    ASSUME IInv, NEW c \in Changes \cup Cancels \cup Rejects, Load(c)
    PROVE  IInv'
<1> DEFINE v == [call[c] EXCEPT !.pc = "update",
                                !.dirty = {x \in {"status"} :
                                             call[c].status # pcr[call[c].pcr].status}]
<1>1. /\ c \in Calls /\ c \notin Approves /\ TypeOK /\ call[c] \in Call
      /\ call[c].pc = "save" /\ UNCHANGED <<sub, pcr, history>>
      /\ call' = [call EXCEPT ![c] = v]
  BY Kinds, Rows DEF IInv, Load, TypeOK
<1>2. v \in Call /\ v.pc = "update" /\ v.pcr = call[c].pcr /\ v.status = call[c].status
  BY <1>1 DEF Call
<1> HIDE DEF v
<1>3. CallKnows(c)
  BY <1>1 DEF IInv
<1>4. CallKnows(c)'
  BY <1>1, <1>2, <1>3, OneCall DEF CallKnows, Begun, Exists
<1>5. ~Ended(c)
  BY <1>1 DEF Ended
<1>. QED  BY <1>1, <1>2, <1>4, <1>5, CallStep

LEMMA ReadPcrInv ==
    ASSUME IInv, NEW a \in Approves, ReadPcr(a)
    PROVE  IInv'
<1>1. /\ a \in Calls /\ a \notin Pcrs /\ TypeOK /\ call[a] \in Call
      /\ call[a].pc = "waiting" /\ UNCHANGED <<sub, pcr, history>>
  BY Kinds, Rows DEF IInv, ReadPcr, Arrives
<1>2. PICK p \in Pcrs :
        /\ Exists(p)
        /\ IF Approvable(p)
           THEN call' = [call EXCEPT ![a].pc = "read", ![a].pcr = p, ![a].user = pcr[p].user,
                                     ![a].cycle = pcr[p].cycle, ![a].status = "approved"]
           ELSE End(a, "refused", "none")
  BY DEF ReadPcr
<1>3. CASE ~Approvable(p)
  BY <1>1, <1>2, <1>3, EndStep
<1>4. CASE Approvable(p)
  <2> DEFINE v == [call[a] EXCEPT !.pc = "read", !.pcr = p, !.user = pcr[p].user,
                                  !.cycle = pcr[p].cycle, !.status = "approved"]
  <2>1. call' = [call EXCEPT ![a] = v]
    BY <1>1, <1>2, <1>4 DEF TypeOK
  <2>2. pcr[p].user \in Users /\ pcr[p].cycle \in BillingCycle
    BY <1>1, <1>2, Rows DEF Exists
  <2>3. /\ v \in Call /\ v.pc = "read" /\ v.pcr = p
        /\ v.user = pcr[p].user /\ v.cycle = pcr[p].cycle
    BY <1>1, <2>2 DEF Call, Statuses
  <2> HIDE DEF v
  <2>4. CallKnows(a)'
    BY <1>1, <2>1, <2>2, <2>3, OneCall DEF CallKnows, Begun
  <2>5. pcr[p].status # "approved"
    BY <1>4 DEF Approvable
  <2>. QED  BY <1>1, <2>1, <2>3, <2>4, <2>5, CallStep
<1>. QED  BY <1>3, <1>4

LEMMA FindSubInv ==
    ASSUME IInv, NEW a \in Approves, FindSub(a)
    PROVE  IInv'
<1> DEFINE v == [call[a] EXCEPT !.pc = "found", !.plan = sub[call[a].user].plan]
<1>1. /\ a \in Calls /\ TypeOK /\ call[a] \in Call /\ CallKnows(a)
      /\ call[a].pc = "read" /\ UNCHANGED <<sub, pcr, history>>
  BY Kinds, Rows DEF IInv, FindSub
<1>2. CASE End(a, "not_found", call[a].pcr)
  <2>1. call[a].pcr \in Pcrs
    BY <1>1 DEF CallKnows
  <2>. QED  BY <1>1, <1>2, <2>1, EndStep
<1>3. CASE call' = [call EXCEPT ![a].pc = "found", ![a].plan = sub[call[a].user].plan]
  <2>1. call' = [call EXCEPT ![a] = v]
    BY <1>1, <1>3 DEF TypeOK
  <2>2. sub[call[a].user].plan = "starter" /\ "starter" \in Plans
    BY <1>1, PlansAssumption DEF IInv, CallKnows, PlansStay
  <2>3. /\ v \in Call /\ v.pc = "found" /\ v.pcr = call[a].pcr /\ v.user = call[a].user
        /\ v.cycle = call[a].cycle /\ v.plan = "starter"
    BY <1>1, <2>2 DEF Call
  <2> HIDE DEF v
  <2>4. CallKnows(a)'
    BY <1>1, <2>1, <2>3, OneCall DEF CallKnows, Begun
  <2>5. ~Ended(a)
    BY <1>1 DEF Ended
  <2>. QED  BY <1>1, <2>1, <2>3, <2>4, <2>5, CallStep
<1>. QED  BY <1>2, <1>3 DEF FindSub

\* What the diff of the subscription finds: never the plan, and the cycle where it is new.
LEMMA Diff ==
    ASSUME IInv, NEW a \in Approves, call[a].pc = "found",
           NEW dirty, dirty = {x \in {"plan", "cycle"} : Saved(a)[x] # sub[call[a].user][x]}
    PROVE  /\ dirty \subseteq {"cycle"}
           /\ "cycle" \notin dirty => sub[call[a].user].cycle = call[a].cycle
<1>1. call[a].user \in Users /\ call[a].plan = "starter"
  BY Kinds DEF IInv, CallKnows
<1>2. sub[call[a].user].plan = "starter"
  BY <1>1 DEF IInv, PlansStay
<1>3. sub[call[a].user] \in Sub
  BY <1>1, Rows DEF IInv
<1>4. /\ Saved(a)["plan"] = call[a].plan /\ Saved(a)["cycle"] = call[a].cycle
      /\ sub[call[a].user]["plan"] = sub[call[a].user].plan
      /\ sub[call[a].user]["cycle"] = sub[call[a].user].cycle
  BY <1>3 DEF Saved, Sub
<1>. QED  BY <1>1, <1>2, <1>4

LEMMA LoadSubInv ==
    ASSUME IInv, NEW a \in Approves, LoadSub(a)
    PROVE  IInv'
<1> DEFINE dirty == {x \in {"plan", "cycle"} : Saved(a)[x] # sub[call[a].user][x]}
           v == [call[a] EXCEPT !.pc = "loaded", !.dirty = dirty]
<1>1. /\ a \in Calls /\ TypeOK /\ call[a] \in Call /\ CallKnows(a)
      /\ call[a].pc = "found" /\ UNCHANGED <<sub, pcr, history>>
      /\ call' = [call EXCEPT ![a] = v]
  BY Kinds, Rows DEF IInv, LoadSub, TypeOK
<1>2. /\ dirty \subseteq {"cycle"}
      /\ "cycle" \notin dirty => sub[call[a].user].cycle = call[a].cycle
  BY <1>1, Diff
<1> HIDE DEF dirty
<1>3. /\ v \in Call /\ v.pc = "loaded" /\ v.pcr = call[a].pcr /\ v.user = call[a].user
      /\ v.plan = call[a].plan /\ v.cycle = call[a].cycle /\ v.dirty = dirty
  BY <1>1, <1>2 DEF Call
<1> HIDE DEF v
<1>4. CallKnows(a)'
  BY <1>1, <1>2, <1>3, OneCall DEF CallKnows, Begun
<1>5. ~Ended(a)
  BY <1>1 DEF Ended
<1>. QED  BY <1>1, <1>2, <1>3, <1>4, <1>5, CallStep

LEMMA LockSubInv ==
    ASSUME IInv, NEW a \in Approves, LockSub(a)
    PROVE  IInv'
<1> DEFINE v == [call[a] EXCEPT !.pc = "locked",
                   !.seen = {p \in {call[a].pcr} : pcr[p].status # "approved"}]
<1>1. /\ a \in Calls /\ TypeOK /\ call[a] \in Call /\ CallKnows(a)
      /\ call[a].pc = "loaded" /\ UNCHANGED <<sub, pcr, history>>
      /\ call' = [call EXCEPT ![a] = v]
  BY Kinds, Rows DEF IInv, LockSub, TypeOK
<1>2. call[a].pcr \in Pcrs
  BY <1>1 DEF CallKnows
<1>3. /\ v \in Call /\ v.pc = "locked" /\ v.pcr = call[a].pcr /\ v.user = call[a].user
      /\ v.plan = call[a].plan /\ v.cycle = call[a].cycle /\ v.dirty = call[a].dirty
      /\ v.pcr \notin v.seen => pcr[v.pcr].status = "approved"
  BY <1>1, <1>2 DEF Call
<1> HIDE DEF v
<1>4. CallKnows(a)'
  BY <1>1, <1>3, OneCall DEF CallKnows, Begun
<1>5. ~Ended(a)
  BY <1>1 DEF Ended
<1>6. v.pcr \notin v.seen => applied[v.pcr] > 0
  BY <1>2, <1>3 DEF IInv, ApprovedWasApplied
<1>7. "cycle" \notin v.dirty /\ a \notin overtaken => sub[v.user].cycle = v.cycle
  BY <1>1, <1>3 DEF IInv, CleanIsCurrent
<1>. QED  BY <1>1, <1>3, <1>4, <1>5, <1>6, <1>7, CallStep

-----------------------------------------------------------------------------
(* Steps of users and of admins that reject: they write request rows *)

\* Such a step keeps who asked for what, approves nothing, and leaves alone the
\* requests that stand approved.
LEMMA RowStep ==
    ASSUME IInv, NEW c \in Calls \ Approves, NEW v \in Call, call' = [call EXCEPT ![c] = v],
           UNCHANGED history,
           sub' \in [Users -> Sub], pcr' \in [Pcrs -> Pcr],
           \A u \in Users : /\ sub'[u].plan = sub[u].plan /\ sub'[u].cycle = sub[u].cycle
                            /\ sub[u].status # "none" => sub'[u].status # "none",
           \A p \in Pcrs \ {c} : pcr'[p].user = pcr[p].user,
           \A p \in Pcrs : Exists(p) => /\ pcr'[p].user = pcr[p].user
                                        /\ pcr'[p].cycle = pcr[p].cycle,
           \A p \in Pcrs : pcr'[p].status = "approved" => pcr[p].status = "approved",
           \A p \in Pcrs \ contested : applied[p] > 0 =>
             /\ pcr'[p].status = pcr[p].status
             /\ v.pcr = p => v.pc = "done",
           CallKnows(c)', OneEach'
    PROVE  IInv'
<1>1. /\ call' \in [Calls -> Call] /\ call'[c] = v
      /\ \A d \in Calls \ {c} : call'[d] = call[d]
  BY OneCall DEF IInv
<1>2. UNCHANGED <<applied, contested, lastBy, overtaken>>
  BY DEF history
<1>3. TypeOK'
  BY <1>1, <1>2 DEF IInv, TypeOK
<1>4. ASSUME NEW d \in Calls PROVE CallKnows(d)'
  <2>1. CASE d = c
    BY <2>1
  <2>2. CASE d # c
    <3>1. CallKnows(d) /\ call'[d] = call[d]
      BY <1>1, <2>2 DEF IInv
    <3>2. ~Begun(d)' => call'[d].pcr = "none" /\ (d \in Pcrs => ~Exists(d)')
      BY <2>2, <3>1 DEF CallKnows, Begun, Exists
    <3>3. call[d].pc \in {"active", "superseding"} =>
            /\ d \in Changes /\ call[d].user \in Users
            /\ sub'[call[d].user].status # "none"
      BY <3>1 DEF CallKnows
    <3>4. \A p \in Pcrs : Exists(p) => Exists(p)'
      BY DEF Exists
    <3>5. call[d].pc \in {"read", "found", "loaded", "locked"} =>
            /\ pcr'[call[d].pcr].user = call[d].user
            /\ pcr'[call[d].pcr].cycle = call[d].cycle
      BY <3>1, Kinds DEF CallKnows, Exists
    <3>. QED  BY <3>1, <3>2, <3>3, <3>4, <3>5 DEF CallKnows
  <2>. QED  BY <2>1, <2>2
<1>5. ApprovedWasApplied'
  <2>1. \A p \in Pcrs : Appliers(p)' = Appliers(p)
    BY <1>1, Kinds DEF Appliers
  <2>. QED  BY <1>1, <1>2, <2>1, Kinds DEF IInv, ApprovedWasApplied, Exists
<1>6. NobodyHolds'
  <2> SUFFICES ASSUME NEW p \in Pcrs \ contested, applied[p] > 0
               PROVE  /\ applied[p] = 1 /\ pcr'[p].status = "approved"
                      /\ \A d \in Calls : call'[d].pcr = p => Ended(d)'
    BY <1>2 DEF NobodyHolds
  <2>1. /\ applied[p] = 1 /\ pcr[p].status = "approved"
        /\ \A d \in Calls : call[d].pcr = p => Ended(d)
    BY DEF IInv, NobodyHolds
  <2>2. ASSUME NEW d \in Calls, call'[d].pcr = p PROVE Ended(d)'
    BY <1>1, <2>1, <2>2 DEF Ended
  <2>. QED  BY <2>1, <2>2
<1>7. CleanIsCurrent'
  <2> SUFFICES ASSUME NEW a \in Approves \ overtaken, call[a].pc \in {"loaded", "locked"},
                      "cycle" \notin call[a].dirty
               PROVE  sub'[call[a].user].cycle = call[a].cycle
    BY <1>1, <1>2, Kinds DEF CleanIsCurrent
  <2>1. sub[call[a].user].cycle = call[a].cycle
    BY DEF IInv, CleanIsCurrent
  <2>2. call[a].user \in Users
    BY Kinds DEF IInv, CallKnows
  <2>. QED  BY <2>1, <2>2
<1>8. LastIsDone' /\ BillingOfLastApproval' /\ PlansStay'
  <2>1. ASSUME NEW u \in Users, lastBy[u] # "none" PROVE call'[lastBy[u]] = call[lastBy[u]]
    <3>1. lastBy[u] \in Approves /\ lastBy[u] \in Calls
      BY <2>1, Kinds DEF IInv, TypeOK
    <3>. QED  BY <1>1, <3>1
  <2>2. \A p \in Pcrs : pcr[p].user # "none" =>
          pcr'[p].user # "none" /\ pcr'[p].cycle = pcr[p].cycle
    BY DEF Exists
  <2>. QED  BY <1>2, <2>1, <2>2 DEF IInv, LastIsDone, BillingOfLastApproval, PlansStay
<1>. QED  BY <1>3, <1>4, <1>5, <1>6, <1>7, <1>8 DEF IInv

\* What a request that is not there yet has not been through.
LEMMA NotThere ==
    ASSUME IInv, NEW p \in Pcrs, ~Exists(p)
    PROVE  /\ ~(applied[p] > 0) /\ pcr[p].status # "approved"
           /\ pcr[p].user \notin Users
BY Kinds DEF IInv, ApprovedWasApplied, Exists

LEMMA CreateAccountInv ==
    ASSUME IInv, NEW r \in Registers, CreateAccount(r)
    PROVE  IInv'
<1> DEFINE u == call[r].user
           new == Requested(r)
<1>1. /\ r \in Calls \ Approves /\ r \in Pcrs /\ TypeOK /\ call[r] \in Call
      /\ call[r].pc = "hashing" /\ UNCHANGED history /\ u \in Users
  BY Kinds, Rows DEF IInv, CreateAccount, CallKnows
<1>2. CASE sub[u].status # "none"
  BY <1>1, <1>2, EndStep DEF CreateAccount
<1>3. CASE sub[u].status = "none"
  <2>1. /\ sub' = [sub EXCEPT ![u].status = "pending_upgrade"]
        /\ pcr' = [pcr EXCEPT ![r] = new] /\ End(r, "done", r)
    BY <1>3 DEF CreateAccount
  <2>2. /\ new \in Pcr /\ new.user = u /\ new.status = "pending" /\ u # "none"
    BY <1>1, Kinds DEF Pcr, Call, Statuses, Requested
  <2> HIDE DEF new
  <2>3. /\ sub' \in [Users -> Sub] /\ sub'[u].status = "pending_upgrade"
        /\ \A w \in Users : sub'[w].plan = sub[w].plan /\ sub'[w].cycle = sub[w].cycle
        /\ \A w \in Users \ {u} : sub'[w] = sub[w]
    BY <1>1, <2>1 DEF TypeOK, Sub
  <2>4. /\ pcr' \in [Pcrs -> Pcr] /\ pcr'[r] = new
        /\ \A p \in Pcrs \ {r} : pcr'[p] = pcr[p]
    BY <1>1, <2>1, <2>2 DEF TypeOK
  <2>5. ~Exists(r) /\ ~(applied[r] > 0)
    BY <1>1, Unbegun, NotThere DEF Begun
  <2> DEFINE v == At("done", r)
  <2>6. v \in Call /\ v.pc = "done" /\ v.pcr = r /\ call' = [call EXCEPT ![r] = v]
    BY <1>1, <2>1, AtType DEF End, Pcs
  <2> HIDE DEF v
  <2>7. CallKnows(r)'
    BY <1>1, <2>6, OneCall DEF CallKnows, Begun
  <2>8. OneEach'
    <3>1. \A p \in Pcrs : Exists(p) => sub[pcr[p].user].status # "none"
      BY DEF IInv, OneEach
    <3>2. ASSUME NEW p \in Pcrs \ {r} PROVE pcr[p].user # u
      BY <1>1, <1>3, <2>2, <3>1 DEF Exists
    <3>3. ASSUME NEW p \in Pcrs, Exists(p)' PROVE sub'[pcr'[p].user].status # "none"
      <4>1. CASE p = r
        BY <2>2, <2>3, <2>4, <4>1
      <4>2. CASE p # r
        <5>1. pcr[p].user \in Users /\ Exists(p) /\ pcr'[p] = pcr[p]
          BY <1>1, <2>4, <3>3, <4>2, Rows DEF Exists
        <5>. QED  BY <2>3, <3>1, <3>2, <4>2, <5>1
      <4>. QED  BY <4>1, <4>2
    <3>4. ASSUME NEW p \in Pcrs, NEW q \in Pcrs, pcr'[p].user = pcr'[q].user, Exists(p)',
                 pcr'[p].status = "pending", pcr'[q].status = "pending"
          PROVE  p = q
      BY <2>2, <2>4, <3>2, <3>4 DEF IInv, OneEach, Exists
    <3>. QED  BY <3>3, <3>4 DEF OneEach
  <2>9. \A p \in Pcrs : pcr'[p].status = "approved" => pcr[p].status = "approved"
    BY <2>2, <2>4
  <2>10. \A w \in Users : /\ sub'[w].plan = sub[w].plan /\ sub'[w].cycle = sub[w].cycle
                          /\ sub[w].status # "none" => sub'[w].status # "none"
    BY <2>3
  <2>11. /\ \A p \in Pcrs \ {r} : pcr'[p].user = pcr[p].user
         /\ \A p \in Pcrs : Exists(p) => /\ pcr'[p].user = pcr[p].user
                                         /\ pcr'[p].cycle = pcr[p].cycle
    BY <2>4, <2>5
  <2>12. \A p \in Pcrs \ contested : applied[p] > 0 =>
           /\ pcr'[p].status = pcr[p].status
           /\ v.pcr = p => v.pc = "done"
    BY <2>4, <2>5, <2>6
  <2>. QED  BY ONLY IInv, <1>1, <2>3, <2>4, <2>6, <2>7, <2>8, <2>9, <2>10, <2>11, <2>12, RowStep
<1>. QED  BY <1>2, <1>3

LEMMA InsertPcrInv ==
    ASSUME IInv, NEW c \in Changes, InsertPcr(c)
    PROVE  IInv'
<1> DEFINE u == call[c].user
           new == Requested(c)
           ended == [p \in Pcrs |-> IF p \in call[c].seen /\ pcr[p].status = "pending"
                                    THEN [pcr[p] EXCEPT !.status = "rejected"] ELSE pcr[p]]
           rows == [ended EXCEPT ![c] = new]
           v == At(IF call[c].notes THEN "save" ELSE "done", c)
<1>1. /\ c \in Calls \ Approves /\ c \in Pcrs /\ c \in Changes /\ TypeOK /\ call[c] \in Call
      /\ call[c].pc = "superseding" /\ UNCHANGED <<sub, history>>
      /\ u \in Users /\ sub[u].status # "none"
  BY Kinds, Rows DEF IInv, InsertPcr, CallKnows
<1>2. CASE Taken(rows, c)
  <2>1. End(c, "failed", "none") /\ UNCHANGED pcr
    BY <1>2 DEF InsertPcr
  <2>. QED  BY <1>1, <2>1, EndStep
<1>3. CASE ~Taken(rows, c)
  <2>1. pcr' = rows /\ call' = [call EXCEPT ![c] = v]
    BY <1>3 DEF InsertPcr
  <2>2. /\ new \in Pcr /\ new.user = u /\ new.status = "pending" /\ u # "none"
    BY <1>1, Kinds DEF Pcr, Call, Statuses, Requested
  <2> HIDE DEF new
  <2>3. /\ pcr' \in [Pcrs -> Pcr] /\ pcr'[c] = new
        /\ \A p \in Pcrs \ {c} : /\ pcr'[p].user = pcr[p].user
                                 /\ pcr'[p].cycle = pcr[p].cycle
                                 /\ pcr[p].status # "pending" => pcr'[p].status = pcr[p].status
                                 /\ pcr'[p].status = "pending" => pcr[p].status = "pending"
                                 /\ pcr'[p].status = "approved" => pcr[p].status = "approved"
    <3>1. \A p \in Pcrs : [pcr[p] EXCEPT !.status = "rejected"] \in Pcr
      BY <1>1, Rows DEF Pcr, Statuses
    <3>2. rows \in [Pcrs -> Pcr] /\ rows[c] = new
      BY <1>1, <2>2, <3>1, Rows
    <3>3. \A p \in Pcrs \ {c} :
            rows[p] = IF p \in call[c].seen /\ pcr[p].status = "pending"
                      THEN [pcr[p] EXCEPT !.status = "rejected"] ELSE pcr[p]
      OBVIOUS
    <3>. QED  BY <1>1, <2>1, <3>2, <3>3, Rows DEF Pcr
  <2>4. \A q \in Pcrs \ {c} : ~(pcr'[q].user = u /\ pcr'[q].status = "pending")
    <3>1. ~Taken(pcr', c)
      BY <1>3, <2>1
    <3>. QED  BY <2>2, <2>3, <3>1 DEF Taken
  <2> HIDE DEF rows
  <2>5. ~Exists(c) /\ ~(applied[c] > 0)
    BY <1>1, Unbegun, NotThere DEF Begun
  <2>6. v \in Call /\ v.pc \in {"save", "done"} /\ v.pcr = c /\ v.status = "pending"
    BY <1>1, AtType DEF Pcs
  <2> HIDE DEF v
  <2>7. CallKnows(c)'
    <3>1. call'[c] = v
      BY <1>1, <2>1, <2>6, OneCall
    <3>2. Exists(c)'
      BY <2>2, <2>3 DEF Exists
    <3>. QED  BY <1>1, <2>6, <3>1, <3>2 DEF CallKnows, Begun
  <2>8. OneEach'
    <3>1. ASSUME NEW p \in Pcrs, Exists(p)' PROVE sub'[pcr'[p].user].status # "none"
      BY <1>1, <2>2, <2>3, <3>1 DEF IInv, OneEach, Exists
    <3>2. ASSUME NEW p \in Pcrs, NEW q \in Pcrs, pcr'[p].user = pcr'[q].user, Exists(p)',
                 pcr'[p].status = "pending", pcr'[q].status = "pending"
          PROVE  p = q
      BY <2>2, <2>3, <2>4, <3>2 DEF IInv, OneEach, Exists
    <3>. QED  BY <3>1, <3>2 DEF OneEach
  <2>9. \A p \in Pcrs : pcr'[p].status = "approved" => pcr[p].status = "approved"
    BY <2>2, <2>3
  <2>10. /\ sub' \in [Users -> Sub]
         /\ \A w \in Users : /\ sub'[w].plan = sub[w].plan /\ sub'[w].cycle = sub[w].cycle
                             /\ sub[w].status # "none" => sub'[w].status # "none"
    BY <1>1 DEF TypeOK
  <2>11. /\ \A p \in Pcrs \ {c} : pcr'[p].user = pcr[p].user
         /\ \A p \in Pcrs : Exists(p) => /\ pcr'[p].user = pcr[p].user
                                         /\ pcr'[p].cycle = pcr[p].cycle
    BY <2>3, <2>5
  <2>12. \A p \in Pcrs \ contested : applied[p] > 0 =>
           /\ pcr'[p].status = pcr[p].status
           /\ v.pcr = p => v.pc = "done"
    <3>1. \A p \in Pcrs \ contested : applied[p] > 0 => pcr[p].status = "approved" /\ p # c
      BY <2>5 DEF IInv, NobodyHolds
    <3>. QED  BY <2>3, <2>6, <3>1
  <2>. QED  BY ONLY IInv, <1>1, <2>1, <2>3, <2>6, <2>7, <2>8, <2>9, <2>10, <2>11, <2>12, RowStep
<1>. QED  BY <1>2, <1>3

LEMMA UpdateInv ==
    ASSUME IInv, NEW c \in Changes \cup Cancels \cup Rejects, Update(c)
    PROVE  IInv'
<1> DEFINE r == call[c].pcr
           rows == IF "status" \in call[c].dirty
                   THEN [pcr EXCEPT ![r].status = call[c].status] ELSE pcr
<1>1. /\ c \in Calls \ Approves /\ TypeOK /\ call[c] \in Call /\ call[c].pc = "update"
      /\ UNCHANGED <<sub, history>> /\ r \in Pcrs /\ Exists(r)
      /\ call[c].status \in Statuses /\ call[c].status # "approved"
  BY Kinds, Rows DEF IInv, Update, CallKnows, Call
<1>2. CASE rows[r].status = "pending" /\ rows # pcr /\ Taken(rows, r)
  <2>1. End(c, "failed", "none") /\ UNCHANGED pcr
    BY <1>2 DEF Update
  <2>. QED  BY <1>1, <2>1, EndStep
<1>3. CASE ~(rows[r].status = "pending" /\ rows # pcr /\ Taken(rows, r))
  <2>1. pcr' = rows /\ End(c, "done", r)
    BY <1>3 DEF Update
  <2>2. /\ pcr' \in [Pcrs -> Pcr]
        /\ \A p \in Pcrs : pcr'[p].user = pcr[p].user /\ pcr'[p].cycle = pcr[p].cycle
        /\ \A p \in Pcrs \ {r} : pcr'[p].status = pcr[p].status
        /\ pcr'[r].status = pcr[r].status \/ pcr'[r].status = call[c].status
    BY <1>1, <2>1, Rows DEF TypeOK, Pcr
  <2>3. \/ pcr' = pcr
        \/ pcr'[r].status = "pending" =>
             \A q \in Pcrs \ {r} : ~(pcr'[q].user = pcr'[r].user /\ pcr'[q].status = "pending")
    BY <1>3, <2>1 DEF Taken
  <2> HIDE DEF rows
  <2> DEFINE v == At("done", r)
  <2>4. v \in Call /\ v.pc = "done" /\ v.pcr = r /\ call' = [call EXCEPT ![c] = v]
    BY <1>1, <2>1, AtType DEF End, Pcs
  <2> HIDE DEF v
  <2>5. CallKnows(c)'
    BY <1>1, <2>4, OneCall DEF CallKnows, Begun
  <2>6. OneEach'
    <3>1. ASSUME NEW p \in Pcrs, Exists(p)' PROVE sub'[pcr'[p].user].status # "none"
      BY <1>1, <2>2, <3>1 DEF IInv, OneEach, Exists
    <3>2. ASSUME NEW p \in Pcrs, NEW q \in Pcrs, pcr'[p].user = pcr'[q].user, Exists(p)',
                 pcr'[p].status = "pending", pcr'[q].status = "pending"
          PROVE  p = q
      BY <2>2, <2>3, <3>2 DEF IInv, OneEach, Exists
    <3>. QED  BY <3>1, <3>2 DEF OneEach
  <2>7. \A p \in Pcrs : pcr'[p].status = "approved" => pcr[p].status = "approved"
    BY <1>1, <2>2
  <2>8. /\ sub' \in [Users -> Sub]
        /\ \A w \in Users : /\ sub'[w].plan = sub[w].plan /\ sub'[w].cycle = sub[w].cycle
                            /\ sub[w].status # "none" => sub'[w].status # "none"
    BY <1>1 DEF TypeOK
  <2>9. \A p \in Pcrs \ contested : applied[p] > 0 => p # r
    BY <1>1 DEF IInv, NobodyHolds, Ended
  <2>10. \A p \in Pcrs \ contested : applied[p] > 0 =>
           /\ pcr'[p].status = pcr[p].status
           /\ v.pcr = p => v.pc = "done"
    BY <2>2, <2>4, <2>9
  <2>. QED  BY ONLY IInv, <1>1, <2>2, <2>4, <2>5, <2>6, <2>7, <2>8, <2>10, RowStep
<1>. QED  BY <1>2, <1>3

-----------------------------------------------------------------------------
(* The commit of an approval *)

LEMMA CommitInv ==
    ASSUME IInv, NEW a \in Approves, Commit(a)
    PROVE  IInv'
<1> DEFINE p == call[a].pcr
           u == call[a].user
           v == At("done", p)
<1>1. /\ a \in Calls /\ TypeOK /\ call[a].pc = "locked" /\ p \in Pcrs /\ u \in Users
      /\ pcr[p].user = u /\ pcr[p].cycle = call[a].cycle /\ call[a].cycle \in BillingCycle
      /\ call[a].plan = "starter" /\ "plan" \notin call[a].dirty
      /\ u # "none" /\ p # "none" /\ applied[p] \in Nat
  BY Kinds, Rows, ApproversFinite DEF IInv, Commit, CallKnows, Call
<1>2. /\ v \in Call /\ v.pc = "done" /\ v.pcr = p
      /\ call' \in [Calls -> Call] /\ call'[a] = v
      /\ \A d \in Calls \ {a} : call'[d] = call[d]
  <2>1. v \in Call /\ v.pc = "done" /\ v.pcr = p /\ call' = [call EXCEPT ![a] = v]
    BY <1>1, AtType DEF Commit, End, Pcs
  <2> HIDE DEF v
  <2>. QED  BY <1>1, <2>1, OneCall
<1> HIDE DEF v
<1>3. /\ sub' \in [Users -> Sub] /\ \A w \in Users : sub'[w].status = sub[w].status
      /\ \A w \in Users \ {u} : sub'[w] = sub[w]
      /\ sub'[u].plan = sub[u].plan
      /\ sub'[u].cycle = IF "cycle" \in call[a].dirty THEN call[a].cycle ELSE sub[u].cycle
  <2>1. /\ Written(a) \in Sub /\ Written(a).status = sub[u].status
        /\ Written(a).plan = sub[u].plan
        /\ Written(a).cycle = IF "cycle" \in call[a].dirty THEN call[a].cycle ELSE sub[u].cycle
    BY <1>1, Rows DEF Written, Saved, Sub
  <2>. QED  BY <1>1, <2>1 DEF Commit, TypeOK
<1>4. /\ pcr' \in [Pcrs -> Pcr]
      /\ \A q \in Pcrs : pcr'[q].user = pcr[q].user /\ pcr'[q].cycle = pcr[q].cycle
      /\ \A q \in Pcrs \ {p} : pcr'[q].status = pcr[q].status
      /\ pcr'[p].status = IF p \in call[a].seen THEN "approved" ELSE pcr[p].status
  BY <1>1, Rows DEF Commit, TypeOK, Pcr, Statuses
<1>5. /\ applied' = [applied EXCEPT ![p] = @ + 1]
      /\ applied'[p] = applied[p] + 1 /\ \A q \in Pcrs \ {p} : applied'[q] = applied[q]
  BY <1>1 DEF Commit, TypeOK
<1>6. /\ contested \subseteq contested' /\ contested' \subseteq Pcrs
      /\ p \notin contested' => p \notin contested /\ Holders(p, a) = {}
  BY <1>1 DEF Commit, TypeOK
<1>7. /\ overtaken \subseteq overtaken' /\ overtaken' \subseteq Approves
      /\ a \in overtaken' => a \in overtaken
      /\ \A b \in Approves \ {a} :
           /\ call[b].user = u /\ call[b].pc \in {"loaded", "locked"}
           /\ "cycle" \notin call[b].dirty
           => b \in overtaken'
  BY <1>1 DEF Commit, TypeOK
<1>8. /\ lastBy' \in [Users -> Approves \cup {"none"}] /\ lastBy'[u] = a
      /\ \A w \in Users \ {u} : lastBy'[w] = lastBy[w]
  BY <1>1 DEF Commit, TypeOK
<1> HIDE DEF p, u
<1>9. \A q \in Pcrs : /\ applied'[q] = Cardinality(Appliers(q)')
                      /\ applied'[q] \in 0..Cardinality(Approves)
  <2> SUFFICES ASSUME NEW q \in Pcrs
               PROVE  /\ applied'[q] = Cardinality(Appliers(q)')
                      /\ applied'[q] \in 0..Cardinality(Approves)
    OBVIOUS
  <2>1. /\ applied[q] = Cardinality(Appliers(q)) /\ applied[q] \in 0..Cardinality(Approves)
    BY <1>1, Rows DEF IInv, ApprovedWasApplied
  <2>2. CASE q # p
    <3>1. Appliers(q)' = Appliers(q)
      BY <1>1, <1>2, <2>2, Kinds DEF Appliers, p
    <3>. QED  BY <1>5, <2>1, <2>2, <3>1
  <2>3. CASE q = p
    <3>1. Appliers(q)' = Appliers(q) \cup {a} /\ a \notin Appliers(q)
      BY <1>1, <1>2, <2>3, Kinds DEF Appliers
    <3>2. Appliers(q) \in SUBSET Approves /\ Appliers(q)' \in SUBSET Approves
      BY <3>1 DEF Appliers
    <3>3. IsFiniteSet(Appliers(q)) /\ Cardinality(Appliers(q)') <= Cardinality(Approves)
      BY <3>2, ApproversFinite, FS_Subset
    <3>4. Cardinality(Appliers(q)') = Cardinality(Appliers(q)) + 1
      BY <3>1, <3>3, FS_AddElement
    <3>. QED  BY <1>1, <1>5, <2>1, <2>3, <3>3, <3>4, ApproversFinite
  <2>. QED  BY <2>2, <2>3
<1>10. TypeOK'
  <2>1. applied' \in [Pcrs -> 0..Cardinality(Approves)]
    BY <1>1, <1>5, <1>9 DEF TypeOK
  <2>. QED  BY <1>2, <1>3, <1>4, <1>6, <1>7, <1>8, <2>1 DEF TypeOK
<1>11. ASSUME NEW d \in Calls PROVE CallKnows(d)'
  <2>1. CASE d = a
    BY <1>2, <2>1 DEF CallKnows, Begun
  <2>2. CASE d # a
    <3>1. CallKnows(d) /\ call'[d] = call[d]
      BY <1>2, <2>2 DEF IInv
    <3>. QED  BY <1>3, <1>4, <3>1 DEF CallKnows, Begun, Exists
  <2>. QED  BY <2>1, <2>2
<1>12. OneEach'
  <2>1. \A q \in Pcrs : pcr'[q].status = "pending" => pcr[q].status = "pending"
    BY <1>4
  <2>2. ASSUME NEW q \in Pcrs, Exists(q)' PROVE sub'[pcr'[q].user].status # "none"
    <3>1. pcr'[q].user = pcr[q].user /\ pcr[q].user \in Users /\ Exists(q)
      BY <1>1, <1>4, <2>2, Rows DEF Exists
    <3>. QED  BY <1>3, <3>1 DEF IInv, OneEach
  <2>. QED  BY <1>4, <2>1, <2>2 DEF IInv, OneEach, Exists
<1>13. ApprovedWasApplied'
  <2>1. ASSUME NEW q \in Pcrs PROVE (applied'[q] > 0 => Exists(q)')
    BY <1>1, <1>4, <1>5, Rows DEF IInv, ApprovedWasApplied, Exists
  <2>2. ASSUME NEW q \in Pcrs, pcr'[q].status = "approved" PROVE applied'[q] > 0
    BY <1>1, <1>4, <1>5, <2>2 DEF IInv, ApprovedWasApplied
  <2>3. ASSUME NEW b \in Approves, call'[b].pc = "locked", call'[b].pcr \notin call'[b].seen
        PROVE  applied'[call'[b].pcr] > 0
    <3>1. /\ b # a /\ call'[b] = call[b] /\ call[b].pcr \in Pcrs /\ call[b].pcr \notin call[b].seen
          /\ call[b].pc = "locked"
      BY <1>2, <2>3, Kinds DEF IInv, CallKnows
    <3>2. applied[call[b].pcr] > 0
      BY <3>1 DEF IInv, ApprovedWasApplied
    <3>3. \A q \in Pcrs : applied[q] > 0 => applied'[q] > 0
      BY <1>1, <1>5
    <3>. QED  BY <3>1, <3>2, <3>3
  <2>. QED  BY <1>9, <2>1, <2>2, <2>3 DEF ApprovedWasApplied
<1>14. NobodyHolds'
  <2> SUFFICES ASSUME NEW q \in Pcrs \ contested', applied'[q] > 0
               PROVE  /\ applied'[q] = 1 /\ pcr'[q].status = "approved"
                      /\ \A d \in Calls : call'[d].pcr = q => Ended(d)'
    BY DEF NobodyHolds
  <2>1. CASE q # p
    <3>1. /\ applied[q] = 1 /\ pcr[q].status = "approved"
          /\ \A d \in Calls : call[d].pcr = q => Ended(d)
      BY <1>5, <1>6, <2>1 DEF IInv, NobodyHolds
    <3>2. ASSUME NEW d \in Calls, call'[d].pcr = q PROVE Ended(d)'
      BY <1>2, <2>1, <3>1, <3>2 DEF Ended
    <3>. QED  BY <1>4, <1>5, <2>1, <3>1, <3>2
  <2>2. CASE q = p
    <3>1. p \notin contested /\ Holders(p, a) = {}
      BY <1>6, <2>2
    <3>2. ~(applied[p] > 0)
      BY <1>1, <3>1 DEF IInv, NobodyHolds, Ended, p
    <3>3. p \in call[a].seen
      BY <1>1, <3>2 DEF IInv, ApprovedWasApplied, p
    <3>4. applied'[p] = 1
      BY <1>1, <1>5, <3>2
    <3>5. ASSUME NEW d \in Calls, call'[d].pcr = p PROVE Ended(d)'
      BY <1>2, <3>1, <3>5 DEF Holders, Ended
    <3>. QED  BY <1>4, <2>2, <3>3, <3>4, <3>5
  <2>. QED  BY <2>1, <2>2
<1>15. CleanIsCurrent'
  <2> SUFFICES ASSUME NEW b \in Approves \ overtaken', call'[b].pc \in {"loaded", "locked"},
                      "cycle" \notin call'[b].dirty
               PROVE  sub'[call'[b].user].cycle = call'[b].cycle
    BY DEF CleanIsCurrent
  <2>1. b # a /\ b \in Calls /\ call'[b] = call[b]
    BY <1>2, Kinds
  <2>2. call[b].user # u /\ b \notin overtaken
    BY <1>7, <2>1
  <2>3. call[b].user \in Users /\ sub[call[b].user].cycle = call[b].cycle
    BY <2>1, <2>2 DEF IInv, CallKnows, CleanIsCurrent
  <2>. QED  BY <1>3, <2>1, <2>2, <2>3
<1>16. LastIsDone' /\ BillingOfLastApproval'
  <2> SUFFICES ASSUME NEW w \in Users, lastBy'[w] # "none"
               PROVE  /\ call'[lastBy'[w]].pc = "done"
                      /\ call'[lastBy'[w]].pcr \in Pcrs /\ pcr'[call'[lastBy'[w]].pcr].user # "none"
                      /\ lastBy'[w] \notin overtaken' =>
                           sub'[w].cycle = pcr'[call'[lastBy'[w]].pcr].cycle
    BY DEF LastIsDone, BillingOfLastApproval, Exists
  <2>1. CASE w # u
    <3>1. /\ lastBy'[w] = lastBy[w] /\ lastBy[w] \in Approves /\ lastBy[w] \in Calls
          /\ call[lastBy[w]].pc = "done"
          /\ call[lastBy[w]].pcr \in Pcrs /\ pcr[call[lastBy[w]].pcr].user # "none"
      BY <1>1, <1>8, <2>1, Kinds DEF LastIsDone, IInv, TypeOK
    <3>2. call'[lastBy[w]] = call[lastBy[w]]
      BY <1>1, <1>2, <3>1
    <3>3. lastBy[w] \notin overtaken => sub[w].cycle = pcr[call[lastBy[w]].pcr].cycle
      BY <3>1, Kinds DEF IInv, BillingOfLastApproval
    <3>. QED  BY <1>3, <1>4, <1>7, <2>1, <3>1, <3>2, <3>3 DEF Exists
  <2>2. CASE w = u
    <3>1. a \notin overtaken /\ "cycle" \notin call[a].dirty => sub[u].cycle = call[a].cycle
      BY <1>1 DEF IInv, CleanIsCurrent, u
    <3>2. a \notin overtaken' => a \notin overtaken
      BY <1>7
    <3>. QED  BY <1>1, <1>2, <1>3, <1>4, <1>8, <2>2, <3>1, <3>2 DEF Exists
  <2>. QED  BY <2>1, <2>2
<1>17. PlansStay'
  BY <1>1, <1>3 DEF IInv, PlansStay
<1>. QED  BY <1>10, <1>11, <1>12, <1>13, <1>14, <1>15, <1>16, <1>17 DEF IInv

-----------------------------------------------------------------------------
(* The theorems *)

LEMMA NextInv == IInv /\ [Next]_vars => IInv'
<1> SUFFICES ASSUME IInv, [Next]_vars PROVE IInv'  OBVIOUS
<1>1. ASSUME NEW r \in Registers, CheckEmail(r) \/ CreateAccount(r) PROVE IInv'
  BY <1>1, CheckEmailInv, CreateAccountInv
<1>2. ASSUME NEW c \in Changes, RequireActive(c) \/ Snapshot(c) \/ InsertPcr(c) PROVE IInv'
  BY <1>2, RequireActiveInv, SnapshotInv, InsertPcrInv
<1>3. ASSUME NEW k \in Cancels, FindPending(k) PROVE IInv'
  BY <1>3, FindPendingInv
<1>4. ASSUME NEW j \in Rejects, Reject(j) PROVE IInv'
  BY <1>4, RejectInv
<1>5. ASSUME NEW c \in Changes \cup Cancels \cup Rejects, Load(c) \/ Update(c) PROVE IInv'
  BY <1>5, LoadInv, UpdateInv
<1>6. ASSUME NEW a \in Approves, ReadPcr(a) \/ FindSub(a) \/ LoadSub(a) \/ LockSub(a)
                                  \/ Commit(a)
      PROVE  IInv'
  BY <1>6, ReadPcrInv, FindSubInv, LoadSubInv, LockSubInv, CommitInv
<1>7. CASE UNCHANGED vars
  <2>1. UNCHANGED <<sub, pcr, call, applied, contested, lastBy, overtaken>>
    BY <1>7 DEF vars
  <2>2. TypeOK' /\ OneEach' /\ ApprovedWasApplied' /\ NobodyHolds'
    BY <2>1 DEF IInv, TypeOK, OneEach, ApprovedWasApplied, Appliers, NobodyHolds, Exists, Ended
  <2>3. CleanIsCurrent' /\ LastIsDone' /\ BillingOfLastApproval' /\ PlansStay'
    BY <2>1 DEF IInv, CleanIsCurrent, LastIsDone, BillingOfLastApproval, PlansStay
  <2>4. \A c \in Calls : CallKnows(c)'
    BY <2>1 DEF IInv, CallKnows, Begun, Exists
  <2>. QED  BY <2>2, <2>3, <2>4 DEF IInv
<1>. QED  BY <1>1, <1>2, <1>3, <1>4, <1>5, <1>6, <1>7 DEF Next

\* Every reachable state is well formed, and calls hold what their place in the code says.
THEOREM InvHolds == Spec => []IInv
BY InitInv, NextInv, PTL DEF Spec

\* Subscriptions, requests and what calls hold keep their types in every run.
THEOREM TypeCorrect == Spec => []TypeOK
<1>1. IInv => TypeOK  BY DEF IInv
<1>. QED  BY <1>1, InvHolds, PTL

\* However requests, late notes, cancels and rejects interleave, a user never has two
\* pending requests (the partial unique index ux_pcr_user_pending and who may write).
THEOREM RequestsAreApart == Spec => []OnePending
<1>1. IInv => OnePending
  <2> SUFFICES ASSUME IInv, NEW u \in Users PROVE Cardinality(Pending(u)) <= 1
    BY DEF OnePending
  <2>1. CASE Pending(u) = {}
    BY <2>1, FS_EmptySet
  <2>2. CASE Pending(u) # {}
    <3>1. PICK p \in Pcrs : p \in Pending(u)
      BY <2>2 DEF Pending
    <3>2. Pending(u) = {p}
      BY <3>1, Kinds DEF IInv, OneEach, Pending, Exists
    <3>. QED  BY <3>2, FS_Singleton
  <2>. QED  BY <2>1, <2>2
<1>. QED  BY <1>1, InvHolds, PTL

\* A request approved while no other call held it stays approved, and its plan is
\* approved once, whatever users and admins do afterwards.
THEOREM ApprovalIsFinal == Spec => []ApprovalsStand
<1>1. IInv => ApprovalsStand
  BY DEF IInv, NobodyHolds, ApprovalsStand
<1>. QED  BY <1>1, InvHolds, PTL

\* However approvals for a user overlap, the billing cycle in force is that of the last
\* one unless that one was overtaken after it had compared the row.
THEOREM ApprovedBillingIsInForce == Spec => []BillingOfLastApproval
<1>1. IInv => BillingOfLastApproval  BY DEF IInv
<1>. QED  BY <1>1, InvHolds, PTL

\* No sequence of requests and approvals takes any user off the starter plan: save()
\* takes planId from the plan relation that applyPlanChange has loaded.
THEOREM ApprovedPlansAreNotInForce == Spec => []PlansStay
<1>1. IInv => PlansStay  BY DEF IInv
<1>. QED  BY <1>1, InvHolds, PTL

\* Together: what approvals change of a subscription is its billing.
THEOREM ApprovalsOnlyBill == Spec => []ApprovalsChangeBillingOnly
<1>1. IInv => ApprovalsChangeBillingOnly  BY DEF IInv, ApprovalsChangeBillingOnly
<1>. QED  BY <1>1, InvHolds, PTL

-----------------------------------------------------------------------------
(* New accounts *)

\* No request of a sign-up is approved, and no new account's subscription becomes ACTIVE.
SignupsStayPending ==
    /\ \A r \in Registers : applied[r] = 0 /\ pcr[r].status # "approved"
    /\ \A u \in Users \ Backfilled : sub[u].status # "active"

\* Sign-ups are of new users, and an approval that has found an ACTIVE subscription has
\* found that of a backfilled user.
NewUsersApart ==
    /\ \A u \in Users : sub[u].status = "active" <=> u \in Backfilled
    /\ \A r \in Registers : pcr[r].user \notin Backfilled /\ applied[r] = 0
    /\ \A a \in Approves :
         call[a].pc \in {"found", "loaded", "locked"} => call[a].user \in Backfilled

LEMMA NewUsersInit == Init => NewUsersApart
<1> SUFFICES ASSUME Init PROVE NewUsersApart  OBVIOUS
<1>1. \A a \in Approves : call[a].pc = "waiting"
  BY Kinds, AtType DEF Init, Pcs
<1>2. \A r \in Registers : pcr[r].user = "none" /\ applied[r] = 0
  BY Kinds DEF Init, NoPcr
<1>. QED  BY <1>1, <1>2, BackfilledAreUsers, Kinds DEF Init, NewUsersApart

\* Steps that approve nothing, make no account and find no subscription.
LEMMA NewUsersStay ==
    ASSUME IInv, NewUsersApart, sub' = sub, applied' = applied,
           \A r \in Registers : pcr'[r].user = pcr[r].user,
           \A a \in Approves : call'[a].pc \in {"found", "loaded", "locked"} =>
             /\ call[a].pc \in {"found", "loaded", "locked"} /\ call'[a].user = call[a].user
    PROVE  NewUsersApart'
BY DEF NewUsersApart

LEMMA NewUsersStep == IInv /\ NewUsersApart /\ [Next]_vars => NewUsersApart'
<1> SUFFICES ASSUME IInv, NewUsersApart, [Next]_vars PROVE NewUsersApart'  OBVIOUS
<1>1. TypeOK  BY DEF IInv
<1>2. ASSUME NEW r \in Registers, CheckEmail(r) \/ CreateAccount(r) PROVE NewUsersApart'
  <2>1. \A a \in Approves : call'[a] = call[a]
    BY <1>2, <1>1, Kinds DEF CheckEmail, CreateAccount, End, TypeOK
  <2>2. CASE UNCHANGED <<sub, pcr, history>>
    BY <2>1, <2>2, NewUsersStay DEF history
  <2>3. CASE /\ CreateAccount(r) /\ sub[call[r].user].status = "none"
             /\ sub' = [sub EXCEPT ![call[r].user].status = "pending_upgrade"]
             /\ pcr' = [pcr EXCEPT ![r] = Requested(r)]
    <3>1. call[r].user \in Users /\ call[r].user \notin Backfilled
      BY <2>3, Kinds DEF CreateAccount, NewUsersApart, IInv, CallKnows
    <3>2. /\ sub'[call[r].user].status = "pending_upgrade"
            /\ \A u \in Users \ {call[r].user} : sub'[u] = sub[u]
      BY <1>1, <2>3, <3>1 DEF TypeOK, Sub
    <3>3. /\ pcr'[r].user = call[r].user
          /\ \A q \in Registers \ {r} : pcr'[q] = pcr[q]
      BY <1>1, <2>3, Kinds DEF TypeOK, Requested
    <3>4. applied' = applied
      BY <2>3 DEF CreateAccount, history
    <3>. QED  BY <2>1, <3>1, <3>2, <3>3, <3>4 DEF NewUsersApart
  <2>. QED  BY <1>2, <2>2, <2>3 DEF CheckEmail, CreateAccount
<1>3. ASSUME NEW c \in Changes \cup Cancels \cup Rejects,
             \/ RequireActive(c) \/ Snapshot(c) \/ FindPending(c) \/ Reject(c)
             \/ Load(c) \/ Update(c) \/ InsertPcr(c)
      PROVE  NewUsersApart'
  <2>1. c \in Calls /\ c \notin Approves /\ c \notin Registers
    BY Kinds, CallsDisjoint
  <2>2. \A a \in Approves : call'[a] = call[a]
    BY <1>3, <1>1, <2>1, Kinds
    DEF RequireActive, Snapshot, FindPending, Reject, Load, Update, InsertPcr, End, Hold, TypeOK
  <2>3. sub' = sub /\ applied' = applied
    BY <1>3
    DEF RequireActive, Snapshot, FindPending, Reject, Load, Update, InsertPcr, history
  <2>4. ASSUME NEW r \in Registers PROVE pcr'[r].user = pcr[r].user
    <3>1. r \in Pcrs /\ r # c /\ pcr[r] \in Pcr
      BY <2>1, Kinds, Rows, <1>1
    <3>2. CASE InsertPcr(c)
      <4> DEFINE ended(p) == IF p \in call[c].seen /\ pcr[p].status = "pending"
                             THEN [pcr[p] EXCEPT !.status = "rejected"] ELSE pcr[p]
      <4>1. pcr'[r] = pcr[r] \/ pcr'[r] = ended(r)
        BY <3>1, <3>2 DEF InsertPcr
      <4>2. ended(r).user = pcr[r].user
        BY <3>1 DEF Pcr
      <4>. QED  BY <4>1, <4>2
    <3>3. CASE Update(c)
      <4>1. pcr' = pcr \/ pcr' = [pcr EXCEPT ![call[c].pcr].status = call[c].status]
        BY <3>3 DEF Update
      <4>. QED  BY <1>1, <3>1, <4>1 DEF TypeOK, Pcr
    <3>4. CASE pcr' = pcr
      BY <3>4
    <3>. QED
      BY <1>3, <3>2, <3>3, <3>4 DEF RequireActive, Snapshot, FindPending, Reject, Load
  <2>. QED  BY <2>2, <2>3, <2>4, NewUsersStay
<1>4. ASSUME NEW a \in Approves, ReadPcr(a) \/ FindSub(a) \/ LoadSub(a) \/ LockSub(a)
      PROVE  NewUsersApart'
  <2>1. UNCHANGED <<sub, pcr, applied>> /\ a \in Calls /\ call[a] \in Call
    BY <1>4, <1>1, Rows, Kinds DEF ReadPcr, FindSub, LoadSub, LockSub, history
  <2>2. \A b \in Approves \ {a} : call'[b] = call[b]
    BY <1>4, <1>1, Kinds DEF ReadPcr, FindSub, LoadSub, LockSub, End, TypeOK
  <2>3. call'[a].pc \in {"found", "loaded", "locked"} => call'[a].user \in Backfilled
    <3>1. CASE ReadPcr(a)
      <4>1. call'[a].pc \in {"read", "refused"}
        BY <1>1, <2>1, <3>1, AtType DEF ReadPcr, End, TypeOK, Call, Pcs
      <4>. QED  BY <4>1
    <3>2. CASE FindSub(a)
      <4>1. call[a].pcr \in Pcrs /\ call[a].user \in Users
        BY <2>1, <3>2 DEF FindSub, IInv, CallKnows
      <4>2. CASE sub[call[a].user].status # "active"
        BY <1>1, <2>1, <3>2, <4>1, <4>2, EndEffect, AtType DEF FindSub, Pcs
      <4>3. CASE sub[call[a].user].status = "active"
        <5>1. call'[a].user = call[a].user
          BY <1>1, <2>1, <3>2, <4>3 DEF FindSub, TypeOK, Call
        <5>. QED  BY <4>1, <4>3, <5>1 DEF NewUsersApart
      <4>. QED  BY <4>2, <4>3
    <3>3. CASE LoadSub(a)
      <4>1. call[a].pc = "found" /\ call'[a].user = call[a].user
        BY <1>1, <2>1, <3>3 DEF LoadSub, TypeOK, Call
      <4>. QED  BY <4>1 DEF NewUsersApart
    <3>4. CASE LockSub(a)
      <4>1. call[a].pc = "loaded" /\ call'[a].user = call[a].user
        BY <1>1, <2>1, <3>4 DEF LockSub, TypeOK, Call
      <4>. QED  BY <4>1 DEF NewUsersApart
    <3>. QED  BY <1>4, <3>1, <3>2, <3>3, <3>4
  <2>. QED  BY <2>1, <2>2, <2>3 DEF NewUsersApart
<1>5. ASSUME NEW a \in Approves, Commit(a) PROVE NewUsersApart'
  <2> DEFINE p == call[a].pcr
             u == call[a].user
  <2>1. /\ p \in Pcrs /\ u \in Users /\ u \in Backfilled /\ p \notin Registers
        /\ a \in Calls
    BY <1>5, Kinds DEF Commit, IInv, CallKnows, NewUsersApart
  <2>2. \A b \in Approves : call'[b] = call[b] \/ call'[b].pc = "done"
    BY <1>5, <1>1, <2>1, EndEffect, AtType, Kinds DEF Commit, Pcs
  <2>3. /\ sub'[u].status = sub[u].status
        /\ \A v \in Users \ {u} : sub'[v] = sub[v]
    <3>1. Written(a) \in [status: {sub[u].status}, plan: Plans \cup {Saved(a)["plan"]},
                           cycle: BillingCycle \cup {"none", Saved(a)["cycle"]}]
      BY <1>1, <2>1, Rows DEF Written, Sub
    <3>. QED  BY <1>5, <1>1, <2>1, <3>1 DEF Commit, TypeOK
  <2>4. \A r \in Registers : pcr'[r] = pcr[r] /\ applied'[r] = applied[r]
    BY <1>5, <1>1, <2>1, Kinds DEF Commit, TypeOK
  <2> HIDE DEF p, u
  <2>. QED  BY <2>1, <2>2, <2>3, <2>4 DEF NewUsersApart
<1>6. CASE UNCHANGED vars
  BY <1>6, NewUsersStay DEF vars
<1>. QED
  BY <1>2, <1>3, <1>4, <1>5, <1>6 DEF Next

\* However registrations, changes and decisions interleave, no approval of a sign-up's
\* request ever succeeds: register makes the subscription PENDING_UPGRADE, approve needs
\* an ACTIVE one, and nothing in between makes it so.
THEOREM SignupsAreNeverApproved == Spec => []SignupsStayPending
<1>1. IInv /\ NewUsersApart => SignupsStayPending
  BY Kinds DEF IInv, ApprovedWasApplied, NewUsersApart, SignupsStayPending
<1>. QED  BY <1>1, NewUsersInit, NewUsersStep, InvHolds, PTL DEF Spec
=============================================================================

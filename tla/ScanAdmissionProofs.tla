------------------------ MODULE ScanAdmissionProofs -------------------------
(***************************************************************************)
(* Proofs about ScanAdmission for any hosts, requests and caps.  A stale   *)
(* save may put an old token or status back, but an entity says `verified' *)
(* only if it was loaded so or a verification succeeded: that is carried   *)
(* through rows, entities in memory and open transactions.                 *)
(***************************************************************************)
EXTENDS ScanAdmission, FiniteSetTheorems, TLAPS

\* A row or an entity in memory that says verified stands on a host that a
\* verification has found a token on.
VerifiedIsProved ==
    /\ \A h \in Hosts : target[h].status = "verified" => proved[h] # {}
    /\ \A r \in Requests :
         request[r].mem.status = "verified" => proved[request[r].host] # {}

\* A scan past its check read a target, a user's scan a verified one.
CheckedWasVerified ==
    \A s \in Scans : request[s].pc \in {"marking", "checked"} =>
        /\ Exists(request[s].mem)
        /\ s \notin Admin => request[s].mem.status = "verified"

\* A row or entity has an id if and only if it has a token.
Whole(row) == Exists(row) <=> row.token # "null"

EntitiesAreWhole ==
    /\ \A h \in Hosts : Whole(target[h])
    /\ \A r \in Requests : Whole(request[r].mem)

IInv ==
    /\ TypeOK
    /\ VerifiedIsProved
    /\ CheckedWasVerified
    /\ EntitiesAreWhole
    /\ ScannedHostsWereProved
    /\ JobsKeepTheirTarget

-----------------------------------------------------------------------------
LEMMA NoTargetType == NoTarget \in Target
BY DEF NoTarget, Target, TargetStatuses

LEMMA AtType ==
    ASSUME NEW h \in Hosts, NEW pc \in {"arrived", "counted", "admitted", "done",
                                        "refused", "failed", "expired"}
    PROVE  /\ At(pc, h) \in Request
           /\ At(pc, h).pc = pc /\ At(pc, h).mem = NoTarget
BY NoTargetType DEF At, Request

\* Updating some columns of a row with an entity's gives a row with the same id.
Overlaid(a, b, D) ==
    [col \in {"id"} \cup TargetColumns |-> IF col \in D THEN a[col] ELSE b[col]]

LEMMA Overlay ==
    ASSUME NEW a \in Target, NEW b \in Target, NEW D \in SUBSET TargetColumns
    PROVE  /\ Overlaid(a, b, D) \in Target /\ Overlaid(a, b, D).id = b.id
           /\ Overlaid(a, b, D).status \in {a.status, b.status}
           /\ Overlaid(a, b, D).token \in {a.token, b.token}
<1> DEFINE o == Overlaid(a, b, D)
<1> USE DEF Overlaid
<1>1. o = [id |-> o.id, token |-> o.token, status |-> o.status,
           expiresAt |-> o.expiresAt]
  BY DEF TargetColumns
<1>2. o.id = b.id /\ o.status \in {a.status, b.status} /\ o.token \in {a.token, b.token}
  BY DEF TargetColumns
<1>3. /\ o.id \in Adds \cup {"null"} /\ o.token \in Adds \cup {"null"}
      /\ o.status \in TargetStatuses /\ o.expiresAt \in Verifies \cup {"null"}
  BY DEF Target, TargetColumns
<1>4. o \in Target
  BY <1>1, <1>3 DEF Target
<1>. QED  BY <1>2, <1>4

\* What the two ways of moving a request do to it and to the others.
LEMMA GotoEffect ==
    ASSUME TypeOK, NEW r \in Requests, NEW pc \in {"arrived", "counted", "admitted",
                                                   "done", "refused", "failed", "expired"},
           Goto(r, pc)
    PROVE  /\ request' \in [Requests -> Request]
           /\ request'[r].pc = pc /\ request'[r].host = request[r].host
           /\ request'[r].mem = NoTarget
           /\ \A q \in Requests \ {r} : request'[q] = request[q]
<1>1. request[r].host \in Hosts
  BY DEF TypeOK, Request
<1>2. At(pc, request[r].host) \in Request
  BY <1>1, AtType
<1>. QED  BY <1>2 DEF TypeOK, Goto, At

LEMMA HoldEffect ==
    ASSUME TypeOK, NEW r \in Requests,
           NEW pc \in {"found", "resolved", "insert", "marking", "checked"},
           NEW e \in Target, Hold(r, pc, e)
    PROVE  /\ request' \in [Requests -> Request]
           /\ request'[r].pc = pc /\ request'[r].host = request[r].host
           /\ request'[r].mem = e
           /\ \A q \in Requests \ {r} : request'[q] = request[q]
<1> DEFINE held == [request[r] EXCEPT !.pc = pc, !.mem = e]
<1>1. held \in Request /\ held.pc = pc /\ held.mem = e /\ held.host = request[r].host
  BY DEF TypeOK, Request
<1>2. request' = [request EXCEPT ![r] = held]
  BY DEF TypeOK, Hold
<1> HIDE DEF held
<1>. QED  BY <1>1, <1>2 DEF TypeOK

LEMMA InitInv == Init => IInv
<1> SUFFICES ASSUME Init PROVE IInv  OBVIOUS
<1>1. PICK host \in [Requests -> Hosts] :
        request = [r \in Requests |-> At("arrived", host[r])]
  BY DEF Init
<1>2. \A r \in Requests : /\ request[r] \in Request
                          /\ request[r].pc = "arrived" /\ request[r].mem = NoTarget
  BY <1>1, AtType
<1>3. TypeOK
  BY <1>1, <1>2, NoTargetType DEF Init, TypeOK
<1>4. VerifiedIsProved
  <2>1. \A h \in Hosts : target[h] = NoTarget
    BY DEF Init
  <2>2. \A r \in Requests : request[r].mem = NoTarget
    BY <1>2
  <2>3. NoTarget.status # "verified"
    BY DEF NoTarget
  <2>. QED  BY <2>1, <2>2, <2>3 DEF VerifiedIsProved
<1>5. CheckedWasVerified
  BY <1>2 DEF CheckedWasVerified, Requests
<1>6. ScannedHostsWereProved /\ JobsKeepTheirTarget
  BY DEF Init, ScannedHostsWereProved, JobsKeepTheirTarget
<1>7. EntitiesAreWhole
  <2>1. Whole(NoTarget)
    BY DEF Whole, Exists, NoTarget
  <2>. QED  BY <1>2, <2>1 DEF Init, EntitiesAreWhole
<1>. QED  BY <1>3, <1>4, <1>5, <1>6, <1>7 DEF IInv

-----------------------------------------------------------------------------
\* A step of request r that leaves rows, jobs and history alone keeps IInv if
\* the entity r ends up with says verified only on a proved host.
LEMMA RequestStep ==
    ASSUME IInv, NEW r \in Requests,
           UNCHANGED <<target, published, elapsed, jobs, proved>>,
           request' \in [Requests -> Request],
           request'[r].host = request[r].host,
           \A q \in Requests \ {r} : request'[q] = request[q],
           request'[r].mem.status = "verified" => proved[request[r].host] # {},
           Whole(request'[r].mem),
           r \in Scans /\ request'[r].pc \in {"marking", "checked"} =>
             /\ Exists(request'[r].mem)
             /\ r \notin Admin => request'[r].mem.status = "verified"
    PROVE  IInv'
<1>1. TypeOK'  BY DEF IInv, TypeOK
<1>2. VerifiedIsProved'  BY DEF IInv, VerifiedIsProved
<1>3. CheckedWasVerified'  BY DEF IInv, CheckedWasVerified, Requests
<1>4. ScannedHostsWereProved' /\ JobsKeepTheirTarget'
  BY DEF IInv, ScannedHostsWereProved, JobsKeepTheirTarget
<1>5. EntitiesAreWhole'  BY DEF IInv, EntitiesAreWhole, Whole, Exists
<1>. QED  BY <1>1, <1>2, <1>3, <1>4, <1>5 DEF IInv

\* The row a request is about, and the entity it holds, are well typed; the row
\* says verified only on a proved host.
LEMMA RowFacts ==
    ASSUME IInv, NEW r \in Requests
    PROVE  /\ request[r].host \in Hosts /\ request[r].mem \in Target
           /\ request[r].dirty \in SUBSET TargetColumns
           /\ Row(r) \in Target
           /\ Row(r).status = "verified" => proved[request[r].host] # {}
           /\ request[r].mem.status = "verified" => proved[request[r].host] # {}
           /\ Whole(Row(r)) /\ Whole(request[r].mem)
<1>1. request[r] \in Request
  BY DEF IInv, TypeOK
<1>2. request[r].host \in Hosts /\ request[r].mem \in Target
      /\ request[r].dirty \in SUBSET TargetColumns
  BY <1>1 DEF Request
<1>3. Row(r) \in Target
  BY <1>2 DEF IInv, TypeOK, Row
<1>. QED  BY <1>2, <1>3 DEF IInv, VerifiedIsProved, EntitiesAreWhole, Row

\* A step that puts row t on r's host and is done with r keeps IInv if t says
\* verified only on a proved host and keeps the id that a job may refer to.
LEMMA RowStep ==
    ASSUME IInv, NEW r \in Requests, NEW t \in Target,
           UNCHANGED <<published, elapsed, jobs, proved>>,
           Goto(r, "done"),
           target' = [target EXCEPT ![request[r].host] = t],
           Whole(t),
           t.status = "verified" => proved[request[r].host] # {},
           \A j \in jobs : j.host = request[r].host => t.id = j.targetId
    PROVE  IInv'
<1> DEFINE h == request[r].host
<1>1. TypeOK  BY DEF IInv
<1>2. /\ request' \in [Requests -> Request]
      /\ request'[r].pc = "done" /\ request'[r].host = h /\ request'[r].mem = NoTarget
      /\ \A q \in Requests \ {r} : request'[q] = request[q]
  BY <1>1, GotoEffect
<1>3. h \in Hosts /\ target'[h] = t /\ \A g \in Hosts \ {h} : target'[g] = target[g]
  BY <1>1, RowFacts DEF TypeOK
<1>4. target' \in [Hosts -> Target]
  BY <1>1 DEF TypeOK
<1>5. TypeOK'  BY <1>1, <1>2, <1>4 DEF TypeOK
<1>6. VerifiedIsProved'
  <2>1. \A g \in Hosts : target'[g].status = "verified" => proved[g] # {}
    BY <1>3 DEF IInv, VerifiedIsProved
  <2>2. \A q \in Requests :
          request'[q].mem.status = "verified" => proved[request'[q].host] # {}
    BY <1>2 DEF IInv, VerifiedIsProved, NoTarget
  <2>. QED  BY <2>1, <2>2 DEF VerifiedIsProved
<1>7. CheckedWasVerified'
  BY <1>2 DEF IInv, CheckedWasVerified, Requests
<1>8. ScannedHostsWereProved'
  BY DEF IInv, ScannedHostsWereProved
<1>9. JobsKeepTheirTarget'
  <2>1. \A j \in jobs : j.host \in Hosts
    BY <1>1 DEF TypeOK, Jobs
  <2>. QED  BY <1>3, <2>1 DEF IInv, JobsKeepTheirTarget
<1>10. EntitiesAreWhole'
  BY <1>2, <1>3 DEF IInv, EntitiesAreWhole, Whole, Exists, NoTarget
<1>. QED  BY <1>5, <1>6, <1>7, <1>8, <1>9, <1>10 DEF IInv

\* A refused or failed step changes its request only.
LEMMA GotoStep ==
    ASSUME IInv, NEW r \in Requests,
           NEW pc \in {"arrived", "counted", "admitted", "done", "refused", "failed",
                       "expired"},
           Goto(r, pc), UNCHANGED <<target, published, elapsed, jobs, proved>>
    PROVE  IInv'
<1>1. Whole(NoTarget) /\ NoTarget.status # "verified"
  BY DEF Whole, Exists, NoTarget
<1>. QED  BY <1>1, GotoEffect, RequestStep DEF IInv

LEMMA HoldStep ==
    ASSUME IInv, NEW r \in Requests,
           NEW pc \in {"found", "resolved", "insert", "marking", "checked"},
           NEW e \in Target, Hold(r, pc, e),
           UNCHANGED <<target, published, elapsed, jobs, proved>>,
           e.status = "verified" => proved[request[r].host] # {},
           Whole(e),
           r \in Scans => Exists(e) /\ (r \notin Admin => e.status = "verified")
    PROVE  IInv'
BY HoldEffect, RequestStep DEF IInv

LEMMA NextInv == IInv /\ [Next]_vars => IInv'
<1> SUFFICES ASSUME IInv, [Next]_vars PROVE IInv'  OBVIOUS
<1> USE DEF Requests
<1>20. TypeOK  BY DEF IInv
<1>1. ASSUME NEW a \in Adds, CountTargets(a) PROVE IInv'
  <2> DEFINE held == [request[a] EXCEPT !.pc = "counted", !.count = Retained]
  <2>1. Retained \in Nat
    <3>1. IsFiniteSet({h \in Hosts : Exists(target[h])})
      BY RequestsFinite, FS_Subset
    <3>. QED  BY <3>1, FS_CardinalityType DEF Retained
  <2>2. request[a] \in Request  BY <1>20 DEF TypeOK
  <2>3. held \in Request
    BY <2>1, <2>2 DEF Request
  <2>4. held.host = request[a].host /\ held.mem = request[a].mem /\ held.pc = "counted"
    BY <2>2 DEF Request
  <2>5. request' = [request EXCEPT ![a] = held]
    BY <1>1, <1>20 DEF CountTargets, TypeOK
  <2> HIDE DEF held
  <2>6. /\ request' \in [Requests -> Request] /\ request'[a] = held
        /\ \A q \in Requests \ {a} : request'[q] = request[q]
    BY <1>20, <2>3, <2>5 DEF TypeOK
  <2>. QED
    BY <1>1, <2>4, <2>6, RowFacts, RequestStep DEF CountTargets
<1>2. ASSUME NEW a \in Adds, CheckMaxTargets(a) PROVE IInv'
  BY <1>2, GotoStep DEF CheckMaxTargets
<1>3. ASSUME NEW a \in Adds, FindOrCreate(a) PROVE IInv'
  <2>1. a \notin Scans  BY RequestsDisjoint
  <2>2. ASSUME NEW t \in Target
        PROVE  /\ Readded(t, a) \in Target /\ Readded(t, a).status = "pending"
               /\ Exists(t) => Whole(Readded(t, a))
    BY RequestsDisjoint DEF Readded, Target, TargetStatuses, Whole, Exists
  <2>3. [NoTarget EXCEPT !.id = a] \in Target /\ Exists([NoTarget EXCEPT !.id = a])
    BY NoTargetType, RequestsDisjoint DEF Target, Exists
  <2>4. CASE Exists(Row(a))
    BY <1>3, <2>1, <2>2, <2>4, RowFacts, HoldStep DEF FindOrCreate
  <2>5. CASE ~Exists(Row(a))
    BY <1>3, <2>1, <2>2, <2>3, <2>5, HoldStep DEF FindOrCreate
  <2>. QED  BY <2>4, <2>5
<1>4. ASSUME NEW v \in Verifies, FindToVerify(v) PROVE IInv'
  <2>1. v \notin Scans  BY RequestsDisjoint
  <2>. QED  BY <1>4, <2>1, RowFacts, HoldStep, GotoStep DEF FindToVerify
<1>5. ASSUME NEW v \in Verifies, Resolve(v) PROVE IInv'
  <2> DEFINE entity == request[v].mem
             host == request[v].host
             found == [entity EXCEPT !.status = "verified", !.expiresAt = v]
  <2>1. v \notin Scans  BY RequestsDisjoint
  <2>2. CASE published[host] # entity.token
    BY <1>5, <2>1, <2>2, RowFacts, HoldStep DEF Resolve
  <2>3. CASE published[host] = entity.token
    <3>1. found \in Target /\ entity \in Target /\ host \in Hosts /\ Whole(found)
      BY RowFacts DEF Target, TargetStatuses, Whole, Exists
    <3>2. Hold(v, "resolved", found)
          /\ proved' = [proved EXCEPT ![host] = @ \cup {entity.token}]
          /\ UNCHANGED <<target, published, elapsed, jobs>>
      BY <1>5, <2>3 DEF Resolve
    <3>3. /\ request' \in [Requests -> Request]
          /\ request'[v].pc = "resolved" /\ request'[v].host = host
          /\ request'[v].mem = found
          /\ \A q \in Requests \ {v} : request'[q] = request[q]
      BY <1>20, <3>1, <3>2, HoldEffect
    <3>4. \A g \in Hosts : proved[g] # {} \/ g = host => proved'[g] # {}
      BY <1>20, <3>1, <3>2 DEF TypeOK
    <3>5. entity.token \in Adds
      BY <1>20, <2>3, <3>1 DEF TypeOK, Target
    <3>6. TypeOK'
      BY <1>20, <3>2, <3>3, <3>5 DEF TypeOK
    <3>7. VerifiedIsProved'
      BY <1>20, <3>1, <3>2, <3>3, <3>4 DEF IInv, VerifiedIsProved, TypeOK, Request
    <3>8. CheckedWasVerified'
      BY <2>1, <3>3 DEF IInv, CheckedWasVerified
    <3>9. ScannedHostsWereProved' /\ JobsKeepTheirTarget'
      BY <1>20, <3>2, <3>4
      DEF IInv, ScannedHostsWereProved, JobsKeepTheirTarget, TypeOK, Jobs
    <3>10. EntitiesAreWhole'
      <4> HIDE DEF found
      <4>. QED  BY <3>1, <3>2, <3>3 DEF IInv, EntitiesAreWhole, Whole, Exists
    <3>. QED  BY <3>6, <3>7, <3>8, <3>9, <3>10 DEF IInv
  <2>. QED  BY <2>2, <2>3
<1>6. ASSUME NEW r \in Requests, Load(r) PROVE IInv'
  <2> DEFINE pc == IF Row(r).id = request[r].mem.id THEN "update" ELSE "insert"
             dirty == IF Row(r).id = request[r].mem.id
                      THEN {col \in TargetColumns : request[r].mem[col] # Row(r)[col]}
                      ELSE {}
             held == [request[r] EXCEPT !.pc = pc, !.dirty = dirty]
  <2>1. pc \in {"update", "insert"} /\ dirty \in SUBSET TargetColumns
    OBVIOUS
  <2>2. request[r] \in Request  BY <1>20 DEF TypeOK
  <2>3. request' = [request EXCEPT ![r] = held]
    BY <1>6, <1>20 DEF Load, TypeOK
  <2> HIDE DEF pc, dirty
  <2>4. held \in Request /\ held.host = request[r].host /\ held.mem = request[r].mem
        /\ held.pc = pc
    BY <2>1, <2>2 DEF Request
  <2> HIDE DEF held
  <2>5. /\ request' \in [Requests -> Request] /\ request'[r] = held
        /\ \A q \in Requests \ {r} : request'[q] = request[q]
    BY <1>20, <2>3, <2>4 DEF TypeOK
  <2>. QED
    BY <1>6, <2>1, <2>4, <2>5, RowFacts, RequestStep DEF Load
<1>7. ASSUME NEW r \in Requests, Update(r) PROVE IInv'
  <2> DEFINE t == Overlaid(request[r].mem, Row(r), request[r].dirty)
  <2>1. CASE Row(r).id = request[r].mem.id
    <3>1. t \in Target /\ t.id = Row(r).id
          /\ t.status \in {request[r].mem.status, Row(r).status}
          /\ t.token \in {request[r].mem.token, Row(r).token}
      <4>1. /\ request[r].mem \in Target /\ Row(r) \in Target
            /\ request[r].dirty \in SUBSET TargetColumns
        BY RowFacts
      <4>. QED  BY <4>1, Overlay
    <3>5. Whole(t)
      BY <2>1, <3>1, RowFacts DEF Whole, Exists
    <3>2. target' = [target EXCEPT ![request[r].host] = t] /\ Goto(r, "done")
          /\ UNCHANGED <<published, elapsed, jobs, proved>>
      BY <1>7, <2>1 DEF Update, Overlaid
    <3>3. t.status = "verified" => proved[request[r].host] # {}
      BY <3>1, RowFacts
    <3>4. \A j \in jobs : j.host = request[r].host => t.id = j.targetId
      BY <3>1 DEF IInv, JobsKeepTheirTarget, Row
    <3> HIDE DEF t
    <3>. QED  BY <3>1, <3>2, <3>3, <3>4, <3>5, RowStep
  <2>2. CASE Row(r).id # request[r].mem.id
    BY <1>7, <2>2, GotoStep DEF Update
  <2>. QED  BY <2>1, <2>2
<1>8. ASSUME NEW r \in Requests, Insert(r) PROVE IInv'
  <2>1. CASE Exists(Row(r))
    BY <1>8, <2>1, GotoStep DEF Insert
  <2>2. CASE ~Exists(Row(r))
    <3>1. \A j \in jobs : j.host # request[r].host
      BY <1>20, <2>2, RequestsDisjoint
      DEF IInv, JobsKeepTheirTarget, Exists, Row, TypeOK, Jobs
    <3>. QED  BY <1>8, <2>2, <3>1, RowFacts, RowStep DEF Insert
  <2>. QED  BY <2>1, <2>2
<1>9. ASSUME NEW m \in Removes, FindToRemove(m) PROVE IInv'
  <2>1. m \notin Scans  BY RequestsDisjoint
  <2>. QED  BY <1>9, <2>1, RowFacts, HoldStep, GotoStep DEF FindToRemove
<1>10. ASSUME NEW m \in Removes, Delete(m) PROVE IInv'
  <2>1. CASE Restricted(request[m].mem.id) \/ Row(m).id # request[m].mem.id
    BY <1>10, <2>1, GotoStep DEF Delete
  <2>2. CASE ~Restricted(request[m].mem.id) /\ Row(m).id = request[m].mem.id
    <3>1. \A j \in jobs : j.host # request[m].host
      BY <2>2 DEF IInv, JobsKeepTheirTarget, Restricted, Row
    <3>2. NoTarget \in Target /\ NoTarget.status # "verified" /\ Whole(NoTarget)
      BY NoTargetType DEF NoTarget, Whole, Exists
    <3>. QED  BY <1>10, <2>2, <3>1, <3>2, RowStep DEF Delete
  <2>. QED  BY <2>1, <2>2
<1>11. ASSUME NEW s \in Scans, Guard(s) PROVE IInv'
  BY <1>11, GotoStep DEF Guard
<1>12. ASSUME NEW s \in Scans, CheckTarget(s) PROVE IInv'
  <2>1. CASE ~Exists(Row(s)) \/ Unverified(s, Row(s))
    BY <1>12, <2>1, GotoStep DEF CheckTarget
  <2>2. CASE ~(~Exists(Row(s)) \/ Unverified(s, Row(s)))
    <3>1. Exists(Row(s)) /\ (s \notin Admin => Row(s).status = "verified")
      BY <2>2 DEF Unverified
    <3>. QED  BY <1>12, <2>2, <3>1, RowFacts, HoldStep DEF CheckTarget
  <2>. QED  BY <2>1, <2>2
<1>13. ASSUME NEW s \in Scans, MarkExpired(s) PROVE IInv'
  BY <1>13, GotoStep DEF MarkExpired
<1>14. ASSUME NEW s \in Scans, CommitJob(s) PROVE IInv'
  <2> DEFINE job == [scan |-> s, host |-> request[s].host,
                     targetId |-> request[s].mem.id,
                     token |-> request[s].mem.token, active |-> TRUE]
  <2>1. CASE UNCHANGED jobs
    BY <1>14, <2>1, GotoStep DEF CommitJob
  <2>2. CASE jobs' # jobs
    <3>1. /\ Goto(s, "done") /\ jobs' = jobs \cup {job}
          /\ request[s].pc = "checked" /\ Row(s).id = request[s].mem.id
          /\ UNCHANGED <<target, published, elapsed, proved>>
      BY <1>14, <2>2 DEF CommitJob
    <3>2. /\ request' \in [Requests -> Request]
          /\ request'[s].pc = "done" /\ request'[s].host = request[s].host
          /\ request'[s].mem = NoTarget
          /\ \A q \in Requests \ {s} : request'[q] = request[q]
      BY <1>20, <3>1, GotoEffect
    <3>3. job \in Jobs
      <4>1. request[s].mem.id \in Adds /\ request[s].mem.token \in Adds
        BY <3>1, RowFacts DEF IInv, CheckedWasVerified, Whole, Exists, Target
      <4>. QED  BY <4>1, RowFacts DEF Jobs
    <3>4. TypeOK'
      BY <1>20, <3>1, <3>2, <3>3 DEF TypeOK
    <3>5. VerifiedIsProved'
      <4>1. NoTarget.status # "verified"
        BY DEF NoTarget
      <4>2. \A q \in Requests :
              request'[q].mem.status = "verified" => proved'[request'[q].host] # {}
        BY <3>1, <3>2, <4>1 DEF IInv, VerifiedIsProved
      <4>. QED  BY <3>1, <4>2 DEF IInv, VerifiedIsProved
    <3>6. CheckedWasVerified'
      BY <3>2 DEF IInv, CheckedWasVerified
    <3>7. ScannedHostsWereProved'
      BY <3>1, RowFacts DEF IInv, ScannedHostsWereProved, CheckedWasVerified
    <3>8. JobsKeepTheirTarget'
      BY <3>1 DEF IInv, JobsKeepTheirTarget, Row
    <3>9. EntitiesAreWhole'
      BY <3>1, <3>2 DEF IInv, EntitiesAreWhole, Whole, Exists, NoTarget
    <3>. QED  BY <3>4, <3>5, <3>6, <3>7, <3>8, <3>9 DEF IInv
  <2>. QED  BY <2>1, <2>2
<1>15. ASSUME NEW j \in jobs, EndJob(j) PROVE IInv'
  <2> DEFINE ended == [j EXCEPT !.active = FALSE]
  <2>1. j \in Jobs
    BY <1>20 DEF TypeOK
  <2>2. /\ ended \in Jobs /\ ended.scan = j.scan
        /\ ended.host = j.host /\ ended.targetId = j.targetId
    BY <2>1 DEF Jobs
  <2>3. jobs' = (jobs \ {j}) \cup {ended}
        /\ UNCHANGED <<target, published, elapsed, request, proved>>
    BY <1>15 DEF EndJob
  <2> HIDE DEF ended
  <2>4. TypeOK'
    BY <1>20, <2>2, <2>3 DEF TypeOK
  <2>5. VerifiedIsProved' /\ CheckedWasVerified' /\ EntitiesAreWhole'
    BY <2>3 DEF IInv, VerifiedIsProved, CheckedWasVerified, EntitiesAreWhole
  <2>6. ScannedHostsWereProved' /\ JobsKeepTheirTarget'
    BY <2>2, <2>3 DEF IInv, ScannedHostsWereProved, JobsKeepTheirTarget
  <2>. QED  BY <2>4, <2>5, <2>6 DEF IInv
<1>16. ASSUME \/ UNCHANGED vars
              \/ \E h \in Hosts : Publish(h)
              \/ \E v \in Verifies : Elapse(v)
       PROVE  IInv'
  <2>1. UNCHANGED <<target, jobs, request, proved>>
    BY <1>16 DEF Publish, Elapse, vars
  <2>2. published' \in [Hosts -> Adds \cup {"nothing"}] /\ elapsed' \subseteq Verifies
    BY <1>16, <1>20 DEF Publish, Elapse, vars, TypeOK
  <2>3. TypeOK'
    BY <1>20, <2>1, <2>2 DEF TypeOK
  <2>4. VerifiedIsProved' /\ CheckedWasVerified' /\ EntitiesAreWhole'
    BY <2>1 DEF IInv, VerifiedIsProved, CheckedWasVerified, EntitiesAreWhole
  <2>5. ScannedHostsWereProved' /\ JobsKeepTheirTarget'
    BY <2>1 DEF IInv, ScannedHostsWereProved, JobsKeepTheirTarget
  <2>. QED  BY <2>3, <2>4, <2>5 DEF IInv
<1>. QED
  BY <1>1, <1>2, <1>3, <1>4, <1>5, <1>6, <1>7, <1>8, <1>9, <1>10, <1>11, <1>12,
     <1>13, <1>14, <1>15, <1>16 DEF Next

LEMMA InvHolds == Spec => []IInv
BY InitInv, NextInv, PTL DEF Spec

\* Every reachable row, entity, job and request is well typed.
THEOREM TypeCorrect == Spec => []TypeOK
<1>1. IInv => TypeOK  BY DEF IInv
<1>. QED  BY <1>1, InvHolds, PTL

\* createAndEnqueueJob's keystone, for any number of overlapping requests: a
\* user's scan runs only against a host where a verification found a token.
THEOREM ScansNeedProof == Spec => []ScannedHostsWereProved
<1>1. IInv => ScannedHostsWereProved  BY DEF IInv
<1>. QED  BY <1>1, InvHolds, PTL

\* removeTarget and the saves that may insert a deleted row again never take
\* away or replace the target row that a job refers to.
THEOREM JobsHaveTheirTarget == Spec => []JobsKeepTheirTarget
<1>1. IInv => JobsKeepTheirTarget  BY DEF IInv
<1>. QED  BY <1>1, InvHolds, PTL
=============================================================================

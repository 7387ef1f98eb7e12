--------------------------- MODULE ActiveScanJobs ---------------------------
(***************************************************************************)
(* The life of one row of active_scan_jobs after the transaction that      *)
(* inserted it: enqueueing, the workers' claim / progress / findings /     *)
(* complete calls and the users' and admins' cancel calls, all handled by  *)
(* ActiveScanService while they overlap.                                   *)
(*                                                                         *)
(* Apart from the claim, every handler loads the entity, checks and        *)
(* changes it in memory, and calls jobs.save().  TypeORM's save() loads    *)
(* the row again, takes the columns whose values differ from the entity's  *)
(* and writes those: one handler is three steps, Read, Load and Write, and *)
(* other handlers run between them.                                        *)
(*                                                                         *)
(* The queue and the workers are external.  A worker makes one call at a   *)
(* time; a stalled queue message is delivered again (at least once).       *)
(* Columns no status depends on (progressPct, workerId, the timestamps,    *)
(* summary, errorLog, the counts) are left out; `verifying' is in the      *)
(* status type but nothing writes it.                                      *)
(***************************************************************************)
EXTENDS Integers, FiniteSets

CONSTANTS
    Workers,
    Cancels,        \* cancel requests (user or admin); each runs once
    MaxReports,     \* bound: progress and findings calls of one scan
    MaxStalls,      \* bound: redeliveries of the queue message
    MaxFaults       \* bound: workers or handlers that die midway

ASSUME HandlersDisjoint == Workers \cap Cancels = {}
ASSUME BoundsAssumption == MaxReports \in Nat /\ MaxStalls \in Nat /\ MaxFaults \in Nat

VARIABLES
    job,        \* the row: status and currentPhase
    message,    \* the active_scan.run message of the queue
    call,       \* what the handler of each worker or cancel request holds
    worker,     \* what each worker is doing
    reports,    \* calls each worker's scan has made
    stalls, faults

vars == <<job, message, call, worker, reports, stalls, faults>>

Active == {"queued", "running", "parsing"}
Terminal == {"completed", "failed", "cancelled"}
Statuses == Active \cup Terminal
JobColumns == {"status", "currentPhase"}
Job == [status: Statuses, currentPhase: {"null", "scanning", "parsing"}]

Handlers == Workers \cup Cancels

\* won: this handler's last claim moved the job out of `queued'.
Call == [pc: {"idle", "updated", "read", "loaded", "saved", "done"},
         ends: BOOLEAN, mem: Job, dirty: SUBSET JobColumns, won: BOOLEAN]

TypeOK ==
    /\ job \in Job
    /\ message \in {"unsent", "waiting", "active", "gone"}
    /\ call \in [Handlers -> Call]
    /\ worker \in [Workers -> {"idle", "assigned", "scanning", "dead"}]
    /\ reports \in [Workers -> 0..MaxReports]
    /\ stalls \in 0..MaxStalls
    /\ faults \in 0..MaxFaults

NewJob == [status |-> "queued", currentPhase |-> "null"]

NoCall == [pc |-> "idle", ends |-> FALSE, mem |-> NewJob, dirty |-> {}, won |-> FALSE]

Init ==
    /\ job = NewJob
    /\ message = "unsent"
    /\ call = [h \in Handlers |-> NoCall]
    /\ worker = [w \in Workers |-> "idle"]
    /\ reports = [w \in Workers |-> 0]
    /\ stalls = 0
    /\ faults = 0

-----------------------------------------------------------------------------
(* The queue *)

\* After the commit.  A failed enqueue is logged and swallowed, and the API may
\* die before it: then no worker ever hears of the job.
Enqueue ==
    /\ message = "unsent"
    /\ message' \in {"waiting", "gone"}
    /\ UNCHANGED <<job, call, worker, reports, stalls, faults>>

Take(w) ==
    /\ message = "waiting" /\ worker[w] = "idle"
    /\ message' = "active"
    /\ worker' = [worker EXCEPT ![w] = "assigned"]
    /\ UNCHANGED <<job, call, reports, stalls, faults>>

\* The lock of an active message expires: the queue offers it again.
Stall ==
    /\ message = "active" /\ stalls < MaxStalls
    /\ message' = "waiting"
    /\ stalls' = stalls + 1
    /\ UNCHANGED <<job, call, worker, reports, faults>>

\* The worker is through with its message (queue and worker after the last call).
Finished(w) ==
    /\ worker' = [worker EXCEPT ![w] = "idle"]
    /\ reports' = [reports EXCEPT ![w] = 0]
    /\ message' = IF message = "active" THEN "gone" ELSE message

\* Handler h has answered; what it held in memory is gone.
Answer(h, pc) ==
    call' = [call EXCEPT ![h] = [NoCall EXCEPT !.pc = pc, !.won = call[h].won]]

-----------------------------------------------------------------------------
(* workerClaim *)

\* Mutant: any job that has not ended can be claimed.
ClaimableUntilEnded(status) == status \notin Terminal

\* WHERE "status" = 'queued'
Claimable(status) == status = "queued"

\* The single UPDATE statement.
ClaimUpdate(w) ==
    /\ worker[w] = "assigned" /\ call[w].pc = "idle"
    /\ job' = IF Claimable(job.status) THEN [job EXCEPT !.status = "running"] ELSE job
    /\ call' = [call EXCEPT ![w].pc = "updated", ![w].won = Claimable(job.status)]
    /\ UNCHANGED <<message, worker, reports, stalls, faults>>

\* The row is read again and answered.  TypeORM's query() gives [rows, count] for an
\* UPDATE, so `result.length === 0' never holds and no claim is refused: a worker that
\* has updated nothing is answered like the winner, whatever has become of the job.
\* The status in the answer is all that may make it stop.
ClaimReply(w) ==
    /\ call[w].pc = "updated"
    /\ call' = [call EXCEPT ![w].pc = "idle"]
    /\ \/ /\ worker' = [worker EXCEPT ![w] = "scanning"]
          /\ UNCHANGED <<message, reports>>
       \/ job.status # "running" /\ Finished(w)
    /\ UNCHANGED <<job, stalls, faults>>

-----------------------------------------------------------------------------
(* workerProgress, workerFindings, workerComplete *)

\* Mutant: workerComplete lacks the check.
IgnoredExceptComplete(kind, status) == kind # "complete" /\ status = "cancelled"

\* Mutant: only a running job takes results, not one that is being parsed.
IgnoredUnlessRunning(kind, status) == status # "running"

\* The status check on entry; such a call is answered without a save.
Ignored(kind, status) == status = "cancelled"

\* The entity in memory holds entity; the save is next.
Read(h, entity, ends) ==
    call' = [call EXCEPT ![h].pc = "read", ![h].mem = entity, ![h].ends = ends]

Scanning(w) == worker[w] = "scanning" /\ call[w].pc = "idle"

\* Mutant: the phase name is stored as the status.
AfterProgressPhaseAsStatus(phase) == [status |-> phase, currentPhase |-> phase]

\* phase is body.currentPhase ?? job.currentPhase.
AfterProgress(phase) ==
    [status |-> IF job.status = "running" /\ phase = "parsing"
                THEN "parsing" ELSE job.status,
     currentPhase |-> phase]

Progress(w) ==
    /\ Scanning(w) /\ reports[w] < MaxReports
    /\ reports' = [reports EXCEPT ![w] = @ + 1]
    /\ IF Ignored("progress", job.status)
       THEN UNCHANGED call
       ELSE \E phase \in {job.currentPhase, "scanning", "parsing"} :
              Read(w, AfterProgress(phase), FALSE)
    /\ UNCHANGED <<job, message, worker, stalls, faults>>

\* A batch with hosts or errors: they are merged into columns left out here and
\* the whole entity is saved.  A batch without them does not touch the job.
Findings(w) ==
    /\ Scanning(w) /\ reports[w] < MaxReports
    /\ reports' = [reports EXCEPT ![w] = @ + 1]
    /\ IF Ignored("findings", job.status)
       THEN UNCHANGED call
       ELSE Read(w, job, FALSE)
    /\ UNCHANGED <<job, message, worker, stalls, faults>>

Complete(w) ==
    /\ Scanning(w)
    /\ IF Ignored("complete", job.status)
       THEN Finished(w) /\ UNCHANGED call
       ELSE /\ \E status \in {"completed", "failed"} :
                 Read(w, [job EXCEPT !.status = status], TRUE)
            /\ UNCHANGED <<message, worker, reports>>
    /\ UNCHANGED <<job, stalls, faults>>

-----------------------------------------------------------------------------
(* cancelJob *)

Cancel(c) ==
    /\ call[c].pc = "idle"
    /\ IF job.status \in Active
       THEN Read(c, [job EXCEPT !.status = "cancelled"], FALSE)
       ELSE Answer(c, "done")
    /\ UNCHANGED <<job, message, worker, reports, stalls, faults>>

\* queue.cancel, after the save: removes the message unless a worker has it.
Dequeue(c) ==
    /\ call[c].pc = "saved"
    /\ message' = IF message = "waiting" THEN "gone" ELSE message
    /\ Answer(c, "done")
    /\ UNCHANGED <<job, worker, reports, stalls, faults>>

-----------------------------------------------------------------------------
(* jobs.save() *)

\* save() loads the row and computes the columns to update.
Load(h) ==
    /\ call[h].pc = "read"
    /\ call' = [call EXCEPT ![h].pc = "loaded",
                            ![h].dirty = {col \in JobColumns :
                                            call[h].mem[col] # job[col]}]
    /\ UNCHANGED <<job, message, worker, reports, stalls, faults>>

\* save() updates those columns; the handler answers.
Write(h) ==
    /\ call[h].pc = "loaded"
    /\ job' = [col \in JobColumns |->
                 IF col \in call[h].dirty THEN call[h].mem[col] ELSE job[col]]
    /\ Answer(h, IF h \in Cancels THEN "saved" ELSE "idle")
    /\ IF call[h].ends THEN Finished(h) ELSE UNCHANGED <<message, worker, reports>>
    /\ UNCHANGED <<stalls, faults>>

-----------------------------------------------------------------------------
(* Faults *)

\* A handler dies before its save is done (API restart, database error); a
\* worker whose last call dies this way does not repeat it.
Drop(h) ==
    /\ call[h].pc \in {"read", "loaded"} /\ faults < MaxFaults
    /\ faults' = faults + 1
    /\ Answer(h, IF h \in Cancels THEN "done" ELSE "idle")
    /\ IF call[h].ends THEN Finished(h) ELSE UNCHANGED <<message, worker, reports>>
    /\ UNCHANGED <<job, stalls>>

\* A worker dies between two calls.
Die(w) ==
    /\ worker[w] \in {"assigned", "scanning"} /\ call[w].pc = "idle"
    /\ faults < MaxFaults
    /\ faults' = faults + 1
    /\ worker' = [worker EXCEPT ![w] = "dead"]
    /\ UNCHANGED <<job, message, call, reports, stalls>>

-----------------------------------------------------------------------------
WorkerStep(w) ==
    \/ ClaimUpdate(w) \/ ClaimReply(w) \/ Progress(w) \/ Findings(w) \/ Complete(w)

Save(h) == Load(h) \/ Write(h)

Next ==
    \/ Enqueue \/ Stall
    \/ \E w \in Workers : Take(w) \/ WorkerStep(w) \/ Die(w)
    \/ \E c \in Cancels : Cancel(c) \/ Dequeue(c)
    \/ \E h \in Handlers : Save(h) \/ Drop(h)

Spec == Init /\ [][Next]_vars

\* A worker that has a message goes on to its last call, and handlers finish.
\* Nothing forces a stall, a fault, a cancel request or a worker's taking a message.
Fairness ==
    /\ \A w \in Workers : WF_vars(WorkerStep(w))
    /\ \A h \in Handlers : WF_vars(Save(h))

FairSpec == Spec /\ Fairness

-----------------------------------------------------------------------------
\* The claim's promise (`only one worker can move a job out of queued'): however
\* messages are redelivered and saves overlap, at most one claim ever wins,
\* because no stale save can put a job back to queued.
SingleWinner ==
    \A v, w \in Workers : call[v].won /\ call[w].won => v = w

\* A cancelled job that no worker's save is under way for.
Settled ==
    job.status = "cancelled" /\ \A w \in Workers : call[w].pc \notin {"read", "loaded"}

\* The kill-switch holds once the saves that overlapped it are through: every
\* later progress, findings or complete call is ignored (`ignore late progress').
CancelSticks == [][Settled => Settled']_vars

\* A job that a worker has claimed ends and stays ended, with any overlap of
\* calls, cancels and redeliveries, unless a worker or a handler dies.
ClaimedJobsEnd ==
    \A w \in Workers :
        call[w].won ~> (faults > 0 \/ [](job.status \in Terminal))
=============================================================================

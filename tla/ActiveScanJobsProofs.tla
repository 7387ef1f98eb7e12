------------------------ MODULE ActiveScanJobsProofs ------------------------
(***************************************************************************)
(* Proofs about ActiveScanJobs, for any workers, cancel requests and       *)
(* bounds.  The inductive invariant says what the entities held in memory  *)
(* can contain: a worker's never a queued job, a cancel's always a         *)
(* cancelled one.  That is why a stale save can undo much, but neither a   *)
(* claim nor a settled cancellation, and a job that has ended, with no     *)
(* older entity left to be saved, has ended for good.                      *)
(***************************************************************************)
EXTENDS ActiveScanJobs, TLAPS

\* A handler that holds an entity it is going to save.
Saving(h) == call[h].pc \in {"read", "loaded"}

\* Whoever won a claim, scans or saves results has seen the job leave queued.
LeftQueued ==
    \A w \in Workers :
        call[w].won \/ call[w].pc = "updated" \/ worker[w] = "scanning" \/ Saving(w) =>
            job.status # "queued"

\* No entity a worker is going to save says queued.
WorkersHoldClaimed ==
    \A w \in Workers : Saving(w) => call[w].mem.status # "queued"

\* Every entity a cancel request is going to save says cancelled.
CancelsHoldCancelled ==
    \A c \in Cancels : Saving(c) => call[c].mem.status = "cancelled"

IInv ==
    /\ TypeOK
    /\ LeftQueued
    /\ WorkersHoldClaimed
    /\ CancelsHoldCancelled
    /\ SingleWinner

-----------------------------------------------------------------------------
\* An update of some columns of a job row is a job row.
LEMMA Overlay ==
    ASSUME NEW a \in Job, NEW b \in Job, NEW D \in SUBSET JobColumns
    PROVE  [col \in JobColumns |-> IF col \in D THEN a[col] ELSE b[col]] \in Job
<1> DEFINE o == [col \in JobColumns |-> IF col \in D THEN a[col] ELSE b[col]]
<1>1. o = [status |-> o.status, currentPhase |-> o.currentPhase]
  BY DEF JobColumns
<1>2. o.status \in Statuses /\ o.currentPhase \in {"null", "scanning", "parsing"}
  BY DEF Job, JobColumns
<1>. QED  BY <1>1, <1>2 DEF Job

LEMMA NoCallType == NewJob \in Job /\ NoCall \in Call
BY DEF NewJob, NoCall, Job, Call, Statuses, Active

LEMMA InitType == Init => TypeOK
BY NoCallType, BoundsAssumption DEF Init, TypeOK

\* Answering leaves a well-typed call.
LEMMA AnswerType ==
    ASSUME TypeOK, NEW h \in Handlers, NEW pc \in {"idle", "saved", "done"},
           Answer(h, pc)
    PROVE  call' \in [Handlers -> Call]
<1>1. [NoCall EXCEPT !.pc = pc, !.won = call[h].won] \in Call
  BY NoCallType DEF TypeOK, Call, NoCall
<1>. QED  BY <1>1 DEF TypeOK, Answer

LEMMA ReadType ==
    ASSUME TypeOK, NEW h \in Handlers, NEW e \in Job, NEW b \in BOOLEAN, Read(h, e, b)
    PROVE  call' \in [Handlers -> Call]
<1>1. [call[h] EXCEPT !.pc = "read", !.mem = e, !.ends = b] \in Call
  BY DEF TypeOK, Call
<1>2. call' = [call EXCEPT ![h] = [call[h] EXCEPT !.pc = "read", !.mem = e, !.ends = b]]
  BY DEF Read, TypeOK
<1>. QED  BY <1>1, <1>2 DEF TypeOK

LEMMA FinishedType ==
    ASSUME TypeOK, NEW w, Finished(w)
    PROVE  /\ worker' \in [Workers -> {"idle", "assigned", "scanning", "dead"}]
           /\ reports' \in [Workers -> 0..MaxReports]
           /\ message' \in {"unsent", "waiting", "active", "gone"}
<1>1. 0 \in 0..MaxReports
  BY BoundsAssumption
<1>2. worker' \in [Workers -> {"idle", "assigned", "scanning", "dead"}]
  BY DEF TypeOK, Finished
<1>3. reports' \in [Workers -> 0..MaxReports]
  BY <1>1 DEF TypeOK, Finished
<1>4. message' \in {"unsent", "waiting", "active", "gone"}
  BY DEF TypeOK, Finished
<1>. QED  BY <1>2, <1>3, <1>4

LEMMA NextType == TypeOK /\ [Next]_vars => TypeOK'
<1> SUFFICES ASSUME TypeOK, [Next]_vars PROVE TypeOK'  OBVIOUS
<1> USE DEF Handlers
<1>1. CASE Enqueue  BY <1>1 DEF Enqueue, TypeOK
<1>2. CASE Stall  BY <1>2, BoundsAssumption DEF Stall, TypeOK
<1>3. ASSUME NEW w \in Workers, Take(w) PROVE TypeOK'
  BY <1>3 DEF Take, TypeOK
<1>4. ASSUME NEW w \in Workers, ClaimUpdate(w) PROVE TypeOK'
  <2>1. job' \in Job
    BY <1>4 DEF ClaimUpdate, TypeOK, Job, Statuses, Active
  <2> DEFINE won == Claimable(job.status)
             held == [call[w] EXCEPT !.pc = "updated", !.won = won]
  <2>3. won \in BOOLEAN
    BY DEF Claimable
  <2>4. call' = [call EXCEPT ![w] = held]
    BY <1>4 DEF ClaimUpdate, TypeOK
  <2>5. held \in Call
    <3> HIDE DEF won
    <3>. QED  BY <2>3 DEF TypeOK, Call
  <2>2. call' \in [Handlers -> Call]
    <3> HIDE DEF held
    <3>. QED  BY <2>4, <2>5 DEF TypeOK
  <2>. QED  BY <1>4, <2>1, <2>2 DEF ClaimUpdate, TypeOK
<1>5. ASSUME NEW w \in Workers, ClaimReply(w) PROVE TypeOK'
  <2>1. call' \in [Handlers -> Call]
    BY <1>5 DEF ClaimReply, TypeOK, Call
  <2>2. CASE Finished(w)
    BY <1>5, <2>1, <2>2, FinishedType DEF ClaimReply, TypeOK
  <2>3. CASE worker' = [worker EXCEPT ![w] = "scanning"] /\ UNCHANGED <<message, reports>>
    BY <1>5, <2>1, <2>3 DEF ClaimReply, TypeOK
  <2>. QED  BY <1>5, <2>2, <2>3 DEF ClaimReply
<1>6. ASSUME NEW w \in Workers, Progress(w) PROVE TypeOK'
  <2>1. reports' \in [Workers -> 0..MaxReports]
    BY <1>6, BoundsAssumption DEF Progress, TypeOK
  <2>2. CASE Ignored("progress", job.status)
    BY <1>6, <2>1, <2>2 DEF Progress, TypeOK
  <2>3. CASE ~Ignored("progress", job.status)
    <3>1. PICK phase \in {job.currentPhase, "scanning", "parsing"} :
            Read(w, AfterProgress(phase), FALSE)
      BY <1>6, <2>3 DEF Progress
    <3>2. AfterProgress(phase) \in Job
      BY DEF AfterProgress, TypeOK, Job, Statuses, Active
    <3>3. call' \in [Handlers -> Call]
      BY <3>1, <3>2, ReadType
    <3>. QED  BY <1>6, <2>1, <3>3 DEF Progress, TypeOK
  <2>. QED  BY <2>2, <2>3
<1>7. ASSUME NEW w \in Workers, Findings(w) PROVE TypeOK'
  <2>1. reports' \in [Workers -> 0..MaxReports]
    BY <1>7, BoundsAssumption DEF Findings, TypeOK
  <2>2. call' \in [Handlers -> Call]
    BY <1>7, ReadType DEF Findings, TypeOK
  <2>. QED  BY <1>7, <2>1, <2>2 DEF Findings, TypeOK
<1>8. ASSUME NEW w \in Workers, Complete(w) PROVE TypeOK'
  <2>1. CASE Ignored("complete", job.status)
    BY <1>8, <2>1, FinishedType DEF Complete, TypeOK
  <2>2. CASE ~Ignored("complete", job.status)
    <3>1. PICK status \in {"completed", "failed"} :
            Read(w, [job EXCEPT !.status = status], TRUE)
      BY <1>8, <2>2 DEF Complete
    <3>2. [job EXCEPT !.status = status] \in Job
      BY DEF TypeOK, Job, Statuses, Terminal
    <3>3. call' \in [Handlers -> Call]
      BY <3>1, <3>2, ReadType
    <3>. QED  BY <1>8, <2>2, <3>3 DEF Complete, TypeOK
  <2>. QED  BY <2>1, <2>2
<1>9. ASSUME NEW w \in Workers, Die(w) PROVE TypeOK'
  BY <1>9, BoundsAssumption DEF Die, TypeOK
<1>10. ASSUME NEW c \in Cancels, Cancel(c) PROVE TypeOK'
  <2>1. [job EXCEPT !.status = "cancelled"] \in Job
    BY DEF TypeOK, Job, Statuses, Terminal
  <2>2. call' \in [Handlers -> Call]
    BY <1>10, <2>1, ReadType, AnswerType DEF Cancel
  <2>. QED  BY <1>10, <2>2 DEF Cancel, TypeOK
<1>11. ASSUME NEW c \in Cancels, Dequeue(c) PROVE TypeOK'
  BY <1>11, AnswerType DEF Dequeue, TypeOK
<1>12. ASSUME NEW h \in Handlers, Load(h) PROVE TypeOK'
  <2>1. {col \in JobColumns : call[h].mem[col] # job[col]} \in SUBSET JobColumns
    OBVIOUS
  <2>2. call' \in [Handlers -> Call]
    BY <1>12, <2>1 DEF Load, TypeOK, Call
  <2>. QED  BY <1>12, <2>2 DEF Load, TypeOK
<1>13. ASSUME NEW h \in Handlers, Write(h) PROVE TypeOK'
  <2>1. call[h] \in Call /\ job \in Job
    BY DEF TypeOK
  <2>2. job' \in Job
    BY <1>13, <2>1, Overlay DEF Write, Call
  <2>3. call' \in [Handlers -> Call]
    BY <1>13, AnswerType DEF Write
  <2>4. CASE call[h].ends
    BY <1>13, <2>2, <2>3, <2>4, FinishedType DEF Write, TypeOK
  <2>5. CASE ~call[h].ends
    BY <1>13, <2>2, <2>3, <2>5 DEF Write, TypeOK
  <2>. QED  BY <2>4, <2>5
<1>14. ASSUME NEW h \in Handlers, Drop(h) PROVE TypeOK'
  <2>1. call' \in [Handlers -> Call]
    BY <1>14, AnswerType DEF Drop
  <2>2. faults' \in 0..MaxFaults
    BY <1>14, BoundsAssumption DEF Drop, TypeOK
  <2>3. CASE call[h].ends
    BY <1>14, <2>1, <2>2, <2>3, FinishedType DEF Drop, TypeOK
  <2>4. CASE ~call[h].ends
    BY <1>14, <2>1, <2>2, <2>4 DEF Drop, TypeOK
  <2>. QED  BY <2>3, <2>4
<1>15. CASE UNCHANGED vars  BY <1>15 DEF vars, TypeOK
<1>. QED
  BY <1>1, <1>2, <1>3, <1>4, <1>5, <1>6, <1>7, <1>8, <1>9, <1>10, <1>11, <1>12,
     <1>13, <1>14, <1>15 DEF Next, WorkerStep, Save
-----------------------------------------------------------------------------
\* What each step does to the calls, the winners and the job's status.

LEMMA InitInv == Init => IInv
<1> SUFFICES ASSUME Init PROVE IInv  OBVIOUS
<1>1. TypeOK  BY InitType
<1>2. \A w \in Workers : call[w].pc = "idle" /\ ~call[w].won /\ worker[w] = "idle"
  BY DEF Init, NoCall, Handlers
<1>3. \A c \in Cancels : call[c].pc = "idle"
  BY DEF Init, NoCall, Handlers
<1>. QED
  BY <1>1, <1>2, <1>3 DEF IInv, LeftQueued, WorkersHoldClaimed, CancelsHoldCancelled,
                          SingleWinner, Saving

\* An answered call holds nothing and keeps its win; the other calls stay.
LEMMA AnswerEffect ==
    ASSUME TypeOK, NEW h \in Handlers, NEW pc \in {"idle", "saved", "done"},
           Answer(h, pc)
    PROVE  /\ call'[h].pc = pc /\ call'[h].won = call[h].won
           /\ \A g \in Handlers \ {h} : call'[g] = call[g]
BY DEF TypeOK, Answer, NoCall

LEMMA ReadEffect ==
    ASSUME TypeOK, NEW h \in Handlers, NEW e \in Job, NEW b \in BOOLEAN, Read(h, e, b)
    PROVE  /\ call'[h].pc = "read" /\ call'[h].mem = e /\ call'[h].won = call[h].won
           /\ \A g \in Handlers \ {h} : call'[g] = call[g]
BY DEF TypeOK, Read, Call

\* What a step may do to handler h without endangering the invariant.
Harmless(h) ==
    /\ h \in Workers => /\ call'[h].won => call[h].won
                        /\ worker'[h] = "scanning" =>
                             worker[h] = "scanning" \/ job'.status # "queued"
                        /\ call'[h].pc = "updated" =>
                             call[h].pc = "updated" \/ job'.status # "queued"
    /\ \/ call'[h].pc \notin {"read", "loaded"}
       \/ Saving(h) /\ call'[h].mem = call[h].mem
       \/ /\ h \in Workers => /\ call'[h].mem.status # "queued"
                              /\ job'.status # "queued"
          /\ h \in Cancels => call'[h].mem.status = "cancelled"

\* A step that is harmless to every handler and requeues nothing keeps IInv.
LEMMA HarmlessStep ==
    ASSUME IInv, TypeOK', job.status # "queued" => job'.status # "queued",
           \A h \in Handlers : Harmless(h)
    PROVE  IInv'
<1> USE DEF Handlers, Harmless, Saving
<1>1. LeftQueued'  BY DEF IInv, LeftQueued
<1>2. WorkersHoldClaimed'  BY DEF IInv, WorkersHoldClaimed
<1>3. CancelsHoldCancelled'  BY DEF IInv, CancelsHoldCancelled
<1>4. SingleWinner'  BY DEF IInv, SingleWinner
<1>. QED  BY <1>1, <1>2, <1>3, <1>4 DEF IInv

LEMMA NextInv == IInv /\ [Next]_vars => IInv'
<1> SUFFICES ASSUME IInv, [Next]_vars PROVE IInv'  OBVIOUS
<1> USE DEF Handlers
<1>20. TypeOK /\ TypeOK'  BY NextType DEF IInv
<1>1. CASE Enqueue \/ Stall \/ UNCHANGED vars
  <2>1. job' = job /\ call' = call /\ worker' = worker
    BY <1>1 DEF Enqueue, Stall, vars
  <2>. QED  BY <1>20, <2>1, HarmlessStep DEF Harmless, Saving
<1>2. ASSUME NEW w \in Workers, Take(w) \/ Die(w) PROVE IInv'
  <2>1. /\ job' = job /\ call' = call
        /\ \A v \in Workers : worker'[v] = "scanning" => worker[v] = "scanning"
    BY <1>20, <1>2 DEF Take, Die, TypeOK
  <2>. QED  BY <1>20, <2>1, HarmlessStep DEF Harmless, Saving
<1>3. ASSUME NEW w \in Workers, ClaimUpdate(w) PROVE IInv'
  <2>1. /\ worker' = worker
        /\ call'[w].pc = "updated" /\ call'[w].won = Claimable(job.status)
        /\ \A h \in Handlers \ {w} : call'[h] = call[h]
    BY <1>20, <1>3 DEF ClaimUpdate, TypeOK, Call
  <2>2. CASE Claimable(job.status)
    <3>1. job'.status = "running"
      BY <1>20, <1>3, <2>2 DEF ClaimUpdate, TypeOK, Job
    <3>2. \A v \in Workers : ~call[v].won /\ ~Saving(v)
      BY <2>2 DEF IInv, LeftQueued, Claimable
    <3>3. LeftQueued'  BY <3>1 DEF LeftQueued
    <3>4. WorkersHoldClaimed'
      BY <2>1, <3>2 DEF WorkersHoldClaimed, Saving
    <3>5. CancelsHoldCancelled'
      BY <2>1, HandlersDisjoint DEF IInv, CancelsHoldCancelled, Saving
    <3>6. SingleWinner'  BY <2>1, <3>2 DEF SingleWinner
    <3>. QED  BY <1>20, <3>3, <3>4, <3>5, <3>6 DEF IInv
  <2>3. CASE ~Claimable(job.status)
    <3>1. job' = job  BY <1>3, <2>3 DEF ClaimUpdate
    <3>. QED  BY <1>20, <2>1, <2>3, <3>1, HarmlessStep DEF Harmless, Saving, Claimable
  <2>. QED  BY <2>2, <2>3
<1>4. ASSUME NEW w \in Workers, ClaimReply(w) PROVE IInv'
  <2>1. /\ job' = job /\ call'[w].pc = "idle" /\ call'[w].won = call[w].won
        /\ \A h \in Handlers \ {w} : call'[h] = call[h]
    BY <1>20, <1>4 DEF ClaimReply, TypeOK, Call
  <2>2. \A v \in Workers : worker'[v] = "scanning" =>
            worker[v] = "scanning" \/ v = w
    BY <1>20, <1>4 DEF ClaimReply, Finished, TypeOK
  <2>3. job.status # "queued"
    BY <1>4 DEF ClaimReply, IInv, LeftQueued
  <2>. QED  BY <1>20, <2>1, <2>2, <2>3, HarmlessStep DEF Harmless, Saving
<1>5. ASSUME NEW w \in Workers, Progress(w) \/ Findings(w) \/ Complete(w)
      PROVE  IInv'
  <2>1. job' = job /\ job.status # "queued"
    BY <1>5 DEF Progress, Findings, Complete, Scanning, IInv, LeftQueued
  <2>2. \A v \in Workers : worker'[v] = "scanning" => worker[v] = "scanning"
    BY <1>20, <1>5 DEF Progress, Findings, Complete, Finished, TypeOK
  <2>3. \/ call' = call
        \/ \E e \in Job, b \in BOOLEAN : Read(w, e, b) /\ e.status # "queued"
    <3>1. CASE Progress(w)
      <4>1. \A phase \in {job.currentPhase, "scanning", "parsing"} :
              AfterProgress(phase) \in Job /\ AfterProgress(phase).status # "queued"
        BY <1>20, <2>1 DEF AfterProgress, TypeOK, Job, Statuses, Active
      <4>. QED  BY <3>1, <4>1 DEF Progress
    <3>2. CASE Findings(w)  BY <1>20, <2>1, <3>2 DEF Findings, TypeOK
    <3>3. CASE Complete(w)
      <4>1. \A status \in {"completed", "failed"} :
              /\ [job EXCEPT !.status = status] \in Job
              /\ [job EXCEPT !.status = status].status # "queued"
        BY <1>20 DEF TypeOK, Job, Statuses, Terminal
      <4>. QED  BY <3>3, <4>1 DEF Complete
    <3>. QED  BY <1>5, <3>1, <3>2, <3>3
  <2>4. CASE call' = call
    BY <1>20, <2>1, <2>2, <2>4, HarmlessStep DEF Harmless, Saving
  <2>5. ASSUME NEW e \in Job, NEW b \in BOOLEAN, Read(w, e, b), e.status # "queued"
        PROVE  IInv'
    <3>1. /\ call'[w].pc = "read" /\ call'[w].mem = e /\ call'[w].won = call[w].won
          /\ \A g \in Handlers \ {w} : call'[g] = call[g]
      BY <1>20, <2>5, ReadEffect
    <3>. QED
      BY <1>20, <2>1, <2>2, <2>5, <3>1, HandlersDisjoint, HarmlessStep
      DEF Harmless, Saving
  <2>. QED  BY <2>3, <2>4, <2>5
<1>6. ASSUME NEW c \in Cancels, Cancel(c) PROVE IInv'
  <2>1. job' = job /\ worker' = worker
    BY <1>6 DEF Cancel
  <2>2. CASE job.status \in Active
    <3> DEFINE e == [job EXCEPT !.status = "cancelled"]
    <3>1. e \in Job /\ e.status = "cancelled"
      BY <1>20 DEF TypeOK, Job, Statuses, Terminal
    <3>2. Read(c, e, FALSE)
      BY <1>6, <2>2 DEF Cancel
    <3>3. /\ call'[c].pc = "read" /\ call'[c].mem = e
          /\ \A g \in Handlers \ {c} : call'[g] = call[g]
      BY <1>20, <3>1, <3>2, ReadEffect
    <3>. QED
      BY <1>20, <2>1, <3>1, <3>3, HandlersDisjoint, HarmlessStep DEF Harmless, Saving
  <2>3. CASE job.status \notin Active
    <3>1. call'[c].pc = "done" /\ \A g \in Handlers \ {c} : call'[g] = call[g]
      BY <1>20, <1>6, <2>3, AnswerEffect DEF Cancel
    <3>. QED
      BY <1>20, <2>1, <3>1, HandlersDisjoint, HarmlessStep DEF Harmless, Saving
  <2>. QED  BY <2>2, <2>3
<1>7. ASSUME NEW c \in Cancels, Dequeue(c) PROVE IInv'
  <2>1. /\ job' = job /\ worker' = worker /\ call'[c].pc = "done"
        /\ \A g \in Handlers \ {c} : call'[g] = call[g]
    BY <1>20, <1>7, AnswerEffect DEF Dequeue
  <2>. QED
    BY <1>20, <2>1, HandlersDisjoint, HarmlessStep DEF Harmless, Saving
<1>8. ASSUME NEW h \in Handlers, Load(h) PROVE IInv'
  <2>1. /\ job' = job /\ worker' = worker
        /\ \A g \in Handlers : /\ call'[g].mem = call[g].mem
                               /\ call'[g].won = call[g].won
                               /\ call'[g].pc \in {"read", "loaded"} => Saving(g)
                               /\ call'[g].pc = "updated" => call[g].pc = "updated"
    BY <1>20, <1>8 DEF Load, TypeOK, Call, Saving
  <2>. QED  BY <1>20, <2>1, HarmlessStep DEF Harmless
<1>9. ASSUME NEW h \in Handlers, Write(h) \/ Drop(h) PROVE IInv'
  <2>1. /\ call'[h].pc \notin {"read", "loaded", "updated"} /\ call'[h].won = call[h].won
        /\ \A g \in Handlers \ {h} : call'[g] = call[g]
    BY <1>20, <1>9, AnswerEffect DEF Write, Drop
  <2>2. \A v \in Workers : worker'[v] = "scanning" => worker[v] = "scanning"
    BY <1>20, <1>9 DEF Write, Drop, Finished, TypeOK
  <2>3. call[h].mem.status # "queued"
    BY <1>9 DEF Write, Drop, IInv, WorkersHoldClaimed, CancelsHoldCancelled, Saving
  <2>4. job.status # "queued" => job'.status # "queued"
    BY <1>9, <2>3 DEF Write, Drop, JobColumns
  <2>. QED  BY <1>20, <2>1, <2>2, <2>4, HarmlessStep DEF Harmless, Saving
<1>. QED
  BY <1>1, <1>2, <1>3, <1>4, <1>5, <1>6, <1>7, <1>8, <1>9 DEF Next, WorkerStep, Save

-----------------------------------------------------------------------------
\* Under IInv a settled cancellation stays settled: a worker's call finds the
\* job cancelled and is ignored, and the saves still under way are cancels.
LEMMA SettledStays == IInv /\ [Next]_vars => (Settled => Settled')
<1> SUFFICES ASSUME IInv, [Next]_vars, Settled PROVE Settled'  OBVIOUS
<1> USE DEF Handlers
<1>20. TypeOK  BY DEF IInv
<1>1. CASE Enqueue \/ Stall \/ UNCHANGED vars
  BY <1>1 DEF Enqueue, Stall, vars, Settled
<1>2. ASSUME NEW w \in Workers, Take(w) \/ Die(w) PROVE Settled'
  BY <1>2 DEF Take, Die, Settled
<1>3. ASSUME NEW w \in Workers, ClaimUpdate(w) \/ ClaimReply(w) PROVE Settled'
  <2>1. job' = job
    BY <1>3 DEF ClaimUpdate, ClaimReply, Claimable, Settled
  <2>2. \A v \in Workers : call'[v].pc \in {call[v].pc, "updated", "idle"}
    BY <1>20, <1>3 DEF ClaimUpdate, ClaimReply, TypeOK, Call
  <2>. QED  BY <2>1, <2>2 DEF Settled
<1>4. ASSUME NEW w \in Workers, Progress(w) \/ Findings(w) \/ Complete(w)
      PROVE  Settled'
  BY <1>4 DEF Progress, Findings, Complete, Ignored, Settled
<1>5. ASSUME NEW c \in Cancels, Cancel(c) \/ Dequeue(c) PROVE Settled'
  <2>1. job' = job /\ \A v \in Workers : call'[v] = call[v]
    BY <1>20, <1>5, AnswerEffect, HandlersDisjoint
    DEF Cancel, Dequeue, Settled, Active
  <2>. QED  BY <2>1 DEF Settled
<1>6. ASSUME NEW h \in Handlers, Load(h) \/ Write(h) \/ Drop(h) PROVE Settled'
  <2>1. h \in Cancels /\ h \notin Workers
    BY <1>6, HandlersDisjoint DEF Load, Write, Drop, Settled
  <2>2. call[h].mem.status = "cancelled"
    BY <1>6, <2>1 DEF Load, Write, Drop, IInv, CancelsHoldCancelled, Saving
  <2>3. job'.status = "cancelled"
    BY <1>6, <2>2 DEF Load, Write, Drop, JobColumns, Settled
  <2>4. \A v \in Workers : call'[v] = call[v]
    BY <1>20, <1>6, <2>1, AnswerEffect DEF Load, Write, Drop, TypeOK
  <2>. QED  BY <2>3, <2>4 DEF Settled
<1>. QED
  BY <1>1, <1>2, <1>3, <1>4, <1>5, <1>6 DEF Next, WorkerStep, Save

-----------------------------------------------------------------------------
(* Jobs that have ended *)

\* The job has ended, and every entity still to be saved says so too.
EndedForGood ==
    /\ job.status \in Terminal
    /\ \A h \in Handlers : Saving(h) => call[h].mem.status \in Terminal

\* What an ended job may do next: the calls that follow find it ended.
EndedJobsStay == [][EndedForGood => EndedForGood']_vars

\* An entity that says the job has ended stays so through a worker's call: a phase is
\* noted, a result is stored, completing again is ending again.
LEMMA EndedStays == IInv /\ [Next]_vars => (EndedForGood => EndedForGood')
<1> SUFFICES ASSUME IInv, [Next]_vars, EndedForGood PROVE EndedForGood'  OBVIOUS
<1> USE DEF Handlers
<1>20. TypeOK /\ job.status \in Terminal  BY DEF IInv, EndedForGood
<1>1. CASE Enqueue \/ Stall \/ UNCHANGED vars
  BY <1>1 DEF Enqueue, Stall, vars, EndedForGood, Saving
<1>2. ASSUME NEW w \in Workers, Take(w) \/ Die(w) PROVE EndedForGood'
  BY <1>2 DEF Take, Die, EndedForGood, Saving
<1>3. ASSUME NEW w \in Workers, ClaimUpdate(w) \/ ClaimReply(w) PROVE EndedForGood'
  <2>1. job' = job
    BY <1>20, <1>3 DEF ClaimUpdate, ClaimReply, Claimable, Terminal
  <2>2. \A h \in Handlers : /\ call'[h].pc \in {call[h].pc, "updated", "idle"}
                            /\ call'[h].mem = call[h].mem
    BY <1>20, <1>3 DEF ClaimUpdate, ClaimReply, TypeOK, Call
  <2>. QED  BY <2>1, <2>2 DEF EndedForGood, Saving
<1>4. ASSUME NEW w \in Workers, Progress(w) \/ Findings(w) \/ Complete(w)
      PROVE  EndedForGood'
  <2>1. job' = job
    BY <1>4 DEF Progress, Findings, Complete
  <2>2. \/ call' = call
        \/ \E e \in Job, b \in BOOLEAN : Read(w, e, b) /\ e.status \in Terminal
    <3>1. CASE Progress(w)
      <4>1. \A phase \in {job.currentPhase, "scanning", "parsing"} :
              AfterProgress(phase) \in Job /\ AfterProgress(phase).status \in Terminal
        BY <1>20 DEF AfterProgress, TypeOK, Job, Statuses, Terminal
      <4>. QED  BY <3>1, <4>1 DEF Progress
    <3>2. CASE Findings(w)  BY <1>20, <3>2 DEF Findings, TypeOK
    <3>3. CASE Complete(w)
      <4>1. \A status \in {"completed", "failed"} :
              /\ [job EXCEPT !.status = status] \in Job
              /\ [job EXCEPT !.status = status].status \in Terminal
        BY <1>20 DEF TypeOK, Job, Statuses, Terminal
      <4>. QED  BY <3>3, <4>1 DEF Complete
    <3>. QED  BY <1>4, <3>1, <3>2, <3>3
  <2>3. ASSUME NEW e \in Job, NEW b \in BOOLEAN, Read(w, e, b), e.status \in Terminal
        PROVE  EndedForGood'
    BY <1>20, <2>1, <2>3, ReadEffect DEF EndedForGood, Saving
  <2>. QED  BY <2>1, <2>2, <2>3 DEF EndedForGood, Saving
<1>5. ASSUME NEW c \in Cancels, Cancel(c) \/ Dequeue(c) PROVE EndedForGood'
  <2>1. job' = job /\ \E pc \in {"idle", "saved", "done"} : Answer(c, pc)
    BY <1>20, <1>5 DEF Cancel, Dequeue, Active, Terminal
  <2>. QED  BY <1>20, <2>1, AnswerEffect DEF EndedForGood, Saving
<1>6. ASSUME NEW h \in Handlers, Load(h) PROVE EndedForGood'
  <2>1. /\ job' = job
        /\ \A g \in Handlers : /\ call'[g].mem = call[g].mem
                               /\ call'[g].pc \in {"read", "loaded"} => Saving(g)
    BY <1>20, <1>6 DEF Load, TypeOK, Call, Saving
  <2>. QED  BY <2>1 DEF EndedForGood, Saving
<1>7. ASSUME NEW h \in Handlers, Write(h) \/ Drop(h) PROVE EndedForGood'
  <2>1. call[h].mem.status \in Terminal
    BY <1>7 DEF Write, Drop, EndedForGood, Saving
  <2>2. job'.status \in Terminal
    BY <1>20, <1>7, <2>1 DEF Write, Drop, JobColumns
  <2>3. \E pc \in {"idle", "saved", "done"} : Answer(h, pc)
    BY <1>7 DEF Write, Drop
  <2>. QED  BY <1>20, <2>2, <2>3, AnswerEffect DEF EndedForGood, Saving
<1>. QED
  BY <1>1, <1>2, <1>3, <1>4, <1>5, <1>6, <1>7 DEF Next, WorkerStep, Save

LEMMA InvHolds == Spec => []IInv
BY InitInv, NextInv, PTL DEF Spec

\* Every reachable job, call and worker is well typed: no overlap of saves
\* leaves a value the entity's columns do not allow.
THEOREM TypeCorrect == Spec => []TypeOK
<1>1. IInv => TypeOK  BY DEF IInv
<1>. QED  BY <1>1, InvHolds, PTL

\* workerClaim's promise, for any number of workers and redeliveries: at most
\* one claim moves the job out of queued.
THEOREM OneClaimWins == Spec => []SingleWinner
<1>1. IInv => SingleWinner  BY DEF IInv
<1>. QED  BY <1>1, InvHolds, PTL

\* cancelJob's promise, for any number of workers and cancel requests: once no
\* worker's save overlaps a cancellation, nothing undoes it.
THEOREM CancellationSticks == Spec => CancelSticks
<1>1. IInv /\ [Next]_vars => [Settled => Settled']_vars  BY SettledStays
<1>. QED  BY <1>1, InvHolds, PTL DEF Spec, CancelSticks

\* A job that has completed, failed or been cancelled stays ended, whatever is
\* redelivered, once no entity that was read before it ended is left to be saved: no
\* claim, progress, findings, complete or cancel call revives it.
THEOREM EndedJobsAreOver == Spec => EndedJobsStay
<1>1. IInv /\ [Next]_vars => [EndedForGood => EndedForGood']_vars  BY EndedStays
<1>. QED  BY <1>1, InvHolds, PTL DEF Spec, EndedJobsStay
=============================================================================

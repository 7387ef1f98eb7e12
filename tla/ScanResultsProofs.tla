------------------------- MODULE ScanResultsProofs --------------------------
(***************************************************************************)
(* Proofs about ScanResults for any keys, severities, batches, contents,   *)
(* streams and worker's counts.  What was taken from a batch is in the     *)
(* table at every moment; and a worker that waits for its answers has at   *)
(* most one call in flight, whose entity is the row plus what it adds.     *)
(* The hub of a request holds nobody else, so an end finds no subscriber.  *)
(***************************************************************************)
EXTENDS ScanResults, FiniteSetTheorems, SequenceTheorems, TLAPS

WorkerCalls == Batches \cup {Complete}

Job == [status: {"open", "ended", "cancelled"}, errorLog: SUBSET Calls,
        findingCounts: Nat \cup {Unset}]

Call == [pc: Pcs, errors: BOOLEAN, todo: Seq(Findings), sent: Seq(Findings), mem: Job,
         dirty: SUBSET Columns, reported: Nat \cup {Unset}]

\* The job and the calls in full, and the places each kind of call may be in.
CallsTyped ==
    /\ job \in Job
    /\ call \in [Calls -> Call]
    /\ \A b \in Batches : call[b].pc \notin {"counting", "emitting"}
    /\ call[Complete].pc # "upserting"
    /\ call[Kill].pc \notin {"upserting", "counting"} /\ ~call[Kill].errors

\* What is left of a batch is the end of what was sent, and the rest is stored.
UpsertedSoFar(b) ==
    LET n == Len(call[b].sent) - Len(call[b].todo)
    IN  /\ n >= 0
        /\ \A i \in 1..Len(call[b].todo) : call[b].todo[i] = call[b].sent[n + i]
        /\ \A i \in 1..n : stored[call[b].sent[i].key] # NoRow
        /\ call[b].pc \in {"read", "loaded"} => n = Len(call[b].sent)

RowsWereReported ==
    \A k \in Keys : stored[k] # NoRow =>
      \E b \in Batches : \E i \in DOMAIN call[b].sent :
         call[b].sent[i] = [key |-> k, severity |-> stored[k]]

\* Who may say what of the status: only the complete call ends the job, and only
\* the user's call cancels it.
StatusIsTheirs ==
    /\ \A b \in Batches : call[b].mem.status = "open"
    /\ call[Complete].mem.status # "cancelled"
    /\ call[Kill].mem.status # "ended"
    /\ call[Kill].pc \in {"read", "loaded"} => call[Kill].mem.status = "cancelled"
    /\ job.status = "cancelled" => call[Kill].pc \notin {"unsent", "read", "loaded"}
    /\ call[Kill].pc = "loaded" => "status" \in call[Kill].dirty
    /\ job.status = "ended" => call[Complete].pc \in {"emitting", "answered"}

\* Until the complete call has written its counts nobody has any.
CountsAreCompletes ==
    call[Complete].pc \notin {"emitting", "answered"} =>
      /\ job.findingCounts = Unset
      /\ \A c \in Calls \ {Complete} : call[c].mem.findingCounts = Unset
      /\ call[Complete].pc = "loaded" =>
           "findingCounts" \in call[Complete].dirty
             \/ call[Complete].mem.findingCounts = Unset

\* A worker that waits for its answers has one call in flight.
OneInFlight ==
    /\ \A c, d \in WorkerCalls : InFlight(c) /\ InFlight(d) => c = d
    /\ call[Complete].pc # "unsent" => \A b \in Batches : ~InFlight(b)

\* The complete call holds the number of rows it counted.
CountIsOfRows ==
    call[Complete].pc \in {"read", "loaded"} /\ call[Complete].reported = Unset =>
      call[Complete].mem.findingCounts = Rows

\* The entity in flight is the row and the errors its call brought.
ErrorsAppended ==
    \A c \in WorkerCalls :
      /\ call[c].pc \in {"upserting", "counting", "read", "loaded"} =>
           call[c].mem.errorLog = job.errorLog \cup {d \in {c} : call[d].errors}
      /\ call[c].pc = "loaded" =>
           "errorLog" \in call[c].dirty \/ call[c].mem.errorLog = job.errorLog
      /\ call[c].pc \in {"emitting", "answered"} /\ call[c].errors => c \in job.errorLog

StorageInv == (\A b \in Batches : UpsertedSoFar(b)) /\ RowsWereReported
StatusInv == StatusIsTheirs /\ CountsAreCompletes
WaitingInv ==
    ~overlapped => /\ OneInFlight /\ CountIsOfRows
                   /\ call[Kill].pc = "unsent" => ErrorsAppended

IInv == TypeOK /\ CallsTyped /\ StorageInv /\ StatusInv /\ WaitingInv /\ ComputedCountsMatch

-----------------------------------------------------------------------------
(* Lemmas about the parts of a call *)

LEMMA CallKinds ==
    /\ \A b \in Batches : b \in Calls /\ b # Complete /\ b # Kill
    /\ Complete \in Calls /\ Kill \in Calls /\ Complete # Kill
    /\ \A c \in Calls : c \in WorkerCalls <=> c # Kill
    /\ WorkerCalls \subseteq Calls
BY CallsAssumption DEF Calls, WorkerCalls

LEMMA NewJobType == NewJob \in Job /\ NewJob.status = "open" /\ NewJob.findingCounts = Unset
BY DEF NewJob, Job, Calls

LEMMA CallRecord ==
    ASSUME CallsTyped, NEW c \in Calls
    PROVE  /\ call[c] \in Call /\ call[c].mem \in Job /\ call[c].todo \in Seq(Findings)
           /\ call[c].sent \in Seq(Findings) /\ call[c].errors \in BOOLEAN
           /\ call[c].dirty \in SUBSET Columns /\ call[c].reported \in Nat \cup {Unset}
           /\ call[c].pc \in Pcs
BY DEF CallsTyped, Call

LEMMA SeqFacts ==
    ASSUME NEW s \in Seq(Findings)
    PROVE  /\ Len(s) \in Nat /\ DOMAIN s = 1..Len(s)
           /\ \A i \in 1..Len(s) : s[i] \in Findings /\ s[i].key \in Keys
<1>1. Len(s) \in Nat /\ DOMAIN s = 1..Len(s)
  BY LenProperties
<1>2. ASSUME NEW i \in 1..Len(s) PROVE s[i] \in Findings
  BY ElementOfSeq
<1>. QED  BY <1>1, <1>2 DEF Findings

\* A batch takes its next finding.
LEMMA OneFurther ==
    ASSUME NEW sent \in Seq(Findings), NEW todo \in Seq(Findings), todo # <<>>,
           NEW n \in Nat, n + Len(todo) = Len(sent),
           \A i \in 1..Len(todo) : todo[i] = sent[n + i]
    PROVE  /\ Head(todo) \in Findings /\ n + 1 \in 1..Len(sent) /\ sent[n + 1] = Head(todo)
           /\ Tail(todo) \in Seq(Findings) /\ Len(sent) - Len(Tail(todo)) = n + 1
           /\ \A i \in 1..Len(Tail(todo)) : Tail(todo)[i] = sent[(n + 1) + i]
<1>1. /\ Len(todo) \in Nat /\ Len(sent) \in Nat /\ Len(todo) # 0
      /\ Len(Tail(todo)) = Len(todo) - 1 /\ Tail(todo) \in Seq(Findings)
      /\ \A i \in 1..Len(Tail(todo)) : Tail(todo)[i] = todo[i + 1]
  BY HeadTailProperties
<1>2. Head(todo) = todo[1] /\ 1 \in 1..Len(todo)
  BY <1>1
<1>3. n + 1 \in 1..Len(sent)
  BY <1>1
<1>4. Head(todo) \in Findings /\ sent[n + 1] = Head(todo)
  BY <1>2
<1>5. ASSUME NEW i \in 1..Len(Tail(todo)) PROVE Tail(todo)[i] = sent[(n + 1) + i]
  <2>1. Tail(todo)[i] = todo[i + 1] /\ i + 1 \in 1..Len(todo)
    BY <1>1
  <2>2. n + (i + 1) = (n + 1) + i
    BY <1>1
  <2>. QED  BY <2>1, <2>2
<1>. QED  BY <1>1, <1>3, <1>4, <1>5

\* How far a batch is: n of its findings are stored, the rest is still to do.
LEMMA BatchProgress ==
    ASSUME CallsTyped, NEW b \in Batches, UpsertedSoFar(b)
    PROVE  \E n \in Nat :
             /\ n = Len(call[b].sent) - Len(call[b].todo)
             /\ n + Len(call[b].todo) = Len(call[b].sent)
             /\ Len(call[b].sent) \in Nat /\ Len(call[b].todo) \in Nat
             /\ \A i \in 1..Len(call[b].todo) : call[b].todo[i] = call[b].sent[n + i]
             /\ \A i \in 1..n : /\ stored[call[b].sent[i].key] # NoRow
                                /\ call[b].sent[i].key \in Keys
             /\ call[b].pc \in {"read", "loaded"} => n = Len(call[b].sent)
<1> DEFINE n == Len(call[b].sent) - Len(call[b].todo)
<1>1. call[b].sent \in Seq(Findings) /\ call[b].todo \in Seq(Findings)
  BY CallKinds, CallRecord
<1>2. Len(call[b].sent) \in Nat /\ Len(call[b].todo) \in Nat
  BY <1>1, SeqFacts
<1>3. /\ n >= 0
      /\ \A i \in 1..Len(call[b].todo) : call[b].todo[i] = call[b].sent[n + i]
      /\ \A i \in 1..n : stored[call[b].sent[i].key] # NoRow
      /\ call[b].pc \in {"read", "loaded"} => n = Len(call[b].sent)
  BY DEF UpsertedSoFar
<1>4. n \in Nat /\ n + Len(call[b].todo) = Len(call[b].sent)
  BY <1>2, <1>3
<1> HIDE DEF n
<1>5. \A i \in 1..n : call[b].sent[i].key \in Keys
  <2> SUFFICES ASSUME NEW i \in 1..n PROVE call[b].sent[i].key \in Keys
    OBVIOUS
  <2>1. i \in 1..Len(call[b].sent)  BY <1>2, <1>4
  <2>. QED  BY <1>1, <2>1, SeqFacts
<1>. QED  BY <1>2, <1>3, <1>4, <1>5 DEF n

LEMMA RowsCounted == Rows \in Nat
<1>1. {k \in Keys : stored[k] # NoRow} \in SUBSET Keys  OBVIOUS
<1>. QED  BY <1>1, KeysFinite, FS_Subset, FS_CardinalityType DEF Rows

LEMMA AppendedType ==
    ASSUME CallsTyped, NEW c \in Calls
    PROVE  /\ Appended(c) \in Job /\ Appended(c).status = job.status
           /\ Appended(c).findingCounts = job.findingCounts
           /\ Appended(c).errorLog = job.errorLog \cup {d \in {c} : call[d].errors}
BY DEF CallsTyped, Appended, Job

\* The record of a call that Done leaves behind.
Left(c, pc) == [call[c] EXCEPT !.pc = pc, !.mem = NewJob, !.dirty = {}]

LEMMA DoneEffect ==
    ASSUME CallsTyped, NEW c \in Calls, NEW pc \in Pcs, Done(c, pc)
    PROVE  /\ Left(c, pc) \in Call /\ call' = [call EXCEPT ![c] = Left(c, pc)]
           /\ Left(c, pc).pc = pc /\ Left(c, pc).mem = NewJob /\ Left(c, pc).dirty = {}
           /\ Left(c, pc).errors = call[c].errors /\ Left(c, pc).reported = call[c].reported
           /\ Left(c, pc).todo = call[c].todo /\ Left(c, pc).sent = call[c].sent
BY NewJobType DEF CallsTyped, Done, Left, Call

LEMMA OneCall ==
    ASSUME CallsTyped, NEW c \in Calls, NEW v \in Call, call' = [call EXCEPT ![c] = v]
    PROVE  /\ call' \in [Calls -> Call] /\ call'[c] = v
           /\ \A d \in Calls \ {c} : call'[d] = call[d]
BY DEF CallsTyped

\* Where no batch moves on in its findings and no row is written, what is stored stands.
LEMMA StorageStands ==
    ASSUME CallsTyped, StorageInv, UNCHANGED stored,
           \A b \in Batches :
             /\ call'[b].sent = call[b].sent /\ call'[b].todo = call[b].todo
             /\ call'[b].pc \in {"read", "loaded"} =>
                  call[b].todo = <<>> \/ call[b].pc \in {"read", "loaded"}
    PROVE  StorageInv'
<1>1. ASSUME NEW b \in Batches PROVE UpsertedSoFar(b)'
  <2>1. UpsertedSoFar(b) /\ call[b].sent \in Seq(Findings)
    BY CallKinds, CallRecord DEF StorageInv
  <2>2. call[b].todo = <<>> => Len(call[b].sent) - Len(call[b].todo) = Len(call[b].sent)
    BY <2>1
  <2>. QED  BY <2>1, <2>2 DEF UpsertedSoFar
<1>2. RowsWereReported'
  BY DEF StorageInv, RowsWereReported
<1>. QED  BY <1>1, <1>2 DEF StorageInv

LEMMA SameRows == stored' = stored => Rows' = Rows
BY DEF Rows

-----------------------------------------------------------------------------
LEMMA InitInv == Init => IInv
<1> SUFFICES ASSUME Init PROVE IInv  OBVIOUS
<1>1. PICK content \in [Batches -> Contents], errors \in [Batches \cup {Complete} -> BOOLEAN] :
        call = [c \in Calls |->
                  [pc |-> "unsent", errors |-> c # Kill /\ errors[c],
                   todo |-> IF c \in Batches THEN content[c] ELSE <<>>,
                   sent |-> IF c \in Batches THEN content[c] ELSE <<>>,
                   mem |-> NewJob, dirty |-> {}, reported |-> Unset]]
  BY DEF Init
<1>2. \A c \in Calls : /\ call[c].pc = "unsent" /\ call[c].mem = NewJob
                       /\ call[c].todo = call[c].sent /\ call[c].reported = Unset
  BY <1>1
<1>3. call \in [Calls -> Call]
  <2> SUFFICES ASSUME NEW c \in Calls PROVE call[c] \in Call
    BY <1>1
  <2>1. (IF c \in Batches THEN content[c] ELSE <<>>) \in Seq(Findings)
    BY ContentsType
  <2>2. c # Kill => c \in Batches \cup {Complete}
    BY DEF Calls
  <2>3. (c # Kill /\ errors[c]) \in BOOLEAN
    OBVIOUS
  <2>. QED  BY <1>1, <2>1, <2>3, NewJobType DEF Call, Pcs, Unset
<1>4. CallsTyped
  <2>1. ~call[Kill].errors
    BY <1>1, CallKinds
  <2>. QED  BY <1>2, <1>3, <2>1, NewJobType, CallKinds DEF Init, CallsTyped
<1>5. TypeOK
  BY <1>2, <1>3, <1>4, NewJobType DEF Init, TypeOK, Job, Call
<1>6. StorageInv
  <2>1. ASSUME NEW b \in Batches PROVE UpsertedSoFar(b)
    <3>1. call[b].sent \in Seq(Findings)
      BY <1>4, CallKinds, CallRecord
    <3>2. call[b].todo = call[b].sent /\ call[b].pc = "unsent"
      BY <1>2, CallKinds
    <3>3. Len(call[b].sent) - Len(call[b].todo) = 0 /\ Len(call[b].sent) \in Nat
      BY <3>1, <3>2
    <3>4. \A i \in 1..Len(call[b].todo) : call[b].todo[i] = call[b].sent[0 + i]
      BY <3>2, <3>3
    <3>. QED  BY <3>2, <3>3, <3>4 DEF UpsertedSoFar
  <2>2. RowsWereReported
    BY DEF Init, RowsWereReported
  <2>. QED  BY <2>1, <2>2 DEF StorageInv
<1>7. StatusInv
  BY <1>2, NewJobType, CallKinds DEF Init, StatusInv, StatusIsTheirs, CountsAreCompletes
<1>8. WaitingInv
  BY <1>2, CallKinds DEF WaitingInv, OneInFlight, CountIsOfRows, ErrorsAppended, InFlight,
                         WorkerCalls
<1>9. ComputedCountsMatch
  BY NewJobType DEF Init, ComputedCountsMatch
<1>. QED  BY <1>4, <1>5, <1>6, <1>7, <1>8, <1>9 DEF IInv

-----------------------------------------------------------------------------
(* The calls of the worker *)

\* A call of the worker is sent, and answered at once or taken in.
LEMMA SendInv ==
    ASSUME IInv, NEW c \in WorkerCalls, NEW v \in Call, Send(c),
           call' = [call EXCEPT ![c] = v], UNCHANGED <<stored, job, hubs, stream>>,
           v.pc \in {"upserting", "counting", "answered"},
           c \in Batches => v.pc # "counting", c = Complete => v.pc # "upserting",
           v.sent = call[c].sent, v.todo = call[c].todo, v.errors = call[c].errors,
           v.mem.findingCounts = Unset,
           v.pc # "answered" =>
             v.mem.errorLog = job.errorLog \cup {d \in {c} : call[d].errors},
           v.pc = "answered" => job.status = "cancelled",
           c \in Batches => v.mem.status = "open", v.mem.status # "cancelled"
    PROVE  IInv'
<1>1. c \in Calls /\ c # Kill /\ (c \in Batches <=> c # Complete)
  BY CallKinds DEF WorkerCalls
<1>2. /\ call' \in [Calls -> Call] /\ call'[c] = v
      /\ \A d \in Calls \ {c} : call'[d] = call[d]
  BY <1>1, OneCall DEF IInv
<1>3. call[c].pc = "unsent" /\ call[Complete].pc = "unsent"
  BY DEF Send
<1>4. TypeOK'
  <2>1. overlapped' \in BOOLEAN
    BY DEF Send, IInv, TypeOK
  <2>. QED  BY <1>2, <2>1 DEF IInv, TypeOK, Call
<1>5. CallsTyped'
  BY <1>1, <1>2, CallKinds DEF IInv, CallsTyped
<1>6. StorageInv'
  BY <1>1, <1>2, StorageStands, CallKinds DEF IInv
<1>7. StatusIsTheirs'
  BY <1>1, <1>2, <1>3, CallKinds DEF IInv, StatusInv, StatusIsTheirs
<1>8. CountsAreCompletes'
  BY <1>1, <1>2, <1>3, CallKinds DEF IInv, StatusInv, CountsAreCompletes
<1>9. WaitingInv'
  <2> SUFFICES ASSUME ~overlapped' PROVE /\ OneInFlight' /\ CountIsOfRows'
                                         /\ call'[Kill].pc = "unsent" => ErrorsAppended'
    BY DEF WaitingInv
  <2>1. ~overlapped /\ \A d \in Calls \ {Kill} : ~InFlight(d)
    BY DEF Send, IInv, TypeOK
  <2>2. ASSUME NEW d \in WorkerCalls \ {c} PROVE ~InFlight(d)'
    <3>1. d \in Calls \ {Kill} /\ call'[d] = call[d]
      BY <1>2, CallKinds DEF WorkerCalls
    <3>. QED  BY <2>1, <3>1 DEF InFlight
  <2>3. OneInFlight'
    BY <1>1, <1>2, <1>3, <2>2, CallKinds DEF OneInFlight, WorkerCalls
  <2>4. CountIsOfRows'
    BY <1>1, <1>2, <1>3, CallKinds DEF CountIsOfRows
  <2>5. ASSUME call'[Kill].pc = "unsent" PROVE ErrorsAppended'
    <3>1. call[Kill].pc = "unsent" /\ job.status # "cancelled"
      BY <1>1, <1>2, <2>5, CallKinds DEF IInv, StatusInv, StatusIsTheirs
    <3>2. ErrorsAppended
      BY <2>1, <3>1 DEF IInv, WaitingInv
    <3>3. v.pc \in {"upserting", "counting"}
          /\ v.mem.errorLog = job.errorLog \cup {d \in {c} : call'[d].errors}
      BY <1>1, <1>2, <3>1
    <3>4. ASSUME NEW d \in WorkerCalls \ {c}
          PROVE  call'[d] = call[d] /\ {e \in {d} : call'[e].errors} = {e \in {d} : call[e].errors}
      BY <1>2, CallKinds
    <3>. QED  BY <1>2, <3>2, <3>3, <3>4 DEF ErrorsAppended
  <2>. QED  BY <2>3, <2>4, <2>5
<1>10. ComputedCountsMatch'
  <2>1. job.status # "ended"
    BY <1>3 DEF IInv, StatusInv, StatusIsTheirs
  <2>. QED  BY <2>1 DEF ComputedCountsMatch
<1>. QED  BY <1>4, <1>5, <1>6, <1>7, <1>8, <1>9, <1>10 DEF IInv, StatusInv

LEMMA SendBatchInv ==
    ASSUME IInv, NEW b \in Batches, SendBatch(b)
    PROVE  IInv'
<1>1. /\ b \in Calls /\ b # Complete /\ CallsTyped /\ call[b] \in Call
      /\ job.status \in {"open", "ended", "cancelled"} /\ b \in WorkerCalls
  BY CallKinds, CallRecord DEF IInv, TypeOK, WorkerCalls
<1>2. Send(b) /\ UNCHANGED <<stored, job, hubs, stream>> /\ job.status # "ended"
  BY DEF SendBatch, Send, IInv, StatusInv, StatusIsTheirs
<1>3. CASE job.status = "cancelled"
  <2>1. Done(b, "answered") /\ "answered" \in Pcs
    BY <1>3 DEF SendBatch, Pcs
  <2> DEFINE v == Left(b, "answered")
  <2>2. /\ v \in Call /\ call' = [call EXCEPT ![b] = v] /\ v.pc = "answered"
        /\ v.mem = NewJob /\ v.errors = call[b].errors /\ v.todo = call[b].todo
        /\ v.sent = call[b].sent
    BY <1>1, <2>1, DoneEffect
  <2> HIDE DEF v
  <2>. QED  BY <1>1, <1>2, <1>3, <2>2, NewJobType, SendInv
<1>4. CASE job.status # "cancelled"
  <2> DEFINE v == [call[b] EXCEPT !.pc = "upserting", !.mem = Appended(b)]
  <2>1. call' = [call EXCEPT ![b] = v]
    BY <1>1, <1>4 DEF SendBatch, CallsTyped
  <2>2. /\ v \in Call /\ v.pc = "upserting" /\ v.mem = Appended(b)
        /\ v.errors = call[b].errors /\ v.todo = call[b].todo /\ v.sent = call[b].sent
    BY <1>1, AppendedType DEF Call, Pcs
  <2> HIDE DEF v
  <2>3. job.findingCounts = Unset
    BY <1>2 DEF Send, IInv, StatusInv, CountsAreCompletes
  <2>4. /\ v.mem.findingCounts = Unset /\ v.mem.status = "open"
        /\ v.mem.errorLog = job.errorLog \cup {d \in {b} : call[d].errors}
    BY <1>1, <1>2, <1>4, <2>2, <2>3, AppendedType
  <2>. QED  BY <1>1, <1>2, <2>1, <2>2, <2>4, SendInv
<1>. QED  BY <1>3, <1>4

LEMMA SendCompleteInv ==
    ASSUME IInv, SendComplete
    PROVE  IInv'
<1>1. /\ Complete \in Calls /\ CallsTyped /\ call[Complete] \in Call
      /\ Complete \notin Batches /\ Complete \in WorkerCalls
  BY CallKinds, CallRecord DEF IInv, WorkerCalls
<1>2. Send(Complete) /\ UNCHANGED <<stored, job, hubs, stream>>
  BY DEF SendComplete
<1>3. CASE job.status = "cancelled"
  <2>1. Done(Complete, "answered") /\ "answered" \in Pcs
    BY <1>3 DEF SendComplete, Pcs
  <2> DEFINE v == Left(Complete, "answered")
  <2>2. /\ v \in Call /\ call' = [call EXCEPT ![Complete] = v] /\ v.pc = "answered"
        /\ v.mem = NewJob /\ v.errors = call[Complete].errors
        /\ v.todo = call[Complete].todo /\ v.sent = call[Complete].sent
    BY <1>1, <2>1, DoneEffect
  <2> HIDE DEF v
  <2>. QED  BY <1>1, <1>2, <1>3, <2>2, NewJobType, SendInv
<1>4. CASE job.status # "cancelled"
  <2>1. PICK reported \in WorkerCounts :
          call' = [call EXCEPT ![Complete].pc = "counting",
                               ![Complete].mem = [Appended(Complete) EXCEPT !.status = "ended"],
                               ![Complete].reported = reported]
    BY <1>4 DEF SendComplete
  <2> DEFINE mem == [Appended(Complete) EXCEPT !.status = "ended"]
             v == [call[Complete] EXCEPT !.pc = "counting", !.mem = mem,
                                         !.reported = reported]
  <2>2. reported \in Nat \cup {Unset}
    BY CountsType
  <2>3. /\ mem \in Job /\ mem.status = "ended"
        /\ mem.findingCounts = Appended(Complete).findingCounts
        /\ mem.errorLog = Appended(Complete).errorLog
    BY <1>1, AppendedType DEF Job
  <2>4. call' = [call EXCEPT ![Complete] = v]
    BY <1>1, <2>1 DEF CallsTyped
  <2> HIDE DEF mem
  <2>5. /\ v \in Call /\ v.pc = "counting" /\ v.mem = mem
        /\ v.errors = call[Complete].errors
        /\ v.todo = call[Complete].todo /\ v.sent = call[Complete].sent
    BY <1>1, <2>2, <2>3 DEF Call, Pcs
  <2> HIDE DEF v
  <2>6. job.findingCounts = Unset
    BY <1>2 DEF Send, IInv, StatusInv, CountsAreCompletes
  <2>7. /\ v.mem.findingCounts = Unset /\ v.mem.status = "ended"
        /\ v.mem.errorLog = job.errorLog \cup {d \in {Complete} : call[d].errors}
    BY <1>1, <2>3, <2>5, <2>6, AppendedType
  <2>. QED  BY <1>1, <1>2, <2>4, <2>5, <2>7, SendInv
<1>. QED  BY <1>3, <1>4

\* A call of the worker goes on and neither writes nor ends: the entity it holds
\* still is the row and what it adds.
LEMMA GoOnInv ==
    ASSUME IInv, NEW c \in WorkerCalls, NEW v \in Call, InFlight(c),
           call' = [call EXCEPT ![c] = v], UNCHANGED <<stored, job, hubs, stream, overlapped>>,
           call[c].pc \in {"upserting", "counting", "read"},
           v.pc \in {"upserting", "counting", "read", "loaded"},
           c \in Batches => v.pc # "counting" /\ call[c].pc # "counting",
           c = Complete => v.pc # "upserting" /\ call[c].pc # "upserting",
           v.sent = call[c].sent, v.todo = call[c].todo, v.errors = call[c].errors,
           v.reported = call[c].reported,
           v.pc = "read" => c = Complete \/ call[c].todo = <<>>,
           v.pc = "loaded" => call[c].pc = "read" /\ v.mem = call[c].mem
                              /\ v.dirty = {col \in Columns : call[c].mem[col] # job[col]},
           v.mem.status = call[c].mem.status, v.mem.errorLog = call[c].mem.errorLog,
           c \in Batches => v.mem.findingCounts = call[c].mem.findingCounts,
           c = Complete /\ v.pc = "read" /\ v.reported = Unset => v.mem.findingCounts = Rows
    PROVE  IInv'
<1>1. c \in Calls /\ c # Kill /\ (c \in Batches <=> c # Complete)
  BY CallKinds DEF WorkerCalls
<1>2. /\ call' \in [Calls -> Call] /\ call'[c] = v
      /\ \A d \in Calls \ {c} : call'[d] = call[d]
  BY <1>1, OneCall DEF IInv
<1>3. TypeOK'
  BY <1>2 DEF IInv, TypeOK, Call
<1>4. CallsTyped'
  BY <1>1, <1>2, CallKinds DEF IInv, CallsTyped
<1>5. StorageInv'
  BY <1>1, <1>2, StorageStands, CallKinds DEF IInv
<1>6. StatusIsTheirs'
  BY <1>1, <1>2, CallKinds DEF IInv, StatusInv, StatusIsTheirs
<1>7. CountsAreCompletes'
  <2>1. \A d \in Calls : d # Complete => call'[d].mem.findingCounts = call[d].mem.findingCounts
    BY <1>1, <1>2
  <2>2. call[Complete].pc \notin {"emitting", "answered"}
        <=> call'[Complete].pc \notin {"emitting", "answered"}
    BY <1>1, <1>2, CallKinds
  <2>3. call'[Complete].pc = "loaded" /\ job.findingCounts = Unset =>
          "findingCounts" \in call'[Complete].dirty
            \/ call'[Complete].mem.findingCounts = Unset
    BY <1>1, <1>2, CallKinds DEF IInv, StatusInv, CountsAreCompletes, Columns
  <2>. QED  BY <2>1, <2>2, <2>3 DEF IInv, StatusInv, CountsAreCompletes
<1>8. Rows' = Rows  BY SameRows
<1>9. WaitingInv'
  <2> SUFFICES ASSUME ~overlapped PROVE /\ OneInFlight' /\ CountIsOfRows'
                                        /\ call'[Kill].pc = "unsent" => ErrorsAppended'
    BY DEF WaitingInv
  <2>1. OneInFlight /\ CountIsOfRows /\ (call[Kill].pc = "unsent" => ErrorsAppended)
    BY DEF IInv, WaitingInv
  <2>2. \A d \in Calls : /\ InFlight(d)' => InFlight(d)
                         /\ call'[d].pc = "unsent" <=> call[d].pc = "unsent"
    BY <1>2 DEF InFlight
  <2>3. OneInFlight'
    BY <2>1, <2>2, CallKinds DEF OneInFlight, WorkerCalls
  <2>4. CountIsOfRows'
    BY <1>1, <1>2, <1>8, <2>1, CallKinds DEF CountIsOfRows
  <2>5. ASSUME call'[Kill].pc = "unsent" PROVE ErrorsAppended'
    <3>1. ErrorsAppended /\ v.mem.errorLog = job.errorLog \cup {d \in {c} : call[d].errors}
      BY <1>1, <1>2, <2>1, <2>5, CallKinds DEF ErrorsAppended
    <3>2. v.mem.errorLog = job.errorLog \cup {d \in {c} : call'[d].errors}
      BY <1>1, <1>2, <3>1
    <3>3. v.pc = "loaded" => "errorLog" \in v.dirty \/ v.mem.errorLog = job.errorLog
      BY DEF Columns
    <3>4. ASSUME NEW d \in WorkerCalls \ {c}
          PROVE  call'[d] = call[d] /\ {e \in {d} : call'[e].errors} = {e \in {d} : call[e].errors}
      BY <1>2, CallKinds
    <3>5. v.pc \notin {"emitting", "answered"}
      OBVIOUS
    <3> SUFFICES ASSUME NEW d \in WorkerCalls
                 PROVE  /\ call'[d].pc \in {"upserting", "counting", "read", "loaded"} =>
                             call'[d].mem.errorLog =
                               job.errorLog \cup {e \in {d} : call'[e].errors}
                        /\ call'[d].pc = "loaded" =>
                             "errorLog" \in call'[d].dirty
                               \/ call'[d].mem.errorLog = job.errorLog
                        /\ call'[d].pc \in {"emitting", "answered"} /\ call'[d].errors =>
                             d \in job.errorLog
      BY DEF ErrorsAppended
    <3>6. CASE d = c
      BY <1>2, <3>2, <3>3, <3>5, <3>6
    <3>7. CASE d # c
      BY <3>1, <3>4, <3>7 DEF ErrorsAppended
    <3>. QED  BY <3>6, <3>7
  <2>. QED  BY <2>3, <2>4, <2>5
<1>10. ComputedCountsMatch'
  <2>1. call'[Complete].reported = call[Complete].reported
    BY <1>1, <1>2, CallKinds
  <2>. QED  BY <1>8, <2>1 DEF IInv, ComputedCountsMatch
<1>. QED  BY <1>3, <1>4, <1>5, <1>6, <1>7, <1>9, <1>10 DEF IInv, StatusInv

LEMMA UpsertInv ==
    ASSUME IInv, NEW b \in Batches, Upsert(b)
    PROVE  IInv'
<1> DEFINE f == Head(call[b].todo)
           v == [call[b] EXCEPT !.todo = Tail(@)]
<1>1. /\ b \in Calls /\ b # Complete /\ b # Kill /\ CallsTyped /\ call[b] \in Call
      /\ call[b].todo \in Seq(Findings) /\ call[b].sent \in Seq(Findings)
      /\ call[b].todo # <<>> /\ call[b].pc = "upserting" /\ b \in WorkerCalls
      /\ UNCHANGED <<job, hubs, stream, overlapped>>
  BY CallKinds, CallRecord DEF IInv, Upsert, WorkerCalls
<1>2. PICK n \in Nat :
        /\ n = Len(call[b].sent) - Len(call[b].todo)
        /\ n + Len(call[b].todo) = Len(call[b].sent)
        /\ \A i \in 1..Len(call[b].todo) : call[b].todo[i] = call[b].sent[n + i]
        /\ \A i \in 1..n : /\ stored[call[b].sent[i].key] # NoRow
                           /\ call[b].sent[i].key \in Keys
  BY <1>1, BatchProgress DEF IInv, StorageInv
<1>3. /\ f \in Findings /\ n + 1 \in 1..Len(call[b].sent) /\ call[b].sent[n + 1] = f
      /\ Tail(call[b].todo) \in Seq(Findings)
      /\ Len(call[b].sent) - Len(Tail(call[b].todo)) = n + 1
      /\ \A i \in 1..Len(Tail(call[b].todo)) :
           Tail(call[b].todo)[i] = call[b].sent[(n + 1) + i]
  <2> DEFINE sent == call[b].sent
             todo == call[b].todo
  <2>1. sent \in Seq(Findings) /\ todo \in Seq(Findings) /\ todo # <<>>
    BY <1>1
  <2>2. /\ n + Len(todo) = Len(sent)
        /\ \A i \in 1..Len(todo) : todo[i] = sent[n + i]
    BY <1>2
  <2> HIDE DEF sent, todo
  <2>3. /\ Head(todo) \in Findings /\ n + 1 \in 1..Len(sent) /\ sent[n + 1] = Head(todo)
        /\ Tail(todo) \in Seq(Findings) /\ Len(sent) - Len(Tail(todo)) = n + 1
        /\ \A i \in 1..Len(Tail(todo)) : Tail(todo)[i] = sent[(n + 1) + i]
    BY <2>1, <2>2, OneFurther
  <2>. QED  BY <2>3 DEF sent, todo
<1>4. /\ v \in Call /\ v.todo = Tail(call[b].todo) /\ v.pc = "upserting"
      /\ v.sent = call[b].sent /\ v.errors = call[b].errors /\ v.mem = call[b].mem
      /\ v.reported = call[b].reported /\ call' = [call EXCEPT ![b] = v]
  BY <1>1, <1>3 DEF Call, Upsert
<1>5. /\ f.key \in Keys /\ f.severity \in Severities /\ f.severity # NoRow
      /\ f = [key |-> f.key, severity |-> f.severity]
  BY <1>3, RankAssumption DEF Findings, Severities, NoRow
<1> HIDE DEF v, f
<1>6. /\ call' \in [Calls -> Call] /\ call'[b] = v
      /\ \A d \in Calls \ {b} : call'[d] = call[d]
  BY <1>1, <1>4, OneCall
<1>7. stored' = [stored EXCEPT ![f.key] = f.severity]
  <2>1. Upserted(stored[f.key], f.severity) = f.severity
    BY <1>5, RankAssumption DEF Upserted, Merge, Severities
  <2>. QED  BY <2>1 DEF Upsert, f
<1>8. TypeOK'
  BY <1>1, <1>5, <1>6, <1>7 DEF IInv, TypeOK, Call
<1>9. CallsTyped'
  BY <1>1, <1>4, <1>6, CallKinds DEF IInv, CallsTyped
<1>10. \A k \in Keys : /\ stored'[k] # NoRow <=> k = f.key \/ stored[k] # NoRow
                       /\ k # f.key => stored'[k] = stored[k]
                       /\ k = f.key => stored'[k] = f.severity
  BY <1>5, <1>7 DEF IInv, TypeOK
<1>11. UpsertedSoFar(b)'
  <2>1. ASSUME NEW i \in 1..(n + 1) PROVE stored'[call[b].sent[i].key] # NoRow
    <3>1. i \in 1..n \/ i = n + 1
      OBVIOUS
    <3>2. CASE i \in 1..n
      <4>1. call[b].sent[i].key \in Keys /\ stored[call[b].sent[i].key] # NoRow
        BY <1>2, <3>2
      <4>. QED  BY <1>10, <4>1
    <3>3. CASE i = n + 1
      <4>1. call[b].sent[i] = f
        BY <1>3, <3>3
      <4>. QED  BY <1>5, <1>10, <4>1
    <3>. QED  BY <3>1, <3>2, <3>3
  <2>2. /\ call'[b].sent = call[b].sent /\ call'[b].todo = Tail(call[b].todo)
        /\ call'[b].pc = "upserting"
    BY <1>4, <1>6
  <2>3. n + 1 >= 0
    OBVIOUS
  <2>. QED  BY <1>3, <2>1, <2>2, <2>3 DEF UpsertedSoFar
<1>12. ASSUME NEW d \in Batches \ {b} PROVE UpsertedSoFar(d)'
  <2>1. call'[d] = call[d] /\ UpsertedSoFar(d)
    BY <1>6, CallKinds DEF IInv, StorageInv
  <2>2. \A i \in 1..(Len(call[d].sent) - Len(call[d].todo)) :
          stored'[call[d].sent[i].key] # NoRow
    BY <1>1, <1>10, <2>1, BatchProgress
  <2>. QED  BY <2>1, <2>2 DEF UpsertedSoFar
<1>13. RowsWereReported'
  <2> SUFFICES ASSUME NEW k \in Keys, stored'[k] # NoRow
               PROVE  \E d \in Batches : \E i \in DOMAIN call'[d].sent :
                        call'[d].sent[i] = [key |-> k, severity |-> stored'[k]]
    BY DEF RowsWereReported
  <2>1. \A d \in Batches : call'[d].sent = call[d].sent
    BY <1>4, <1>6, CallKinds
  <2>2. CASE k = f.key
    <3>1. n + 1 \in DOMAIN call[b].sent
      BY <1>1, <1>3, SeqFacts
    <3>. QED  BY <1>3, <1>5, <1>10, <2>1, <2>2, <3>1
  <2>3. CASE k # f.key
    BY <1>10, <2>1, <2>3 DEF IInv, StorageInv, RowsWereReported
  <2>. QED  BY <2>2, <2>3
<1>14. StatusInv'
  BY <1>1, <1>4, <1>6, CallKinds
  DEF IInv, StatusInv, StatusIsTheirs, CountsAreCompletes
<1>15. InFlight(b) /\ (\A d \in Calls : InFlight(d)' <=> InFlight(d))
  BY <1>1, <1>4, <1>6 DEF InFlight
<1>16. ~overlapped => call[Complete].pc = "unsent" /\ call'[Complete].pc = "unsent"
  BY <1>1, <1>6, <1>15, CallKinds DEF IInv, WaitingInv, OneInFlight
<1>17. WaitingInv'
  <2> SUFFICES ASSUME ~overlapped PROVE /\ OneInFlight' /\ CountIsOfRows'
                                        /\ call'[Kill].pc = "unsent" => ErrorsAppended'
    BY <1>1 DEF WaitingInv
  <2>1. OneInFlight /\ (call[Kill].pc = "unsent" => ErrorsAppended)
    BY DEF IInv, WaitingInv
  <2>2. OneInFlight'
    BY <1>6, <1>15, <1>16, <2>1, CallKinds DEF OneInFlight, WorkerCalls
  <2>3. CountIsOfRows'
    BY <1>16 DEF CountIsOfRows
  <2>4. ASSUME call'[Kill].pc = "unsent" PROVE ErrorsAppended'
    <3>1. ErrorsAppended
      BY <1>1, <1>6, <2>1, <2>4, CallKinds
    <3>2. \A d \in WorkerCalls : /\ call'[d].pc = call[d].pc /\ call'[d].mem = call[d].mem
                                 /\ call'[d].errors = call[d].errors
      BY <1>1, <1>4, <1>6, CallKinds
    <3>3. \A d \in WorkerCalls \ {b} : call'[d].dirty = call[d].dirty
      BY <1>6, CallKinds
    <3>4. \A d \in WorkerCalls : {e \in {d} : call'[e].errors} = {e \in {d} : call[e].errors}
      BY <3>2
    <3>. QED  BY <1>1, <1>4, <1>6, <3>1, <3>2, <3>3, <3>4 DEF ErrorsAppended
  <2>. QED  BY <2>2, <2>3, <2>4
<1>18. ComputedCountsMatch'
  BY <1>1, <1>16 DEF IInv, StatusInv, StatusIsTheirs, ComputedCountsMatch
<1>. QED
  BY <1>8, <1>9, <1>11, <1>12, <1>13, <1>14, <1>17, <1>18 DEF IInv, StorageInv

LEMMA CountInv ==
    ASSUME IInv, Count
    PROVE  IInv'
<1> DEFINE mem == [call[Complete].mem EXCEPT !.findingCounts = Counts(call[Complete].reported)]
           v == [call[Complete] EXCEPT !.pc = "read", !.mem = mem]
<1>1. /\ Complete \in Calls /\ CallsTyped /\ call[Complete] \in Call
      /\ call[Complete].mem \in Job /\ call[Complete].reported \in Nat \cup {Unset}
      /\ Complete \notin Batches /\ Complete \in WorkerCalls
  BY CallKinds, CallRecord DEF IInv, WorkerCalls
<1>2. /\ call[Complete].pc = "counting"
      /\ UNCHANGED <<stored, job, hubs, stream, overlapped>>
      /\ call' = [call EXCEPT ![Complete] = v]
  BY <1>1 DEF Count, CallsTyped
<1>3. /\ Counts(call[Complete].reported) \in Nat
      /\ call[Complete].reported = Unset => Counts(call[Complete].reported) = Rows
  BY <1>1, RowsCounted DEF Counts
<1>4. /\ mem \in Job /\ mem.status = call[Complete].mem.status
      /\ mem.errorLog = call[Complete].mem.errorLog
      /\ mem.findingCounts = Counts(call[Complete].reported)
  BY <1>1, <1>3 DEF Job
<1> HIDE DEF mem
<1>5. /\ v \in Call /\ v.pc = "read" /\ v.mem = mem /\ v.sent = call[Complete].sent
      /\ v.todo = call[Complete].todo /\ v.errors = call[Complete].errors
      /\ v.reported = call[Complete].reported
  BY <1>1, <1>4 DEF Call, Pcs
<1> HIDE DEF v
<1>6. InFlight(Complete)
  BY <1>2 DEF InFlight
<1>. QED  BY <1>1, <1>2, <1>3, <1>4, <1>5, <1>6, GoOnInv

LEMMA LoadInv ==
    ASSUME IInv, NEW c \in WorkerCalls, Load(c)
    PROVE  IInv'
<1> DEFINE v == [call[c] EXCEPT !.pc = "loaded",
                                !.dirty = {col \in Columns : call[c].mem[col] # job[col]}]
<1>1. c \in Calls /\ CallsTyped /\ call[c] \in Call
  BY CallKinds, CallRecord DEF IInv
<1>2. /\ call[c].pc = "read" /\ UNCHANGED <<stored, job, hubs, stream, overlapped>>
      /\ call' = [call EXCEPT ![c] = v]
  BY <1>1 DEF Load, CallsTyped
<1>3. /\ v \in Call /\ v.pc = "loaded" /\ v.mem = call[c].mem /\ v.sent = call[c].sent
      /\ v.todo = call[c].todo /\ v.errors = call[c].errors
      /\ v.reported = call[c].reported
      /\ v.dirty = {col \in Columns : call[c].mem[col] # job[col]}
  BY <1>1 DEF Call, Pcs
<1> HIDE DEF v
<1>4. InFlight(c)
  BY <1>2 DEF InFlight
<1>. QED  BY <1>1, <1>2, <1>3, <1>4, GoOnInv

\* A call ends without writing: a batch that brought no errors, or a call that
\* has written and emitted.
LEMMA EndInv ==
    ASSUME IInv, NEW c \in Calls, Done(c, "answered"),
           UNCHANGED <<stored, job, overlapped>>,
           call[c].pc = "emitting" \/ (c \in Batches /\ ~call[c].errors /\ InFlight(c)),
           hubs' \in [Calls \cup Streams -> SUBSET Streams],
           stream' \in [Streams -> {"closed", "reading", "live", "told"}]
    PROVE  IInv'
<1> DEFINE v == Left(c, "answered")
<1>1. /\ v \in Call /\ v.pc = "answered" /\ v.mem = NewJob /\ v.dirty = {}
      /\ v.errors = call[c].errors /\ v.reported = call[c].reported
      /\ v.todo = call[c].todo /\ v.sent = call[c].sent
      /\ call' = [call EXCEPT ![c] = v]
  BY DoneEffect DEF IInv, Pcs
<1> HIDE DEF v
<1>2. /\ call' \in [Calls -> Call] /\ call'[c] = v
      /\ \A d \in Calls \ {c} : call'[d] = call[d]
  BY <1>1, OneCall DEF IInv
<1>3. TypeOK'
  BY <1>2 DEF IInv, TypeOK, Call
<1>4. CallsTyped'
  BY <1>1, <1>2, CallKinds DEF IInv, CallsTyped
<1>5. StorageInv'
  BY <1>1, <1>2, StorageStands, CallKinds DEF IInv
<1>6. StatusIsTheirs'
  BY <1>1, <1>2, CallKinds, NewJobType DEF IInv, StatusInv, StatusIsTheirs
<1>7. CountsAreCompletes'
  BY <1>1, <1>2, CallKinds, NewJobType DEF IInv, StatusInv, CountsAreCompletes
<1>8. Rows' = Rows  BY SameRows
<1>9. WaitingInv'
  <2> SUFFICES ASSUME ~overlapped PROVE /\ OneInFlight' /\ CountIsOfRows'
                                        /\ call'[Kill].pc = "unsent" => ErrorsAppended'
    BY DEF WaitingInv
  <2>1. OneInFlight /\ CountIsOfRows /\ (call[Kill].pc = "unsent" => ErrorsAppended)
    BY DEF IInv, WaitingInv
  <2>2. \A d \in Calls : /\ InFlight(d)' => InFlight(d)
                         /\ call'[d].pc = "unsent" => call[d].pc = "unsent"
    BY <1>1, <1>2 DEF InFlight
  <2>3. c = Complete => call[Complete].pc = "emitting"
    BY CallKinds
  <2>4. OneInFlight'
    BY <1>1, <1>2, <2>1, <2>2, <2>3, CallKinds DEF OneInFlight, WorkerCalls
  <2>5. CountIsOfRows'
    BY <1>1, <1>2, <1>8, <2>1, CallKinds DEF CountIsOfRows
  <2>6. ASSUME call'[Kill].pc = "unsent" PROVE ErrorsAppended'
    <3>1. ErrorsAppended /\ c # Kill
      BY <1>1, <1>2, <2>1, <2>6, CallKinds
    <3> SUFFICES ASSUME NEW d \in WorkerCalls
                 PROVE  /\ call'[d].pc \in {"upserting", "counting", "read", "loaded"} =>
                             call'[d].mem.errorLog =
                               job.errorLog \cup {e \in {d} : call'[e].errors}
                        /\ call'[d].pc = "loaded" =>
                             "errorLog" \in call'[d].dirty
                               \/ call'[d].mem.errorLog = job.errorLog
                        /\ call'[d].pc \in {"emitting", "answered"} /\ call'[d].errors =>
                             d \in job.errorLog
      BY DEF ErrorsAppended
    <3>2. CASE d = c
      BY <1>1, <1>2, <3>1, <3>2 DEF ErrorsAppended
    <3>3. CASE d # c
      <4>1. call'[d] = call[d]
        BY <1>2, <3>3, CallKinds
      <4>2. {e \in {d} : call'[e].errors} = {e \in {d} : call[e].errors}
        BY <4>1
      <4>. QED  BY <3>1, <4>1, <4>2 DEF ErrorsAppended
    <3>. QED  BY <3>2, <3>3
  <2>. QED  BY <2>4, <2>5, <2>6
<1>10. ComputedCountsMatch'
  <2>1. call'[Complete].reported = call[Complete].reported
    BY <1>1, <1>2, CallKinds
  <2>. QED  BY <1>8, <2>1 DEF IInv, ComputedCountsMatch
<1>. QED  BY <1>3, <1>4, <1>5, <1>6, <1>7, <1>9, <1>10 DEF IInv, StatusInv

LEMMA EndBatchInv ==
    ASSUME IInv, NEW b \in Batches, EndBatch(b)
    PROVE  IInv'
<1>1. /\ b \in Calls /\ b # Complete /\ b \in WorkerCalls /\ CallsTyped /\ call[b] \in Call
      /\ call[b].pc = "upserting" /\ call[b].todo = <<>> /\ InFlight(b)
      /\ UNCHANGED <<stored, job, hubs, stream, overlapped>>
  BY CallKinds, CallRecord DEF IInv, EndBatch, WorkerCalls, InFlight
<1>2. CASE call' = [call EXCEPT ![b].pc = "read"]
  <2> DEFINE v == [call[b] EXCEPT !.pc = "read"]
  <2>1. call' = [call EXCEPT ![b] = v]
    BY <1>1, <1>2 DEF EndBatch, CallsTyped
  <2>2. /\ v \in Call /\ v.pc = "read" /\ v.mem = call[b].mem /\ v.sent = call[b].sent
        /\ v.todo = call[b].todo /\ v.errors = call[b].errors
        /\ v.reported = call[b].reported
    BY <1>1 DEF Call, Pcs
  <2> HIDE DEF v
  <2>. QED  BY <1>1, <2>1, <2>2, GoOnInv
<1>3. CASE ~call[b].errors /\ Done(b, "answered")
  <2>1. /\ hubs' \in [Calls \cup Streams -> SUBSET Streams]
        /\ stream' \in [Streams -> {"closed", "reading", "live", "told"}]
    BY <1>1 DEF IInv, TypeOK
  <2>. QED  BY <1>1, <1>3, <2>1, EndInv
<1>. QED  BY <1>2, <1>3 DEF EndBatch

LEMMA EmitEndInv ==
    ASSUME IInv, NEW c \in Calls, EmitEnd(c)
    PROVE  IInv'
<1>1. /\ call[c].pc = "emitting" /\ Done(c, "answered")
      /\ UNCHANGED <<stored, job, overlapped>>
  BY DEF EmitEnd
<1>2. hubs' \in [Calls \cup Streams -> SUBSET Streams]
  BY DEF EmitEnd, IInv, TypeOK
<1>3. stream' \in [Streams -> {"closed", "reading", "live", "told"}]
  BY DEF EmitEnd, IInv, TypeOK
<1>. QED  BY <1>1, <1>2, <1>3, EndInv

-----------------------------------------------------------------------------
(* The user's call, and what a save writes *)

\* The user's call reads the job, and loads it again to compare.
LEMMA KillInv ==
    ASSUME IInv, Cancel \/ Load(Kill)
    PROVE  IInv'
<1>1. /\ Kill \in Calls /\ Kill # Complete /\ CallsTyped /\ call[Kill] \in Call
      /\ UNCHANGED <<stored, job, hubs, stream, overlapped>> /\ job \in Job
      /\ \A b \in Batches : b # Kill
  BY CallKinds, CallRecord DEF IInv, Cancel, Load, CallsTyped
<1>2. PICK v \in Call :
        /\ call' = [call EXCEPT ![Kill] = v] /\ v.mem.status = "cancelled"
        /\ v.pc \in {"read", "loaded"} /\ v.errors = call[Kill].errors
        /\ v.pc = "loaded" => "status" \in v.dirty
        /\ v.mem.findingCounts \in {job.findingCounts, call[Kill].mem.findingCounts}
        /\ job.status # "cancelled"
  <2>1. CASE Cancel
    <3> DEFINE mem == [job EXCEPT !.status = "cancelled"]
               w == [call[Kill] EXCEPT !.pc = "read", !.mem = mem]
    <3>1. mem \in Job /\ mem.status = "cancelled" /\ mem.findingCounts = job.findingCounts
      BY <1>1 DEF Job
    <3>2. call' = [call EXCEPT ![Kill] = w] /\ job.status = "open"
      BY <1>1, <2>1 DEF Cancel, CallsTyped
    <3> HIDE DEF mem
    <3>3. w \in Call /\ w.pc = "read" /\ w.mem = mem /\ w.errors = call[Kill].errors
      BY <1>1, <3>1 DEF Call, Pcs
    <3> HIDE DEF w
    <3>. QED  BY <3>1, <3>2, <3>3
  <2>2. CASE Load(Kill)
    <3> DEFINE dirty == {col \in Columns : call[Kill].mem[col] # job[col]}
               w == [call[Kill] EXCEPT !.pc = "loaded", !.dirty = dirty]
    <3>1. call' = [call EXCEPT ![Kill] = w] /\ call[Kill].pc = "read"
      BY <1>1, <2>2 DEF Load, CallsTyped
    <3>2. call[Kill].mem.status = "cancelled" /\ job.status # "cancelled"
      BY <3>1 DEF IInv, StatusInv, StatusIsTheirs
    <3>3. dirty \in SUBSET Columns /\ "status" \in dirty
      BY <3>2 DEF Columns
    <3> HIDE DEF dirty
    <3>4. /\ w \in Call /\ w.pc = "loaded" /\ w.mem = call[Kill].mem /\ w.dirty = dirty
          /\ w.errors = call[Kill].errors
      BY <1>1, <3>3 DEF Call, Pcs
    <3> HIDE DEF w
    <3>. QED  BY <3>1, <3>2, <3>3, <3>4
  <2>. QED  BY <2>1, <2>2
<1>3. /\ call' \in [Calls -> Call] /\ call'[Kill] = v
      /\ \A d \in Calls \ {Kill} : call'[d] = call[d]
  BY <1>1, <1>2, OneCall
<1>4. TypeOK' /\ CallsTyped'
  BY <1>1, <1>2, <1>3, CallKinds DEF IInv, TypeOK, CallsTyped, Call
<1>5. StorageInv'
  BY <1>1, <1>3, StorageStands, CallKinds DEF IInv
<1>6. StatusIsTheirs'
  BY <1>1, <1>2, <1>3, CallKinds DEF IInv, StatusInv, StatusIsTheirs
<1>7. CountsAreCompletes'
  BY <1>1, <1>2, <1>3, CallKinds DEF IInv, StatusInv, CountsAreCompletes
<1>8. Rows' = Rows  BY <1>1, SameRows
<1>9. WaitingInv'
  <2> SUFFICES ASSUME ~overlapped PROVE OneInFlight' /\ CountIsOfRows'
    BY <1>1, <1>2, <1>3 DEF WaitingInv
  <2>1. OneInFlight /\ CountIsOfRows
    BY DEF IInv, WaitingInv
  <2>2. \A d \in WorkerCalls : call'[d] = call[d]
    BY <1>3, CallKinds
  <2>3. OneInFlight'
    BY <2>1, <2>2, CallKinds DEF OneInFlight, WorkerCalls, InFlight
  <2>4. CountIsOfRows'
    BY <1>1, <1>3, <1>8, <2>1, CallKinds DEF CountIsOfRows
  <2>. QED  BY <2>3, <2>4
<1>10. ComputedCountsMatch'
  BY <1>1, <1>3, <1>8, CallKinds DEF IInv, ComputedCountsMatch
<1>. QED  BY <1>4, <1>5, <1>6, <1>7, <1>9, <1>10 DEF IInv, StatusInv

\* A save writes the columns that differed when it loaded the row.
LEMMA WrittenJob ==
    ASSUME CallsTyped, NEW c \in Calls,
           job' = [col \in Columns |->
                     IF col \in call[c].dirty THEN call[c].mem[col] ELSE job[col]]
    PROVE  /\ job' \in Job
           /\ job'.status = IF "status" \in call[c].dirty
                            THEN call[c].mem.status ELSE job.status
           /\ job'.errorLog = IF "errorLog" \in call[c].dirty
                              THEN call[c].mem.errorLog ELSE job.errorLog
           /\ job'.findingCounts = IF "findingCounts" \in call[c].dirty
                                   THEN call[c].mem.findingCounts ELSE job.findingCounts
<1>1. job \in Job /\ call[c].mem \in Job
  BY CallRecord DEF CallsTyped
<1>2. job' = [status |-> job'.status, errorLog |-> job'.errorLog,
              findingCounts |-> job'.findingCounts]
  BY DEF Columns
<1>3. /\ job'.status = IF "status" \in call[c].dirty
                       THEN call[c].mem.status ELSE job.status
      /\ job'.errorLog = IF "errorLog" \in call[c].dirty
                         THEN call[c].mem.errorLog ELSE job.errorLog
      /\ job'.findingCounts = IF "findingCounts" \in call[c].dirty
                              THEN call[c].mem.findingCounts ELSE job.findingCounts
  BY DEF Columns
<1>4. /\ job'.status \in {"open", "ended", "cancelled"} /\ job'.errorLog \in SUBSET Calls
      /\ job'.findingCounts \in Nat \cup {Unset}
  BY <1>1, <1>3 DEF Job
<1>. QED  BY <1>2, <1>3, <1>4 DEF Job

LEMMA WriteInv ==
    ASSUME IInv, NEW c \in Calls, Write(c)
    PROVE  IInv'
<1> DEFINE pc == IF c \in Batches THEN "answered" ELSE "emitting"
           v == Left(c, pc)
<1>1. /\ call[c].pc = "loaded" /\ Done(c, pc) /\ pc \in Pcs /\ CallsTyped
      /\ UNCHANGED <<stored, hubs, stream, overlapped>>
      /\ job' = [col \in Columns |->
                   IF col \in call[c].dirty THEN call[c].mem[col] ELSE job[col]]
  BY DEF IInv, Write, Pcs
<1>2. /\ v \in Call /\ v.pc = pc /\ v.mem = NewJob /\ v.dirty = {}
      /\ v.errors = call[c].errors /\ v.reported = call[c].reported
      /\ v.todo = call[c].todo /\ v.sent = call[c].sent
      /\ call' = [call EXCEPT ![c] = v]
  BY <1>1, DoneEffect
<1> HIDE DEF v
<1>3. /\ call' \in [Calls -> Call] /\ call'[c] = v
      /\ \A d \in Calls \ {c} : call'[d] = call[d]
  BY <1>1, <1>2, OneCall
<1>4. /\ job' \in Job
      /\ job'.status = IF "status" \in call[c].dirty
                       THEN call[c].mem.status ELSE job.status
      /\ job'.errorLog = IF "errorLog" \in call[c].dirty
                         THEN call[c].mem.errorLog ELSE job.errorLog
      /\ job'.findingCounts = IF "findingCounts" \in call[c].dirty
                              THEN call[c].mem.findingCounts ELSE job.findingCounts
  BY <1>1, WrittenJob
<1>5. TypeOK'
  BY <1>1, <1>3, <1>4 DEF IInv, TypeOK, Call, Job
<1>6. CallsTyped'
  BY <1>2, <1>3, <1>4, CallKinds DEF IInv, CallsTyped
<1>7. StorageInv'
  BY <1>1, <1>2, <1>3, StorageStands, CallKinds DEF IInv
<1>8. StatusIsTheirs'
  <2>1. StatusIsTheirs
    BY DEF IInv, StatusInv
  <2>2. /\ \A b \in Batches : call'[b].mem.status = "open"
        /\ call'[Complete].mem.status # "cancelled"
        /\ call'[Kill].mem.status # "ended"
        /\ call'[Kill].pc \in {"read", "loaded"} => call'[Kill].mem.status = "cancelled"
        /\ call'[Kill].pc = "loaded" => "status" \in call'[Kill].dirty
    BY <1>2, <1>3, <2>1, CallKinds, NewJobType DEF StatusIsTheirs
  <2>3. CASE c = Kill
    <3>1. /\ call'[Kill].pc = "emitting" /\ call'[Complete] = call[Complete]
          /\ job'.status = "cancelled"
      BY <1>1, <1>2, <1>3, <1>4, <2>1, <2>3, CallKinds DEF StatusIsTheirs
    <3>. QED  BY <2>2, <3>1 DEF StatusIsTheirs
  <2>4. CASE c # Kill
    <3>1. call'[Kill] = call[Kill]
      BY <1>3, <2>4, CallKinds
    <3>2. call[c].mem.status # "cancelled"
      BY <2>1, <2>4, CallKinds DEF StatusIsTheirs, WorkerCalls
    <3>3. job'.status = "cancelled" => call'[Kill].pc \notin {"unsent", "read", "loaded"}
      BY <1>4, <2>1, <3>1, <3>2 DEF StatusIsTheirs
    <3>4. job'.status = "ended" => call'[Complete].pc \in {"emitting", "answered"}
      <4>1. CASE c = Complete
        BY <1>2, <1>3, <4>1, CallKinds
      <4>2. CASE c # Complete
        <5>1. call[c].mem.status = "open" /\ call'[Complete] = call[Complete]
          BY <1>3, <2>1, <2>4, <4>2, CallKinds DEF StatusIsTheirs, WorkerCalls
        <5>. QED  BY <1>4, <2>1, <5>1 DEF StatusIsTheirs
      <4>. QED  BY <4>1, <4>2
    <3>. QED  BY <2>2, <3>3, <3>4 DEF StatusIsTheirs
  <2>. QED  BY <2>3, <2>4
<1>9. CountsAreCompletes'
  BY <1>1, <1>2, <1>3, <1>4, CallKinds, NewJobType DEF IInv, StatusInv, CountsAreCompletes
<1>10. Rows' = Rows  BY <1>1, SameRows
<1>11. InFlight(c)  BY <1>1 DEF InFlight
<1>12. WaitingInv'
  <2> SUFFICES ASSUME ~overlapped PROVE /\ OneInFlight' /\ CountIsOfRows'
                                        /\ call'[Kill].pc = "unsent" => ErrorsAppended'
    BY <1>1 DEF WaitingInv
  <2>1. OneInFlight /\ CountIsOfRows /\ (call[Kill].pc = "unsent" => ErrorsAppended)
    BY DEF IInv, WaitingInv
  <2>2. \A d \in Calls : /\ InFlight(d)' => InFlight(d)
                         /\ call'[d].pc = "unsent" => call[d].pc = "unsent"
    BY <1>1, <1>2, <1>3 DEF InFlight
  <2>3. OneInFlight'
    BY <1>1, <1>2, <1>3, <2>1, <2>2, CallKinds DEF OneInFlight, WorkerCalls
  <2>4. CountIsOfRows'
    BY <1>2, <1>3, <1>10, <2>1, CallKinds DEF CountIsOfRows
  <2>5. ASSUME call'[Kill].pc = "unsent" PROVE ErrorsAppended'
    <3>1. ErrorsAppended /\ c # Kill /\ c \in WorkerCalls
      BY <1>2, <1>3, <2>1, <2>5, CallKinds
    <3>2. job'.errorLog = job.errorLog \cup {d \in {c} : call[d].errors}
      BY <1>1, <1>4, <3>1 DEF ErrorsAppended
    <3> SUFFICES ASSUME NEW d \in WorkerCalls
                 PROVE  /\ call'[d].pc \in {"upserting", "counting", "read", "loaded"} =>
                             call'[d].mem.errorLog =
                               job'.errorLog \cup {e \in {d} : call'[e].errors}
                        /\ call'[d].pc = "loaded" =>
                             "errorLog" \in call'[d].dirty
                               \/ call'[d].mem.errorLog = job'.errorLog
                        /\ call'[d].pc \in {"emitting", "answered"} /\ call'[d].errors =>
                             d \in job'.errorLog
      BY DEF ErrorsAppended
    <3>3. CASE d = c
      BY <1>2, <1>3, <3>2, <3>3
    <3>4. CASE d # c
      <4>1. call'[d] = call[d] /\ ~InFlight(d)
        BY <1>3, <1>11, <2>1, <3>1, <3>4, CallKinds DEF OneInFlight
      <4>2. call[d].pc \notin {"upserting", "counting", "read", "loaded"}
        BY <4>1 DEF InFlight
      <4>. QED  BY <3>1, <3>2, <4>1, <4>2 DEF ErrorsAppended
    <3>. QED  BY <3>3, <3>4
  <2>. QED  BY <2>3, <2>4, <2>5
<1>13. ComputedCountsMatch'
  <2> SUFFICES ASSUME job'.status = "ended", call[Complete].reported = Unset, ~overlapped
               PROVE  job'.findingCounts = Rows
    BY <1>1, <1>2, <1>3, <1>10, CallKinds DEF ComputedCountsMatch
  <2>1. CASE c = Complete
    <3>1. call[Complete].mem.findingCounts = Rows
      BY <1>1, <2>1 DEF IInv, WaitingInv, CountIsOfRows
    <3>2. Rows # Unset
      BY RowsCounted DEF Unset
    <3>3. "findingCounts" \in call[Complete].dirty
      BY <1>1, <2>1, <3>1, <3>2 DEF IInv, StatusInv, CountsAreCompletes
    <3>. QED  BY <1>4, <2>1, <3>1, <3>3
  <2>2. CASE c = Kill
    BY <1>1, <1>4, <2>2 DEF IInv, StatusInv, StatusIsTheirs
  <2>3. CASE c \in Batches
    <3>1. call[Complete].pc = "unsent"
      BY <1>11, <2>3 DEF IInv, WaitingInv, OneInFlight
    <3>2. job.status # "ended" /\ call[c].mem.status # "ended"
      BY <2>3, <3>1 DEF IInv, StatusInv, StatusIsTheirs
    <3>. QED  BY <1>4, <3>2
  <2>. QED  BY <2>1, <2>2, <2>3 DEF Calls
<1>. QED  BY <1>5, <1>6, <1>7, <1>8, <1>9, <1>12, <1>13 DEF IInv, StatusInv

-----------------------------------------------------------------------------
(* The theorems *)

\* What happens to the subscribers touches neither the job nor its calls.
LEMMA SubscribersInv ==
    ASSUME IInv, UNCHANGED <<stored, job, call, overlapped>>, TypeOK'
    PROVE  IInv'
<1>1. CallsTyped' /\ StatusInv'
  BY DEF IInv, CallsTyped, StatusInv, StatusIsTheirs, CountsAreCompletes
<1>2. StorageInv'
  BY DEF IInv, StorageInv, UpsertedSoFar, RowsWereReported
<1>3. WaitingInv' /\ ComputedCountsMatch'
  BY DEF IInv, WaitingInv, OneInFlight, CountIsOfRows, ErrorsAppended, InFlight,
         ComputedCountsMatch, Rows
<1>. QED  BY <1>1, <1>2, <1>3 DEF IInv

LEMMA NextInv == IInv /\ [Next]_vars => IInv'
<1> SUFFICES ASSUME IInv, [Next]_vars PROVE IInv'
  OBVIOUS
<1>1. CASE SendComplete
  BY <1>1, SendCompleteInv
<1>2. CASE Count
  BY <1>2, CountInv
<1>3. ASSUME NEW b \in Batches, SendBatch(b) PROVE IInv'
  BY <1>3, SendBatchInv
<1>4. ASSUME NEW b \in Batches, Upsert(b) PROVE IInv'
  BY <1>4, UpsertInv
<1>5. ASSUME NEW b \in Batches, EndBatch(b) PROVE IInv'
  BY <1>5, EndBatchInv
<1>6. ASSUME NEW c \in Calls, Load(c) PROVE IInv'
  BY <1>6, LoadInv, KillInv, CallKinds
<1>7. ASSUME NEW c \in Calls, Write(c) PROVE IInv'
  BY <1>7, WriteInv
<1>8. ASSUME NEW c \in Calls, EmitEnd(c) PROVE IInv'
  BY <1>8, EmitEndInv
<1>9. CASE Cancel
  BY <1>9, KillInv
<1>10. ASSUME NEW s \in Streams, OpenStream(s) \/ Subscribe(s) PROVE IInv'
  <2>1. stream' \in [Streams -> {"closed", "reading", "live", "told"}]
    BY <1>10 DEF OpenStream, Subscribe, IInv, TypeOK
  <2>2. hubs' \in [Calls \cup Streams -> SUBSET Streams]
    BY <1>10 DEF OpenStream, Subscribe, IInv, TypeOK, Instance
  <2>3. TypeOK'
    BY <1>10, <2>1, <2>2 DEF OpenStream, Subscribe, IInv, TypeOK
  <2>. QED  BY <1>10, <2>3, SubscribersInv DEF OpenStream, Subscribe
<1>11. CASE UNCHANGED vars
  <2>1. TypeOK'
    BY <1>11 DEF IInv, TypeOK, vars
  <2>. QED  BY <1>11, <2>1, SubscribersInv DEF vars
<1>. QED
  BY <1>1, <1>2, <1>3, <1>4, <1>5, <1>6, <1>7, <1>8, <1>9, <1>10, <1>11
  DEF Next, WorkerStep

LEMMA InvHolds == Spec => []IInv
BY InitInv, NextInv, PTL DEF Spec

\* Every reachable row, job, call and subscription is well typed.
THEOREM TypeCorrect == Spec => []TypeOK
<1>1. IInv => TypeOK  BY DEF IInv
<1>. QED  BY <1>1, InvHolds, PTL

\* workerFindings stores every finding of a batch it took in and no row that no
\* batch reported, however batches, upserts and the complete call overlap.
THEOREM BatchesAreStored == Spec => []ReportsAreStored
<1>1. ASSUME IInv PROVE ReportsAreStored
  <2>1. ASSUME NEW b \in Batches,
               call[b].pc = "read" \/ (call[b].pc = "answered" /\ call[b].todo = <<>>),
               NEW i \in DOMAIN call[b].sent
        PROVE  stored[call[b].sent[i].key] # NoRow
    <3>1. call[b].sent \in Seq(Findings) /\ UpsertedSoFar(b) /\ CallsTyped
      BY <1>1, CallKinds, CallRecord DEF IInv, StorageInv
    <3>2. i \in 1..Len(call[b].sent)
      BY <3>1, SeqFacts
    <3>3. PICK n \in Nat :
            /\ n + Len(call[b].todo) = Len(call[b].sent)
            /\ Len(call[b].sent) \in Nat /\ Len(call[b].todo) \in Nat
            /\ \A j \in 1..n : stored[call[b].sent[j].key] # NoRow
            /\ call[b].pc \in {"read", "loaded"} => n = Len(call[b].sent)
      BY <3>1, BatchProgress
    <3>4. n = Len(call[b].sent)
      <4>1. CASE call[b].pc = "read"
        BY <3>3, <4>1
      <4>2. CASE call[b].todo = <<>>
        <5>1. Len(call[b].todo) = 0
          BY <4>2, EmptySeq
        <5>. QED  BY <3>3, <5>1
      <4>. QED  BY <2>1, <4>1, <4>2
    <3>. QED  BY <3>2, <3>3, <3>4
  <2>2. RowsWereReported
    BY <1>1 DEF IInv, StorageInv
  <2>. QED  BY <2>1, <2>2 DEF ReportsAreStored, RowsWereReported
<1>. QED  BY <1>1, InvHolds, PTL

\* computeCounts counts the rows that are there when the job has ended, if the
\* worker waits for its answers.
THEOREM CountsAreOfTheRows == Spec => []ComputedCountsMatch
<1>1. IInv => ComputedCountsMatch  BY DEF IInv
<1>. QED  BY <1>1, InvHolds, PTL

\* workerFindings and workerComplete lose no phase error, if the worker waits for
\* its answers and nobody cancels, although each saves an entity read long before.
THEOREM ErrorsAreKept == Spec => []AnsweredErrorsKept
<1>1. ASSUME IInv PROVE AnsweredErrorsKept
  <2>1. CallsTyped /\ (~overlapped /\ call[Kill].pc = "unsent" => ErrorsAppended)
    BY <1>1 DEF IInv, WaitingInv
  <2>2. ~call[Kill].errors
    BY <2>1 DEF CallsTyped
  <2>. QED  BY <2>1, <2>2, CallKinds DEF AnsweredErrorsKept, ErrorsAppended
<1>. QED  BY <1>1, InvHolds, PTL

-----------------------------------------------------------------------------
(* The live stream *)

\* The hub of a request's service instance has no subscriber but that request.
HubsAreOwn == \A i \in Calls \cup Streams : hubs[i] \subseteq {i}

\* A subscriber that waits for events goes on waiting.
LiveStreamsStayLive == [][\A s \in Streams : stream[s] = "live" => stream'[s] = "live"]_vars

LEMMA HubsStay ==
    ASSUME TypeOK, HubsAreOwn, [Next]_vars
    PROVE  HubsAreOwn'
<1>1. ASSUME NEW c \in Calls, EmitEnd(c) PROVE HubsAreOwn'
  BY <1>1 DEF EmitEnd, Instance, HubsAreOwn, TypeOK
<1>2. ASSUME NEW s \in Streams, Subscribe(s) PROVE HubsAreOwn'
  BY <1>2 DEF Subscribe, Instance, HubsAreOwn, TypeOK
<1>3. CASE UNCHANGED hubs
  BY <1>3 DEF HubsAreOwn
<1>. QED
  BY <1>1, <1>2, <1>3
  DEF Next, WorkerStep, SendComplete, Count, SendBatch, Upsert, EndBatch, Cancel, Load, Write,
      OpenStream, vars

LEMMA NobodyIsTold ==
    ASSUME TypeOK, HubsAreOwn, [Next]_vars, NEW s \in Streams, stream[s] = "live"
    PROVE  stream'[s] = "live"
<1>1. ASSUME NEW c \in Calls, EmitEnd(c) PROVE stream'[s] = "live"
  <2>1. s \notin hubs[c]
    BY RequestsApart DEF HubsAreOwn
  <2>. QED  BY <1>1, <2>1 DEF EmitEnd, Hears, Instance
<1>2. ASSUME NEW z \in Streams, OpenStream(z) \/ Subscribe(z) PROVE stream'[s] = "live"
  BY <1>2 DEF OpenStream, Subscribe, TypeOK
<1>3. CASE UNCHANGED stream
  BY <1>3
<1>. QED
  BY <1>1, <1>2, <1>3
  DEF Next, WorkerStep, SendComplete, Count, SendBatch, Upsert, EndBatch, Cancel, Load, Write,
      vars

\* emit tells no subscriber of stream() of the end, whatever the job, its calls and the
\* number of subscribers: each of them has subscribed to a hub that no other request sees.
THEOREM SubscribersHearNothing == Spec => LiveStreamsStayLive
<1>1. Init => HubsAreOwn
  BY DEF Init, HubsAreOwn
<1>2. IInv /\ HubsAreOwn /\ [Next]_vars => HubsAreOwn'
  BY HubsStay DEF IInv
<1>3. IInv /\ HubsAreOwn /\ [Next]_vars =>
        [\A s \in Streams : stream[s] = "live" => stream'[s] = "live"]_vars
  BY NobodyIsTold DEF IInv
<1>. QED  BY <1>1, <1>2, <1>3, InvHolds, PTL DEF Spec, LiveStreamsStayLive
=============================================================================

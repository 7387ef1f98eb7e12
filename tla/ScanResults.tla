---------------------------- MODULE ScanResults -----------------------------
(***************************************************************************)
(* What the API makes of a worker's results for one claimed job:           *)
(* workerFindings upserts a batch row by row and appends its phase errors  *)
(* to the job, workerComplete fixes the counts, and stream() replays and   *)
(* then follows the job over SSE.                                          *)
(*                                                                         *)
(* Each handler is a run of awaits between which the others move, and both *)
(* save the job entity they loaded at the start (Load and Write, as in     *)
(* ActiveScanJobs, whose subject the status column is; here a finished or  *)
(* cancelled job is just told from an open one).  The worker is external:  *)
(* it may give up on a slow answer and go on with its next call, and       *)
(* `overlapped' remembers that it did.                                     *)
(***************************************************************************)
EXTENDS Integers, FiniteSets, Sequences

CONSTANTS
    Keys,           \* dedup keys: sha1(host|port|source|check)
    MaxRank,        \* severities are ranked 0..MaxRank (4 in SEVERITY_ORDER)
    Batches,        \* findings calls; each is sent once
    Contents,       \* the finding sequences a batch may hold
    Streams,        \* SSE subscriptions
    Complete,       \* the complete call
    Kill,           \* the user's cancel call
    WorkerCounts    \* findingCounts totals the worker may send; Unset for none

Unset == -1         \* null
Severities == 0..MaxRank
Findings == [key: Keys, severity: Severities]

ASSUME KeysFinite == IsFiniteSet(Keys)
ASSUME ContentsType == Contents \subseteq Seq(Findings)
ASSUME RankAssumption == MaxRank \in Nat
ASSUME CountsType == WorkerCounts \subseteq Nat \cup {Unset}
ASSUME CallsAssumption == Complete \notin Batches /\ Kill \notin Batches \cup {Complete}

VARIABLES
    stored,     \* active_scan_findings: the severity of each key's row
    job,        \* the job's status, errorLog and findingCounts.total
    call,       \* the findings and complete calls
    hubs,       \* the subscribers in each service instance's hub
    stream,     \* what each subscription has reached
    overlapped  \* history: the worker sent a call before the last was answered

vars == <<stored, job, call, hubs, stream, overlapped>>

NoRow == -1
Calls == Batches \cup {Complete, Kill}

\* A subscription is an HTTP request of its own.
ASSUME RequestsApart == Streams \cap Calls = {}

Columns == {"status", "errorLog", "findingCounts"}

\* errorLog is the set of calls whose errors it holds.
NewJob == [status |-> "open", errorLog |-> {}, findingCounts |-> Unset]

Init ==
    /\ stored = [k \in Keys |-> NoRow]
    /\ job = NewJob
    /\ \E content \in [Batches -> Contents], errors \in [Batches \cup {Complete} -> BOOLEAN] :
         call = [c \in Calls |->
                   [pc |-> "unsent", errors |-> c # Kill /\ errors[c],
                    todo |-> IF c \in Batches THEN content[c] ELSE <<>>,
                    sent |-> IF c \in Batches THEN content[c] ELSE <<>>,
                    mem |-> NewJob, dirty |-> {}, reported |-> Unset]]
    /\ hubs = [i \in Calls \cup Streams |-> {}]
    /\ stream = [s \in Streams |-> "closed"]
    /\ overlapped = FALSE

Pcs == {"unsent", "upserting", "counting", "read", "loaded", "emitting", "answered"}

TypeOK ==
    /\ stored \in [Keys -> Severities \cup {NoRow}]
    /\ job.status \in {"open", "ended", "cancelled"}
    /\ job.errorLog \subseteq Calls
    /\ job.findingCounts \in Nat \cup {Unset}
    /\ \A c \in Calls : call[c].pc \in Pcs /\ call[c].dirty \subseteq Columns
    /\ hubs \in [Calls \cup Streams -> SUBSET Streams]
    /\ stream \in [Streams -> {"closed", "reading", "live", "told"}]
    /\ overlapped \in BOOLEAN

InFlight(c) == call[c].pc \notin {"unsent", "answered"}

\* The worker makes its next call, be the last one answered or not.
Send(c) ==
    /\ call[c].pc = "unsent"
    /\ call[Complete].pc = "unsent"
    /\ overlapped' = (overlapped \/ \E d \in Calls \ {Kill} : InFlight(d))

\* Every service instance is its request's own: ActiveScanService depends on the
\* request-scoped PlanCapsService, so Nest builds it anew for each request.
Instance(request) == request

\* emit: the event goes to whoever is in the hub of the caller's instance.
Hears(s, request) == s \in hubs[Instance(request)]

\* Call c goes to pc; the entity it held is not used again.
Done(c, pc) ==
    call' = [call EXCEPT ![c].pc = pc, ![c].mem = NewJob, ![c].dirty = {}]

-----------------------------------------------------------------------------
(* workerFindings *)

\* Mutant: the batch's errors replace the log instead of being appended.
AppendedOverwrites(c) == [job EXCEPT !.errorLog = {d \in {c} : call[d].errors}]

\* Errors are appended to the entity's log at the end of the batch; no one else
\* sees the entity before, so it is the same as appending them here.
Appended(c) == [job EXCEPT !.errorLog = @ \cup {d \in {c} : call[d].errors}]

SendBatch(b) ==
    /\ Send(b)
    /\ IF job.status = "cancelled"
       THEN Done(b, "answered")
       ELSE call' = [call EXCEPT ![b].pc = "upserting", ![b].mem = Appended(b)]
    /\ UNCHANGED <<stored, job, hubs, stream>>

\* ON CONFLICT (jobId, dedupKey) DO UPDATE: the rank parameter and EXCLUDED are
\* both the incoming finding's.
Merge(old, incoming) ==
    LET excluded == incoming
    IN  IF incoming >= excluded THEN excluded ELSE old

\* Mutant: ranks counted from one.
UpsertedFromOne(old, incoming) == Merge(old, incoming + 1)

Upserted(old, incoming) == IF old = NoRow THEN incoming ELSE Merge(old, incoming)

Upsert(b) ==
    /\ call[b].pc = "upserting" /\ call[b].todo # <<>>
    /\ LET f == Head(call[b].todo)
       IN  stored' = [stored EXCEPT ![f.key] = Upserted(@, f.severity)]
    /\ call' = [call EXCEPT ![b].todo = Tail(@)]
    /\ UNCHANGED <<job, hubs, stream, overlapped>>

\* Mutant: the batch is cut off before its last findings are upserted.
EndBatchEarly(b) ==
    /\ call[b].pc = "upserting"
    /\ \/ call' = [call EXCEPT ![b].pc = "read"]
       \/ ~call[b].errors /\ Done(b, "answered")
    /\ UNCHANGED <<stored, job, hubs, stream, overlapped>>

\* A batch with errors or with host summaries, which are merged into a column left
\* out here, saves the whole entity; one without either does not touch the job.
EndBatch(b) ==
    /\ call[b].pc = "upserting" /\ call[b].todo = <<>>
    /\ \/ call' = [call EXCEPT ![b].pc = "read"]
       \/ ~call[b].errors /\ Done(b, "answered")
    /\ UNCHANGED <<stored, job, hubs, stream, overlapped>>

-----------------------------------------------------------------------------
(* workerComplete *)

SendComplete ==
    /\ Send(Complete)
    /\ IF job.status = "cancelled"
       THEN Done(Complete, "answered")
       ELSE \E reported \in WorkerCounts :
              call' = [call EXCEPT ![Complete].pc = "counting",
                                   ![Complete].mem = [Appended(Complete) EXCEPT
                                                        !.status = "ended"],
                                   ![Complete].reported = reported]
    /\ UNCHANGED <<stored, job, hubs, stream>>

\* computeCounts: rows of the job.
Rows == Cardinality({k \in Keys : stored[k] # NoRow})

\* Mutant: findings are counted as they are reported, duplicates too.
CountsOfReports(reported) ==
    Cardinality(UNION {{<<b, i>> : i \in DOMAIN call[b].sent} :
                         b \in {d \in Batches : call[d].pc = "answered"}})

\* findingCounts ?? computeCounts()
Counts(reported) == IF reported = Unset THEN Rows ELSE reported

Count ==
    /\ call[Complete].pc = "counting"
    /\ call' = [call EXCEPT ![Complete].pc = "read",
                            ![Complete].mem.findingCounts = Counts(call[Complete].reported)]
    /\ UNCHANGED <<stored, job, hubs, stream, overlapped>>

-----------------------------------------------------------------------------
(* cancelJob, and jobs.save() *)

Cancel ==
    /\ call[Kill].pc = "unsent" /\ job.status = "open"
    /\ call' = [call EXCEPT ![Kill].pc = "read",
                            ![Kill].mem = [job EXCEPT !.status = "cancelled"]]
    /\ UNCHANGED <<stored, job, hubs, stream, overlapped>>

Load(c) ==
    /\ call[c].pc = "read"
    /\ call' = [call EXCEPT ![c].pc = "loaded",
                            ![c].dirty = {col \in Columns :
                                            call[c].mem[col] # job[col]}]
    /\ UNCHANGED <<stored, job, hubs, stream, overlapped>>

Write(c) ==
    /\ call[c].pc = "loaded"
    /\ job' = [col \in Columns |->
                 IF col \in call[c].dirty THEN call[c].mem[col] ELSE job[col]]
    /\ Done(c, IF c \in Batches THEN "answered" ELSE "emitting")
    /\ UNCHANGED <<stored, hubs, stream, overlapped>>

\* emit(`complete') or emit(`error'), and closeHub.
EmitEnd(c) ==
    /\ call[c].pc = "emitting"
    /\ stream' = [s \in Streams |-> IF Hears(s, c) THEN "told" ELSE stream[s]]
    /\ hubs' = [hubs EXCEPT ![Instance(c)] = {}]
    /\ Done(c, "answered")
    /\ UNCHANGED <<stored, job, overlapped>>

-----------------------------------------------------------------------------
(* stream *)

\* The job is read; a finished one is answered from the row and closed.
OpenStream(s) ==
    /\ stream[s] = "closed"
    /\ stream' = [stream EXCEPT ![s] = IF job.status = "open" THEN "reading" ELSE "told"]
    /\ UNCHANGED <<stored, job, call, hubs, overlapped>>

\* The stored findings are read and replayed, and the hub is subscribed to.
Subscribe(s) ==
    /\ stream[s] = "reading"
    /\ stream' = [stream EXCEPT ![s] = "live"]
    /\ hubs' = [hubs EXCEPT ![Instance(s)] = @ \cup {s}]
    /\ UNCHANGED <<stored, job, call, overlapped>>

-----------------------------------------------------------------------------
WorkerStep ==
    \/ SendComplete \/ Count
    \/ \E b \in Batches : SendBatch(b) \/ Upsert(b) \/ EndBatch(b)
    \/ \E c \in Calls : Load(c) \/ Write(c) \/ EmitEnd(c)

Next ==
    \/ WorkerStep \/ Cancel
    \/ \E s \in Streams : OpenStream(s) \/ Subscribe(s)

Spec == Init /\ [][Next]_vars

\* The worker gets to its complete call and the API answers its calls.
FairSpec == Spec /\ WF_vars(WorkerStep)

-----------------------------------------------------------------------------
\* However batches, upserts and the complete call overlap, a batch that was
\* taken in is stored whole, and a stored row is one that some batch reported.
ReportsAreStored ==
    /\ \A b \in Batches : call[b].pc = "read" \/ (call[b].pc = "answered" /\ call[b].todo = <<>>) =>
         \A i \in DOMAIN call[b].sent : stored[call[b].sent[i].key] # NoRow
    /\ \A k \in Keys : stored[k] # NoRow =>
         \E b \in Batches : \E i \in DOMAIN call[b].sent :
            call[b].sent[i] = [key |-> k, severity |-> stored[k]]

\* Counts the API computed itself are those of the stored rows, however often a
\* finding was reported, when the worker waits for its answers.
ComputedCountsMatch ==
    job.status = "ended" /\ call[Complete].reported = Unset /\ ~overlapped =>
        job.findingCounts = Rows

\* When the worker waits for its answers and nobody cancels, no phase error of
\* an answered call is lost.
AnsweredErrorsKept ==
    ~overlapped /\ call[Kill].pc = "unsent" =>
        \A c \in Calls : call[c].pc = "answered" /\ call[c].errors => c \in job.errorLog

\* `keep highest severity on conflict'.
HighestSeverityKept == [][\A k \in Keys : stored'[k] >= stored[k]]_vars

\* `fans SSE events out to subscribed users': a subscriber hears of the end.
SubscriberHearsTheEnd ==
    \A s \in Streams : stream[s] = "live" /\ job.status = "ended" ~> stream[s] = "told"
=============================================================================

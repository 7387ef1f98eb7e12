------------------------------ MODULE AutoScan ------------------------------
(***************************************************************************)
(* Background scans of a testing request (AutoScanService): runScan and    *)
(* executeScan with its two tiers of scanners, each raced against a master *)
(* timeout, and the admins' decisions on the findings (promoteFinding and  *)
(* dismissFinding), which may overlap.                                     *)
(*                                                                         *)
(* A scanner answers when it likes, or never; what it answers is how many  *)
(* findings it has, or that it failed.  A timeout may fire whenever the    *)
(* race is open: the limits of the tiers are left out.  Runs share no row, *)
(* whether the request's creation or an admin's rescan started them.       *)
(***************************************************************************)
EXTENDS Integers, FiniteSets

CONSTANTS
    Runs,
    Tier1, Tier2,           \* scanners
    Promotes, Dismisses,    \* decisions; each is taken once
    MaxFound,               \* bound on a scanner's findings
    ChunkSize               \* findings per INSERT

Scanners == Tier1 \cup Tier2
Decisions == Promotes \cup Dismisses

ASSUME TiersAssumption == Tier1 # {} /\ Tier1 \cap Tier2 = {} /\ IsFiniteSet(Scanners)
ASSUME RunsFinite == IsFiniteSet(Runs)
ASSUME DecisionsDisjoint == Promotes \cap Dismisses = {}
ASSUME SizesAssumption == MaxFound \in Nat /\ ChunkSize \in Nat \ {0}

VARIABLES
    tier2Enabled,   \* AUTOSCAN_TIER_2_ENABLED
    run,            \* the auto_scan_runs rows
    scan,           \* each run's execution: its place, and its races
    rows,           \* the auto_scan_findings rows
    promoted, dismissed,    \* their columns promotedToReport and dismissed
    decision,       \* what each decision holds
    met             \* history: decisions that overlapped one on the same finding

vars == <<tier2Enabled, run, scan, rows, promoted, dismissed, decision, met>>
marks == <<promoted, dismissed, decision, met>>

\* A finding is the n-th of a scanner in a run.
Findings == Runs \X Scanners \X (1..MaxFound)

\* The maps tier1Status and tier2Status in one; "null" where there is no entry.
\* findingCounts is -1 for null.
Run == [status: {"none", "pending", "running", "complete", "partial", "failed"},
        outcomes: [Scanners -> {"null", "ok", "failed", "skipped"}],
        findingCounts: -1..Cardinality(Findings)]

\* race: how withTimeout stands; answered, found: what the scanner itself has done.
Race == [race: {"idle", "open", "ok", "failed"}, answered: BOOLEAN, found: 0..MaxFound]

Scan == [pc: {"none", "scheduled", "tier1", "tier2", "saving", "closing", "over", "dead"},
         races: [Scanners -> Race], toInsert: SUBSET Findings]

Decision == [pc: {"waiting", "save", "update", "done"}, finding: Findings \cup {<<>>},
             dirty: SUBSET {"promoted", "dismissed"}]

TypeOK ==
    /\ tier2Enabled \in BOOLEAN
    /\ run \in [Runs -> Run]
    /\ scan \in [Runs -> Scan]
    /\ rows \subseteq Findings
    /\ promoted \subseteq rows /\ dismissed \subseteq rows
    /\ decision \in [Decisions -> Decision]
    /\ met \subseteq Decisions

Init ==
    /\ tier2Enabled \in BOOLEAN
    /\ run = [r \in Runs |-> [status |-> "none", outcomes |-> [s \in Scanners |-> "null"],
                              findingCounts |-> -1]]
    /\ scan = [r \in Runs |->
                [pc |-> "none", toInsert |-> {},
                 races |-> [s \in Scanners |->
                              [race |-> "idle", answered |-> FALSE, found |-> 0]]]]
    /\ rows = {} /\ promoted = {} /\ dismissed = {}
    /\ decision = [d \in Decisions |-> [pc |-> "waiting", finding |-> <<>>, dirty |-> {}]]
    /\ met = {}

RaceOf(r, s) == scan[r].races[s].race

-----------------------------------------------------------------------------
(* runScan and executeScan *)

\* A run of a target that is not blocklisted; a blocked one leaves no row.
RunScan(r) ==
    /\ scan[r].pc = "none"
    /\ run' = [run EXCEPT ![r].status = "pending"]
    /\ scan' = [scan EXCEPT ![r].pc = "scheduled"]
    /\ UNCHANGED <<tier2Enabled, rows, marks>>

\* The scanners of a tier start together.
Started(races, tier) ==
    [s \in Scanners |-> IF s \in tier THEN [races[s] EXCEPT !.race = "open"] ELSE races[s]]

Start(r) ==
    /\ scan[r].pc = "scheduled"
    /\ run' = [run EXCEPT ![r].status = "running"]
    /\ scan' = [scan EXCEPT ![r].pc = "tier1", ![r].races = Started(@, Tier1)]
    /\ UNCHANGED <<tier2Enabled, rows, marks>>

\* Mutant: an answer that comes after the timeout is taken after all.
TakenLate(race, outcome) == IF race = "idle" THEN "idle" ELSE outcome

\* What Promise.race makes of an answer: only an open race is decided by it.
Decided(race, outcome) == IF race = "open" THEN outcome ELSE race

\* A scanner resolves, in time or not: with n findings or as failed.
Answer(r, s) ==
    /\ scan[r].pc \notin {"over", "dead"}
    /\ RaceOf(r, s) # "idle" /\ ~scan[r].races[s].answered
    /\ \E outcome \in {"ok", "failed"}, n \in 0..MaxFound :
         /\ outcome = "failed" => n = 0
         /\ scan' = [scan EXCEPT ![r].races[s] =
                       [race |-> Decided(@.race, outcome), answered |-> TRUE, found |-> n]]
    /\ UNCHANGED <<tier2Enabled, run, rows, marks>>

\* Mutant: only the scanner's own answer ends the race.
NoTimeout(r, s) == FALSE

MayTimeOut(r, s) == RaceOf(r, s) = "open"

\* The master timeout: the scanner counts as failed, with no findings.
TimeOut(r, s) ==
    /\ scan[r].pc \in {"tier1", "tier2"}
    /\ MayTimeOut(r, s)
    /\ scan' = [scan EXCEPT ![r].races[s].race = "failed"]
    /\ UNCHANGED <<tier2Enabled, run, rows, marks>>

Settled(r, tier) == \A s \in tier : RaceOf(r, s) \in {"ok", "failed"}
AnyOk(r) == \E s \in Tier1 : RaceOf(r, s) = "ok"

\* The findings of the scanners that were in time.
Collected(r) ==
    {f \in Findings : f[1] = r /\ RaceOf(r, f[2]) = "ok" /\ f[3] <= scan[r].races[f[2]].found}

AfterTier1(r) ==
    /\ scan[r].pc = "tier1" /\ Settled(r, Tier1)
    /\ scan' = IF AnyOk(r) /\ tier2Enabled
               THEN [scan EXCEPT ![r].pc = "tier2", ![r].races = Started(@, Tier2)]
               ELSE [scan EXCEPT ![r].pc = "saving", ![r].toInsert = Collected(r)]
    /\ UNCHANGED <<tier2Enabled, run, rows, marks>>

AfterTier2(r) ==
    /\ scan[r].pc = "tier2" /\ Settled(r, Tier2)
    /\ scan' = [scan EXCEPT ![r].pc = "saving", ![r].toInsert = Collected(r)]
    /\ UNCHANGED <<tier2Enabled, run, rows, marks>>

Chunks(todo) ==
    {c \in SUBSET todo : \/ Cardinality(c) = ChunkSize
                         \/ c = todo /\ c # {} /\ Cardinality(c) < ChunkSize}

\* The next INSERT, each of them its own transaction; then the tally.
SaveChunk(r) ==
    /\ scan[r].pc = "saving"
    /\ IF Chunks(scan[r].toInsert) = {}
       THEN scan' = [scan EXCEPT ![r].pc = "closing"] /\ UNCHANGED rows
       ELSE \E chunk \in Chunks(scan[r].toInsert) :
              /\ rows' = rows \cup chunk
              /\ scan' = [scan EXCEPT ![r].toInsert = @ \ chunk]
    /\ UNCHANGED <<tier2Enabled, run, marks>>

Ran(r) == {s \in Scanners : RaceOf(r, s) # "idle"}

FinalStatus(r, oks) ==
    IF oks = {} THEN "failed" ELSE IF oks = Ran(r) THEN "complete" ELSE "partial"

\* Mutant: a scanner that never ran has no outcome of its own.
RawOutcomes(r) == [s \in Scanners |-> RaceOf(r, s)]

Outcomes(r) ==
    [s \in Scanners |-> IF s \in Ran(r) THEN RaceOf(r, s)
                        ELSE IF AnyOk(r) THEN "skipped" ELSE "null"]

Close(r) ==
    /\ scan[r].pc = "closing"
    /\ run' = [run EXCEPT ![r] =
                 [status |-> FinalStatus(r, {s \in Ran(r) : RaceOf(r, s) = "ok"}),
                  outcomes |-> Outcomes(r),
                  findingCounts |-> Cardinality(Collected(r))]]
    /\ scan' = [scan EXCEPT ![r].pc = "over"]
    /\ UNCHANGED <<tier2Enabled, rows, marks>>

\* A restart of the API, or an error of the database that setImmediate's catch logs:
\* the row stays as it is, and nothing takes the run up again.
Crash(r) ==
    /\ scan[r].pc \notin {"none", "over", "dead"}
    /\ scan' = [scan EXCEPT ![r].pc = "dead"]
    /\ UNCHANGED <<tier2Enabled, run, rows, marks>>

-----------------------------------------------------------------------------
(* promoteFinding and dismissFinding *)

Read(d) ==
    /\ decision[d].pc = "waiting"
    /\ \E f \in rows :
         LET others == {e \in Decisions \ {d} : decision[e].finding = f
                                                /\ decision[e].pc \in {"save", "update"}}
         IN  /\ decision' = [decision EXCEPT ![d].pc = "save", ![d].finding = f]
             /\ met' = IF others = {} THEN met ELSE met \cup others \cup {d}
    /\ UNCHANGED <<tier2Enabled, run, scan, rows, promoted, dismissed>>

\* save(): the row is loaded again and compared with the entity, in which a promotion
\* is not dismissed and a dismissal not promoted.
Load(d) ==
    /\ decision[d].pc = "save"
    /\ decision' = [decision EXCEPT
         ![d].pc = "update",
         ![d].dirty = {col \in {"promoted", "dismissed"} :
                         ((col = "promoted") <=> (d \in Promotes)) #
                         (decision[d].finding \in
                            IF col = "promoted" THEN promoted ELSE dismissed)}]
    /\ UNCHANGED <<tier2Enabled, run, scan, rows, promoted, dismissed, met>>

Set(column, finding, value) == IF value THEN column \cup {finding} ELSE column \ {finding}

\* Mutant: a decision sets its own column and leaves the other one alone.
OwnColumn(d) == {IF d \in Promotes THEN "promoted" ELSE "dismissed"}

Written(d) == decision[d].dirty

Update(d) ==
    /\ decision[d].pc = "update"
    /\ promoted' = IF "promoted" \in Written(d)
                   THEN Set(promoted, decision[d].finding, d \in Promotes) ELSE promoted
    /\ dismissed' = IF "dismissed" \in Written(d)
                    THEN Set(dismissed, decision[d].finding, d \in Dismisses) ELSE dismissed
    /\ decision' = [decision EXCEPT ![d].pc = "done", ![d].dirty = {}]
    /\ UNCHANGED <<tier2Enabled, run, scan, rows, met>>

-----------------------------------------------------------------------------
Next ==
    \/ \E r \in Runs :
         \/ RunScan(r) \/ Start(r) \/ AfterTier1(r) \/ AfterTier2(r)
         \/ SaveChunk(r) \/ Close(r) \/ Crash(r)
         \/ \E s \in Scanners : Answer(r, s) \/ TimeOut(r, s)
    \/ \E d \in Decisions : Read(d) \/ Load(d) \/ Update(d)

\* The event loop runs what is due, timers included; no scanner has to answer.
Fairness ==
    \A r \in Runs :
      /\ WF_vars(Start(r)) /\ WF_vars(AfterTier1(r)) /\ WF_vars(AfterTier2(r))
      /\ WF_vars(SaveChunk(r)) /\ WF_vars(Close(r))
      /\ \A s \in Scanners : WF_vars(TimeOut(r, s))

Spec == Init /\ [][Next]_vars /\ Fairness

-----------------------------------------------------------------------------
(* Properties *)

Ended(r) == run[r].status \in {"complete", "partial", "failed"}
RowsOf(r) == {f \in rows : f[1] = r}

\* What an ended run tells its readers adds up: its counts are those of its rows, and
\* its rows are the findings of the scanners it reports as ok, all of them and no
\* others, so nothing of a scanner that answered late (executeScan, :262-336).
FindingsAddUp ==
    \A r \in Runs :
      /\ Ended(r) =>
           /\ run[r].findingCounts = Cardinality(RowsOf(r))
           /\ \A s \in Scanners :
                Cardinality({f \in RowsOf(r) : f[2] = s}) =
                  IF run[r].outcomes[s] = "ok" THEN scan[r].races[s].found ELSE 0
      /\ ~Ended(r) => run[r].findingCounts = -1

\* A finding is in the report and dismissed at once only where two decisions about it
\* overlapped, each saving the column it had changed (:152-190).
DecisionsExclude ==
    \A f \in promoted \cap dismissed : \E d \in met : decision[d].finding = f

\* "the orchestrator can never hang forever on one misbehaving tool" (:357-358): a run
\* ends although scanners may never answer, unless its process dies.
RunsEnd ==
    \A r \in Runs : scan[r].pc = "scheduled" ~> Ended(r) \/ scan[r].pc = "dead"
=============================================================================

----------------------- MODULE AutoAndDemoScanProofs -----------------------
(***************************************************************************)
(* Proofs about the two scans that run their checks against timers in the  *)
(* memory of one process.                                                  *)
(*                                                                         *)
(* AutoScan, for any runs, scanners, decisions, number of findings and     *)
(* chunk size: a race that is decided stays decided, so what a run         *)
(* collects is fixed when it starts to save; each chunk moves part of it   *)
(* into the table.  A decision that met no other on its finding is the     *)
(* only one to have written it since it was loaded.                        *)
(*                                                                         *)
(* DemoScan, for any scans, streams, domains, addresses, sites and bounds: *)
(* a job runs exactly while its run does and has no result until it is     *)
(* complete, so a stream has heard nothing or everything; and a cache that *)
(* is not empty is as old as the newest run of its domain.                 *)
(***************************************************************************)
EXTENDS AutoScan, DemoScan, FiniteSetTheorems, SequenceTheorems, TLAPS

\* How far the races of run r have come where it stands.
RacesFollowTiers(r) ==
    /\ scan[r].pc \in {"none", "scheduled"} => \A s \in Scanners : RaceOf(r, s) = "idle"
    /\ scan[r].pc = "tier1" => \A s \in Tier2 : RaceOf(r, s) = "idle"
    /\ scan[r].pc = "tier2" => Settled(r, Tier1)
    /\ scan[r].pc \in {"saving", "closing", "over"} =>
         \A s \in Scanners : RaceOf(r, s) # "open"
    /\ \A s \in Scanners : RaceOf(r, s) = "ok" => scan[r].races[s].answered

\* What is in the table of what run r collected.
RowsFollowSaving(r) ==
    /\ scan[r].pc \in {"none", "scheduled", "tier1", "tier2"} => RowsOf(r) = {}
    /\ scan[r].pc = "saving" => RowsOf(r) \cup scan[r].toInsert = Collected(r)
    /\ scan[r].pc \in {"closing", "over"} => RowsOf(r) = Collected(r)

\* Only a run that is over has ended, and its row says what it collected.
TallyTaken(r) ==
    /\ Ended(r) => /\ scan[r].pc = "over"
                   /\ run[r].findingCounts = Cardinality(Collected(r))
                   /\ \A s \in Scanners :
                        run[r].outcomes[s] = "ok" <=> RaceOf(r, s) = "ok"
    /\ ~Ended(r) => run[r].findingCounts = -1

RunInv(r) == RacesFollowTiers(r) /\ RowsFollowSaving(r) /\ TallyTaken(r)

ScanInv == \A r \in Runs : RunInv(r)

Running(d) == decision[d].pc \in {"save", "update"}

\* Decisions are about findings in the table, and those that run together on
\* one finding have met.
MeetingsKnown ==
    /\ \A d \in Decisions : decision[d].pc # "waiting" => decision[d].finding \in rows
    /\ \A d \in met : decision[d].pc # "waiting"
    /\ \A d, e \in Decisions :
         d # e /\ Running(d) /\ Running(e) /\ decision[d].finding = decision[e].finding =>
             d \in met

\* The columns of its finding that decision d would have to change.
Differing(d) ==
    {col \in {"promoted", "dismissed"} :
       ((col = "promoted") <=> (d \in Promotes)) #
       (decision[d].finding \in IF col = "promoted" THEN promoted ELSE dismissed)}

\* What a decision that met no other wants to write is still what differs.
AloneIsCurrent ==
    \A d \in Decisions \ met : decision[d].pc = "update" => decision[d].dirty = Differing(d)

DecisionInv == MeetingsKnown /\ AloneIsCurrent /\ DecisionsExclude
IInv == TypeOK /\ ScanInv /\ DecisionInv

-----------------------------------------------------------------------------
(* Finite sets *)

LEMMA FindingsFinite == IsFiniteSet(Findings)
<1> DEFINE Places == (Runs \X Scanners) \X (1..MaxFound)
           flat == [x \in Places |-> <<x[1][1], x[1][2], x[2]>>]
<1>1. IsFiniteSet(Places)
  <2>1. IsFiniteSet(Runs \X Scanners)
    BY RunsFinite, TiersAssumption, FS_Product
  <2>2. IsFiniteSet(1..MaxFound)
    BY SizesAssumption, FS_Interval
  <2>. QED  BY <2>1, <2>2, FS_Product
<1>2. flat \in Surjection(Places, Findings)
  <2>1. flat \in [Places -> Findings]
    BY DEF Findings
  <2>2. ASSUME NEW f \in Findings PROVE \E x \in Places : flat[x] = f
    <3>1. <<<<f[1], f[2]>>, f[3]>> \in Places
      BY DEF Findings
    <3>2. flat[<<<<f[1], f[2]>>, f[3]>>] = f
      BY <3>1 DEF Findings
    <3>. QED  BY <3>1, <3>2
  <2>. QED  BY <2>1, <2>2 DEF Surjection
<1> HIDE DEF Places, flat
<1>. QED  BY <1>1, <1>2, FS_Surjection

\* As long as something is left to insert, there is a next chunk.
LEMMA ChunkExists ==
    ASSUME NEW S, IsFiniteSet(S), S # {}
    PROVE  Chunks(S) # {}
<1>1. CASE Cardinality(S) < ChunkSize
  BY <1>1 DEF Chunks
<1>2. CASE ~(Cardinality(S) < ChunkSize)
  <2> DEFINE n == Cardinality(S)
  <2>1. n \in Nat /\ ExistsBijection(1..n, S)
    BY FS_CardinalityType
  <2>2. PICK f : f \in Bijection(1..n, S)
    BY <2>1 DEF ExistsBijection
  <2> DEFINE C == {f[i] : i \in 1..ChunkSize}
             g == [i \in 1..ChunkSize |-> f[i]]
  <2>3. ChunkSize \in Nat /\ ChunkSize <= n
    BY <1>2, <2>1, SizesAssumption
  <2> HIDE DEF n
  <2>4. f \in [1..n -> S] /\ \A i, j \in 1..n : f[i] = f[j] => i = j
    BY <2>2 DEF Bijection, Injection, IsInjective
  <2>5. \A i \in 1..ChunkSize : i \in 1..n
    BY <2>1, <2>3
  <2>6. g \in [1..ChunkSize -> C]
    OBVIOUS
  <2>7. \A i, j \in 1..ChunkSize : g[i] = g[j] => i = j
    BY <2>4, <2>5
  <2>8. \A c \in C : \E i \in 1..ChunkSize : g[i] = c
    OBVIOUS
  <2>9. C \in SUBSET S
    BY <2>4, <2>5
  <2> HIDE DEF C, g
  <2>10. g \in Bijection(1..ChunkSize, C)
    BY <2>6, <2>7, <2>8 DEF Bijection, Injection, IsInjective, Surjection
  <2>11. Cardinality(C) = ChunkSize
    BY <2>3, <2>10, FS_CountingElements DEF ExistsBijection
  <2>. QED  BY <2>9, <2>11 DEF Chunks
<1>. QED  BY <1>1, <1>2

\* A run collects as many findings of a scanner as that scanner found in time.
LEMMA CollectedOfScanner ==
    ASSUME TypeOK, NEW r \in Runs, NEW s \in Scanners
    PROVE  Cardinality({f \in Collected(r) : f[2] = s}) =
             IF RaceOf(r, s) = "ok" THEN scan[r].races[s].found ELSE 0
<1> DEFINE T == {f \in Collected(r) : f[2] = s}
           n == scan[r].races[s].found
<1>1. CASE RaceOf(r, s) = "ok"
  <2>1. n \in Nat /\ n <= MaxFound
    BY SizesAssumption DEF TypeOK, Scan, Race
  <2>2. T = {<<r, s, i>> : i \in 1..n}
    <3>1. \A f \in T : f \in Findings /\ f[1] = r /\ f[2] = s /\ f[3] <= n
      BY DEF Collected
    <3>2. \A f \in T : f = <<r, s, f[3]>> /\ f[3] \in 1..n
      BY <2>1, <3>1 DEF Findings
    <3>3. ASSUME NEW i \in 1..n PROVE <<r, s, i>> \in T
      BY <1>1, <2>1, SizesAssumption DEF Collected, Findings
    <3> HIDE DEF T, n
    <3>. QED  BY <3>2, <3>3
  <2> DEFINE g == [i \in 1..n |-> <<r, s, i>>]
  <2>3. g \in Bijection(1..n, {<<r, s, i>> : i \in 1..n})
    BY <2>1 DEF Bijection, Injection, IsInjective, Surjection
  <2> HIDE DEF g, n, T
  <2>4. Cardinality({<<r, s, i>> : i \in 1..n}) = n
    BY <2>1, <2>3, FS_CountingElements DEF ExistsBijection
  <2>. QED  BY <1>1, <2>2, <2>4 DEF T, n
<1>2. CASE RaceOf(r, s) # "ok"
  <2>1. T = {}
    BY <1>2 DEF Collected
  <2>. QED  BY <1>2, <2>1, FS_EmptySet
<1>. QED  BY <1>1, <1>2

-----------------------------------------------------------------------------
(* The initial state, and steps of a run *)

LEMMA InitInv == Init => IInv
<1> SUFFICES ASSUME Init PROVE IInv  OBVIOUS
<1>1. TypeOK
  <2>1. Cardinality(Findings) \in Nat
    BY FindingsFinite, FS_CardinalityType
  <2>2. run \in [Runs -> Run]
    BY <2>1 DEF Init, Run
  <2>3. scan \in [Runs -> Scan]
    BY SizesAssumption DEF Init, Scan, Race
  <2>. QED  BY <2>2, <2>3 DEF Init, TypeOK, Decision
<1>2. ScanInv
  BY DEF Init, ScanInv, RunInv, RacesFollowTiers, RowsFollowSaving, TallyTaken, RaceOf,
         RowsOf, Ended, Scanners
<1>3. DecisionInv
  BY DEF Init, DecisionInv, MeetingsKnown, AloneIsCurrent, DecisionsExclude, Running
<1>. QED  BY <1>1, <1>2, <1>3 DEF IInv

\* A step of run r disturbs no other run and no decision.
LEMMA RunStep ==
    ASSUME IInv, NEW r \in Runs, NEW v \in Scan, NEW w \in Run,
           scan' = [scan EXCEPT ![r] = v], run' = [run EXCEPT ![r] = w],
           rows \subseteq rows', rows' \subseteq Findings,
           \A f \in rows' \ rows : f[1] = r,
           UNCHANGED <<tier2Enabled, marks>>,
           RunInv(r)'
    PROVE  IInv'
<1>1. TypeOK'
  BY DEF IInv, TypeOK, marks
<1>2. ASSUME NEW q \in Runs \ {r} PROVE RunInv(q)'
  <2>1. scan'[q] = scan[q] /\ run'[q] = run[q] /\ RowsOf(q)' = RowsOf(q)
    BY DEF IInv, TypeOK, RowsOf
  <2>2. /\ \A s \in Scanners : RaceOf(q, s)' = RaceOf(q, s)
        /\ Collected(q)' = Collected(q) /\ Ended(q)' = Ended(q)
    BY <2>1 DEF RaceOf, Collected, Ended, Findings
  <2>3. RunInv(q)
    BY DEF IInv, ScanInv
  <2>4. RacesFollowTiers(q)'
    BY <2>1, <2>2, <2>3 DEF RunInv, RacesFollowTiers, Settled, Scanners
  <2>5. RowsFollowSaving(q)'
    BY <2>1, <2>2, <2>3 DEF RunInv, RowsFollowSaving
  <2>6. TallyTaken(q)'
    BY <2>1, <2>2, <2>3 DEF RunInv, TallyTaken
  <2>. QED  BY <2>4, <2>5, <2>6 DEF RunInv
<1>3. ScanInv'
  BY <1>2 DEF ScanInv
<1>4. DecisionInv'
  <2>1. MeetingsKnown'
    BY DEF IInv, DecisionInv, MeetingsKnown, Running, marks
  <2>2. AloneIsCurrent' /\ DecisionsExclude'
    BY DEF IInv, DecisionInv, AloneIsCurrent, DecisionsExclude, Differing, marks
  <2>. QED  BY <2>1, <2>2 DEF DecisionInv
<1>. QED  BY <1>1, <1>3, <1>4 DEF IInv

\* While a run's races and rows stand still, so do what it collected and its row.
LEMMA SameRaces ==
    ASSUME TypeOK, NEW r \in Runs, scan'[r].races = scan[r].races
    PROVE  /\ \A s \in Scanners : RaceOf(r, s)' = RaceOf(r, s)
           /\ Collected(r)' = Collected(r)
BY DEF RaceOf, Collected, Findings

LEMMA StartedType ==
    ASSUME NEW races \in [Scanners -> Race], NEW tier \in SUBSET Scanners
    PROVE  /\ Started(races, tier) \in [Scanners -> Race]
           /\ \A s \in Scanners :
                /\ s \in tier => Started(races, tier)[s].race = "open"
                /\ s \notin tier => Started(races, tier)[s] = races[s]
BY DEF Started, Race

LEMMA ScanRecord ==
    ASSUME TypeOK, NEW r \in Runs
    PROVE  /\ scan[r] \in Scan /\ run[r] \in Run
           /\ scan[r].races \in [Scanners -> Race] /\ scan[r].toInsert \in SUBSET Findings
           /\ \A s \in Scanners : RaceOf(r, s) \in {"idle", "open", "ok", "failed"}
BY DEF TypeOK, Scan, Race, RaceOf

LEMMA BeginInv ==
    ASSUME IInv, NEW r \in Runs, RunScan(r) \/ Start(r)
    PROVE  IInv'
<1>1. TypeOK /\ RunInv(r) /\ scan[r] \in Scan /\ run[r] \in Run
      /\ scan[r].races \in [Scanners -> Race]
  BY ScanRecord DEF IInv, ScanInv
<1>2. CASE RunScan(r)
  <2> DEFINE v == [scan[r] EXCEPT !.pc = "scheduled"]
             w == [run[r] EXCEPT !.status = "pending"]
  <2>1. /\ scan' = [scan EXCEPT ![r] = v] /\ run' = [run EXCEPT ![r] = w]
        /\ scan[r].pc = "none" /\ UNCHANGED <<tier2Enabled, rows, marks>>
    BY <1>2 DEF RunScan
  <2>2. v \in Scan /\ v.pc = "scheduled" /\ v.races = scan[r].races
    BY <1>1 DEF Scan
  <2>3. w \in Run /\ w.status = "pending" /\ w.findingCounts = run[r].findingCounts
    BY <1>1 DEF Run
  <2> HIDE DEF v, w
  <2>4. scan'[r] = v /\ run'[r] = w
    BY <1>1, <2>1 DEF TypeOK
  <2>5. \A s \in Scanners : RaceOf(r, s)' = RaceOf(r, s)
    BY <2>2, <2>4 DEF RaceOf
  <2>6. ~Ended(r) /\ ~Ended(r)'
    BY <1>1, <2>1, <2>3, <2>4 DEF Ended, RunInv, TallyTaken
  <2>7. RunInv(r)'
    BY <1>1, <2>1, <2>2, <2>3, <2>4, <2>5, <2>6
    DEF RunInv, RacesFollowTiers, RowsFollowSaving, TallyTaken, RowsOf
  <2>. QED  BY <1>1, <2>1, <2>2, <2>3, <2>7, RunStep DEF TypeOK
<1>3. CASE Start(r)
  <2> DEFINE v == [scan[r] EXCEPT !.pc = "tier1", !.races = Started(@, Tier1)]
             w == [run[r] EXCEPT !.status = "running"]
  <2>0. Tier1 \in SUBSET Scanners /\ \A s \in Tier2 : s \in Scanners /\ s \notin Tier1
    BY TiersAssumption DEF Scanners
  <2>1. /\ scan' = [scan EXCEPT ![r] = v] /\ run' = [run EXCEPT ![r] = w]
        /\ scan[r].pc = "scheduled" /\ UNCHANGED <<tier2Enabled, rows, marks>>
    BY <1>1, <1>3 DEF Start, TypeOK
  <2>2. v \in Scan /\ v.pc = "tier1" /\ v.races = Started(scan[r].races, Tier1)
    BY <1>1, <2>0, StartedType DEF Scan
  <2>3. w \in Run /\ w.status = "running" /\ w.findingCounts = run[r].findingCounts
    BY <1>1 DEF Run
  <2> HIDE DEF v, w
  <2>4. scan'[r] = v /\ run'[r] = w
    BY <1>1, <2>1 DEF TypeOK
  <2>5. \A s \in Scanners : RaceOf(r, s)' \in {"idle", "open"}
                            /\ (s \in Tier2 => RaceOf(r, s)' = "idle")
    BY <1>1, <2>0, <2>1, <2>2, <2>4, StartedType DEF RaceOf, RunInv, RacesFollowTiers
  <2>6. ~Ended(r) /\ ~Ended(r)'
    BY <1>1, <2>1, <2>3, <2>4 DEF Ended, RunInv, TallyTaken
  <2>7. RunInv(r)'
    BY <1>1, <2>0, <2>1, <2>2, <2>3, <2>4, <2>5, <2>6
    DEF RunInv, RacesFollowTiers, RowsFollowSaving, TallyTaken, RowsOf
  <2>. QED  BY <1>1, <2>1, <2>2, <2>3, <2>7, RunStep DEF TypeOK
<1>. QED  BY <1>2, <1>3

\* A race that is not decided may be decided; one that is keeps its outcome, and
\* a scanner in time keeps the number of findings it answered with.
LEMMA RaceInv ==
    ASSUME IInv, NEW r \in Runs, NEW s \in Scanners, NEW new \in Race,
           scan[r].pc \notin {"over"},
           RaceOf(r, s) # "idle", new.race # "idle", new.race = "ok" => new.answered,
           new.race # RaceOf(r, s) => RaceOf(r, s) = "open",
           new.found # scan[r].races[s].found => ~scan[r].races[s].answered,
           new.race = "open" => RaceOf(r, s) = "open",
           scan' = [scan EXCEPT ![r].races[s] = new],
           UNCHANGED <<tier2Enabled, run, rows, marks>>
    PROVE  IInv'
<1> DEFINE races == [scan[r].races EXCEPT ![s] = new]
           v == [scan[r] EXCEPT !.races = races]
<1>1. TypeOK /\ RunInv(r) /\ scan[r] \in Scan /\ run[r] \in Run
      /\ scan[r].races \in [Scanners -> Race]
  BY ScanRecord DEF IInv, ScanInv
<1>2. scan' = [scan EXCEPT ![r] = v] /\ run' = [run EXCEPT ![r] = run[r]]
  BY <1>1 DEF TypeOK
<1>3. races \in [Scanners -> Race] /\ races[s] = new
      /\ \A x \in Scanners \ {s} : races[x] = scan[r].races[x]
  BY <1>1
<1> HIDE DEF races
<1>4. v \in Scan /\ v.pc = scan[r].pc /\ v.toInsert = scan[r].toInsert /\ v.races = races
  BY <1>1, <1>3 DEF Scan
<1> HIDE DEF v
<1>5. scan'[r] = v /\ run'[r] = run[r] /\ RowsOf(r)' = RowsOf(r) /\ Ended(r)' = Ended(r)
  BY <1>1, <1>2 DEF TypeOK, RowsOf, Ended
<1>6. /\ RaceOf(r, s)' = new.race
      /\ \A x \in Scanners \ {s} : RaceOf(r, x)' = RaceOf(r, x)
  BY <1>3, <1>4, <1>5 DEF RaceOf
<1>7. RacesFollowTiers(r)'
  <2>1. scan[r].pc \notin {"none", "scheduled"}
    BY <1>1 DEF RunInv, RacesFollowTiers
  <2>2. scan[r].pc = "tier1" => \A x \in Tier2 : RaceOf(r, x)' = "idle"
    BY <1>1, <1>6 DEF RunInv, RacesFollowTiers, Scanners
  <2>3. scan[r].pc = "tier2" => Settled(r, Tier1)'
    BY <1>1, <1>6 DEF RunInv, RacesFollowTiers, Scanners, Settled
  <2>4. \A x \in Scanners : RaceOf(r, x)' = "open" => RaceOf(r, x) = "open"
    BY <1>6
  <2>5. \A x \in Scanners : RaceOf(r, x)' = "ok" => scan'[r].races[x].answered
    BY <1>1, <1>3, <1>4, <1>5, <1>6 DEF RunInv, RacesFollowTiers
  <2>. QED
    BY <1>1, <1>4, <1>5, <2>1, <2>2, <2>3, <2>4, <2>5 DEF RunInv, RacesFollowTiers
<1>8. scan[r].pc \in {"saving", "closing"} => Collected(r)' = Collected(r)
  <2> SUFFICES ASSUME scan[r].pc \in {"saving", "closing"}
               PROVE  Collected(r)' = Collected(r)
    OBVIOUS
  <2>1. RaceOf(r, s) # "open" /\ new.race = RaceOf(r, s)
    BY <1>1 DEF RunInv, RacesFollowTiers
  <2>2. RaceOf(r, s) = "ok" => new.found = scan[r].races[s].found
    BY <1>1 DEF RunInv, RacesFollowTiers
  <2>3. ASSUME NEW f \in Findings
        PROVE  (RaceOf(r, f[2])' = "ok" /\ f[3] <= scan'[r].races[f[2]].found)
               <=> (RaceOf(r, f[2]) = "ok" /\ f[3] <= scan[r].races[f[2]].found)
    <3>1. f[2] \in Scanners
      BY DEF Findings
    <3>. QED  BY <1>3, <1>4, <1>5, <1>6, <2>1, <2>2, <3>1
  <2>. QED  BY <2>3 DEF Collected
<1>9. RowsFollowSaving(r)'
  BY <1>1, <1>4, <1>5, <1>8 DEF RunInv, RowsFollowSaving
<1>10. TallyTaken(r)'
  BY <1>1, <1>4, <1>5 DEF RunInv, TallyTaken
<1>. QED
  BY <1>1, <1>2, <1>4, <1>7, <1>9, <1>10, RunStep DEF RunInv, TypeOK

LEMMA AnswerInv ==
    ASSUME IInv, NEW r \in Runs, NEW s \in Scanners, Answer(r, s) \/ TimeOut(r, s)
    PROVE  IInv'
<1>1. /\ scan[r].races[s] \in Race /\ RaceOf(r, s) = scan[r].races[s].race
      /\ scan[r].races \in [Scanners -> Race] /\ scan[r] \in Scan
  BY ScanRecord DEF IInv, RaceOf
<1>2. CASE Answer(r, s)
  <2>1. PICK outcome \in {"ok", "failed"}, n \in 0..MaxFound :
          scan' = [scan EXCEPT ![r].races[s] =
                     [race |-> Decided(scan[r].races[s].race, outcome),
                      answered |-> TRUE, found |-> n]]
    BY <1>1, <1>2 DEF Answer, IInv, TypeOK
  <2> DEFINE new == [race |-> Decided(scan[r].races[s].race, outcome),
                     answered |-> TRUE, found |-> n]
  <2>2. /\ new \in Race /\ new.answered /\ new.race = Decided(scan[r].races[s].race, outcome)
    BY <1>1 DEF Race, Decided
  <2> HIDE DEF new
  <2>3. scan' = [scan EXCEPT ![r].races[s] = new]
    BY <2>1 DEF new
  <2>4. /\ new.race # "idle" /\ (new.race # RaceOf(r, s) => RaceOf(r, s) = "open")
        /\ new.race # "open"
    BY <1>1, <1>2, <2>2 DEF Answer, Decided
  <2>5. /\ scan[r].pc \notin {"over"} /\ RaceOf(r, s) # "idle"
        /\ ~scan[r].races[s].answered /\ UNCHANGED <<tier2Enabled, run, rows, marks>>
    BY <1>2 DEF Answer
  <2>. QED  BY <2>2, <2>3, <2>4, <2>5, RaceInv
<1>3. CASE TimeOut(r, s)
  <2> DEFINE new == [scan[r].races[s] EXCEPT !.race = "failed"]
  <2>1. new \in Race /\ new.race = "failed" /\ new.found = scan[r].races[s].found
    BY <1>1 DEF Race
  <2>2. scan' = [scan EXCEPT ![r].races[s] = new]
    BY <1>3 DEF TimeOut
  <2> HIDE DEF new
  <2>. QED  BY <1>1, <1>3, <2>1, <2>2, RaceInv DEF TimeOut, MayTimeOut
<1>. QED  BY <1>2, <1>3

\* A tier has settled: the next one starts, or what was collected is to be saved.
LEMMA AfterTierInv ==
    ASSUME IInv, NEW r \in Runs, AfterTier1(r) \/ AfterTier2(r)
    PROVE  IInv'
<1>0. Tier1 \subseteq Scanners /\ Tier2 \in SUBSET Scanners
      /\ (\A s \in Scanners : s \in Tier1 \/ s \in Tier2) /\ Tier1 \cap Tier2 = {}
  BY TiersAssumption DEF Scanners
<1>1. TypeOK /\ RunInv(r) /\ scan[r] \in Scan /\ run[r] \in Run
      /\ scan[r].races \in [Scanners -> Race]
  BY ScanRecord DEF IInv, ScanInv
<1>2. /\ scan[r].pc \in {"tier1", "tier2"} /\ RowsOf(r) = {} /\ Settled(r, Tier1)
      /\ UNCHANGED <<tier2Enabled, run, rows, marks>>
  BY <1>1 DEF AfterTier1, AfterTier2, RunInv, RowsFollowSaving, RacesFollowTiers
<1>3. run' = [run EXCEPT ![r] = run[r]] /\ ~Ended(r)
  BY <1>1, <1>2 DEF TypeOK, RunInv, TallyTaken
<1>4. CASE scan' = [scan EXCEPT ![r].pc = "saving", ![r].toInsert = Collected(r)]
  <2> DEFINE v == [scan[r] EXCEPT !.pc = "saving", !.toInsert = Collected(r)]
  <2>1. v \in Scan /\ v.pc = "saving" /\ v.toInsert = Collected(r) /\ v.races = scan[r].races
    BY <1>1 DEF Scan, Collected
  <2>2. scan' = [scan EXCEPT ![r] = v]
    BY <1>1, <1>4 DEF TypeOK
  <2> HIDE DEF v
  <2>3. scan'[r] = v /\ run'[r] = run[r] /\ RowsOf(r)' = RowsOf(r) /\ Ended(r)' = Ended(r)
    BY <1>1, <1>2, <2>2 DEF TypeOK, RowsOf, Ended
  <2>4. (\A s \in Scanners : RaceOf(r, s)' = RaceOf(r, s)) /\ Collected(r)' = Collected(r)
    BY <1>1, <2>1, <2>3, SameRaces
  <2>5. \A s \in Scanners : RaceOf(r, s) # "open"
    <3>1. CASE scan[r].pc = "tier1"
      BY <1>0, <1>1, <1>2, <3>1 DEF RunInv, RacesFollowTiers, Settled
    <3>2. CASE scan[r].pc = "tier2"
      <4>1. Settled(r, Tier2)
        BY <3>2 DEF AfterTier1, AfterTier2
      <4>. QED  BY <1>0, <1>2, <4>1 DEF Settled
    <3>. QED  BY <1>2, <3>1, <3>2
  <2>6. RacesFollowTiers(r)'
    BY <1>1, <2>1, <2>3, <2>4, <2>5 DEF RunInv, RacesFollowTiers
  <2>7. RowsFollowSaving(r)'
    BY <1>2, <2>1, <2>3, <2>4 DEF RowsFollowSaving
  <2>8. TallyTaken(r)'
    BY <1>1, <1>3, <2>3 DEF RunInv, TallyTaken
  <2>. QED
    BY <1>1, <1>2, <1>3, <2>1, <2>2, <2>6, <2>7, <2>8, RunStep DEF RunInv, TypeOK
<1>5. CASE scan[r].pc = "tier1"
           /\ scan' = [scan EXCEPT ![r].pc = "tier2", ![r].races = Started(@, Tier2)]
  <2> DEFINE v == [scan[r] EXCEPT !.pc = "tier2", !.races = Started(scan[r].races, Tier2)]
  <2>1. v \in Scan /\ v.pc = "tier2" /\ v.races = Started(scan[r].races, Tier2)
    BY <1>0, <1>1, StartedType DEF Scan
  <2>2. scan' = [scan EXCEPT ![r] = v]
    BY <1>1, <1>5 DEF TypeOK
  <2> HIDE DEF v
  <2>3. scan'[r] = v /\ run'[r] = run[r] /\ RowsOf(r)' = RowsOf(r) /\ Ended(r)' = Ended(r)
    BY <1>1, <1>2, <2>2 DEF TypeOK, RowsOf, Ended
  <2>4. \A s \in Scanners : /\ s \in Tier1 => scan'[r].races[s] = scan[r].races[s]
                            /\ s \in Tier2 => RaceOf(r, s)' = "open"
    BY <1>0, <1>1, <2>1, <2>3, StartedType DEF RaceOf
  <2>5. RacesFollowTiers(r)'
    BY <1>0, <1>1, <1>2, <2>1, <2>3, <2>4 DEF RunInv, RacesFollowTiers, Settled, RaceOf
  <2>6. RowsFollowSaving(r)'
    BY <1>2, <2>1, <2>3 DEF RowsFollowSaving
  <2>7. TallyTaken(r)'
    BY <1>1, <1>3, <2>3 DEF RunInv, TallyTaken
  <2>. QED
    BY <1>1, <1>2, <1>3, <2>1, <2>2, <2>5, <2>6, <2>7, RunStep DEF RunInv, TypeOK
<1>. QED  BY <1>4, <1>5 DEF AfterTier1, AfterTier2

LEMMA SaveChunkInv ==
    ASSUME IInv, NEW r \in Runs, SaveChunk(r)
    PROVE  IInv'
<1> DEFINE todo == scan[r].toInsert
<1>1. TypeOK /\ RunInv(r) /\ scan[r] \in Scan /\ run[r] \in Run /\ todo \in SUBSET Findings
  BY ScanRecord DEF IInv, ScanInv
<1>2. /\ scan[r].pc = "saving" /\ UNCHANGED <<tier2Enabled, run, marks>>
      /\ RowsOf(r) \cup todo = Collected(r)
  BY <1>1 DEF SaveChunk, RunInv, RowsFollowSaving
<1>3. run' = [run EXCEPT ![r] = run[r]] /\ ~Ended(r) /\ ~Ended(r)'
  BY <1>1, <1>2 DEF TypeOK, RunInv, TallyTaken, Ended
<1>4. CASE Chunks(todo) = {}
  <2> DEFINE v == [scan[r] EXCEPT !.pc = "closing"]
  <2>1. v \in Scan /\ v.pc = "closing" /\ v.races = scan[r].races
    BY <1>1 DEF Scan
  <2>2. scan' = [scan EXCEPT ![r] = v] /\ rows' = rows
    BY <1>4 DEF SaveChunk
  <2> HIDE DEF v
  <2>3. scan'[r] = v /\ run'[r] = run[r] /\ RowsOf(r)' = RowsOf(r)
    BY <1>1, <1>2, <2>2 DEF TypeOK, RowsOf
  <2>4. todo = {}
    BY <1>1, <1>4, FindingsFinite, FS_Subset, ChunkExists
  <2>5. (\A s \in Scanners : RaceOf(r, s)' = RaceOf(r, s)) /\ Collected(r)' = Collected(r)
    BY <1>1, <2>1, <2>3, SameRaces
  <2>6. RacesFollowTiers(r)'
    BY <1>1, <1>2, <2>1, <2>3, <2>5 DEF RunInv, RacesFollowTiers
  <2>7. RowsFollowSaving(r)'
    BY <1>2, <2>1, <2>3, <2>4, <2>5 DEF RowsFollowSaving
  <2>8. TallyTaken(r)'
    BY <1>1, <1>3, <2>3 DEF RunInv, TallyTaken
  <2>. QED
    BY <1>1, <1>2, <1>3, <2>1, <2>2, <2>6, <2>7, <2>8, RunStep DEF RunInv, TypeOK
<1>5. CASE Chunks(todo) # {}
  <2>1. PICK chunk \in Chunks(todo) : /\ rows' = rows \cup chunk
                                      /\ scan' = [scan EXCEPT ![r].toInsert = @ \ chunk]
    BY <1>5 DEF SaveChunk
  <2> DEFINE v == [scan[r] EXCEPT !.toInsert = todo \ chunk]
  <2>2. chunk \in SUBSET todo
    BY DEF Chunks
  <2>3. v \in Scan /\ v.pc = "saving" /\ v.races = scan[r].races /\ v.toInsert = todo \ chunk
    BY <1>1, <1>2 DEF Scan
  <2>4. scan' = [scan EXCEPT ![r] = v]
    BY <2>1
  <2> HIDE DEF v
  <2>5. scan'[r] = v /\ run'[r] = run[r]
    BY <1>1, <1>2, <2>4 DEF TypeOK
  <2>6. (\A s \in Scanners : RaceOf(r, s)' = RaceOf(r, s)) /\ Collected(r)' = Collected(r)
    BY <1>1, <2>3, <2>5, SameRaces
  <2>7. \A f \in chunk : f \in Findings /\ f[1] = r
    BY <1>1, <1>2, <2>2 DEF Collected
  <2>8. RowsOf(r)' = RowsOf(r) \cup chunk
    BY <2>1, <2>7 DEF RowsOf
  <2>9. RowsOf(r)' \cup v.toInsert = Collected(r)
    BY <1>2, <2>2, <2>3, <2>8
  <2>10. RacesFollowTiers(r)'
    BY <1>1, <1>2, <2>3, <2>5, <2>6 DEF RunInv, RacesFollowTiers
  <2>11. RowsFollowSaving(r)'
    BY <2>3, <2>5, <2>6, <2>9 DEF RowsFollowSaving
  <2>12. TallyTaken(r)'
    BY <1>1, <1>3, <2>5 DEF RunInv, TallyTaken
  <2>. QED
    BY <1>1, <1>2, <1>3, <2>1, <2>3, <2>4, <2>7, <2>10, <2>11, <2>12, RunStep
    DEF RunInv, TypeOK
<1>. QED  BY <1>4, <1>5

LEMMA CollectedFinite ==
    ASSUME NEW r \in Runs
    PROVE  /\ Cardinality(Collected(r)) \in Nat
           /\ Cardinality(Collected(r)) <= Cardinality(Findings)
           /\ Cardinality(Findings) \in Nat
<1>1. Collected(r) \in SUBSET Findings  BY DEF Collected
<1>. QED  BY <1>1, FindingsFinite, FS_Subset, FS_CardinalityType

LEMMA CloseInv ==
    ASSUME IInv, NEW r \in Runs, Close(r)
    PROVE  IInv'
<1>1. TypeOK /\ RunInv(r) /\ scan[r] \in Scan
  BY ScanRecord DEF IInv, ScanInv
<1> DEFINE v == [scan[r] EXCEPT !.pc = "over"]
           w == [status |-> FinalStatus(r, {s \in Ran(r) : RaceOf(r, s) = "ok"}),
                 outcomes |-> Outcomes(r), findingCounts |-> Cardinality(Collected(r))]
<1>2. v \in Scan /\ v.pc = "over" /\ v.races = scan[r].races
  BY <1>1 DEF Scan
<1>3. /\ scan' = [scan EXCEPT ![r] = v] /\ run' = [run EXCEPT ![r] = w]
      /\ scan[r].pc = "closing" /\ UNCHANGED <<tier2Enabled, rows, marks>>
  BY DEF Close
<1>4. w.status \in {"complete", "partial", "failed"}
  BY DEF FinalStatus
<1>5. \A s \in Scanners : RaceOf(r, s) \in {"idle", "ok", "failed"}
  BY <1>1, <1>3, ScanRecord DEF RunInv, RacesFollowTiers
<1>6. /\ w.outcomes \in [Scanners -> {"null", "ok", "failed", "skipped"}]
      /\ \A s \in Scanners : w.outcomes[s] = "ok" <=> RaceOf(r, s) = "ok"
  BY <1>5 DEF Outcomes, Ran
<1>7. w \in Run /\ w.findingCounts = Cardinality(Collected(r))
  BY <1>4, <1>6, CollectedFinite DEF Run
<1> HIDE DEF v, w
<1>8. scan'[r] = v /\ run'[r] = w /\ RowsOf(r)' = RowsOf(r)
  BY <1>1, <1>3 DEF TypeOK, RowsOf
<1>9. (\A s \in Scanners : RaceOf(r, s)' = RaceOf(r, s)) /\ Collected(r)' = Collected(r)
  BY <1>1, <1>2, <1>8, SameRaces
<1>10. RacesFollowTiers(r)'
  BY <1>1, <1>2, <1>3, <1>8, <1>9 DEF RunInv, RacesFollowTiers
<1>11. RowsFollowSaving(r)'
  BY <1>1, <1>2, <1>3, <1>8, <1>9 DEF RunInv, RowsFollowSaving
<1>12. TallyTaken(r)'
  BY <1>2, <1>4, <1>6, <1>7, <1>8, <1>9 DEF TallyTaken, Ended
<1>. QED
  BY <1>1, <1>2, <1>3, <1>7, <1>10, <1>11, <1>12, RunStep DEF RunInv, TypeOK

LEMMA CrashInv ==
    ASSUME IInv, NEW r \in Runs, Crash(r)
    PROVE  IInv'
<1> DEFINE v == [scan[r] EXCEPT !.pc = "dead"]
<1>1. TypeOK /\ RunInv(r) /\ scan[r] \in Scan /\ run[r] \in Run
  BY ScanRecord DEF IInv, ScanInv
<1>2. v \in Scan /\ v.pc = "dead" /\ v.races = scan[r].races
  BY <1>1 DEF Scan
<1>3. /\ scan' = [scan EXCEPT ![r] = v] /\ run' = [run EXCEPT ![r] = run[r]]
      /\ scan[r].pc # "over" /\ UNCHANGED <<tier2Enabled, run, rows, marks>>
  BY <1>1 DEF Crash, TypeOK
<1> HIDE DEF v
<1>4. scan'[r] = v /\ run'[r] = run[r] /\ ~Ended(r) /\ ~Ended(r)'
  BY <1>1, <1>3 DEF TypeOK, RunInv, TallyTaken, Ended
<1>5. \A s \in Scanners : RaceOf(r, s)' = RaceOf(r, s)
  BY <1>2, <1>4 DEF RaceOf
<1>6. RacesFollowTiers(r)' /\ RowsFollowSaving(r)' /\ TallyTaken(r)'
  BY <1>1, <1>2, <1>4, <1>5 DEF RunInv, RacesFollowTiers, RowsFollowSaving, TallyTaken
<1>. QED  BY <1>1, <1>2, <1>3, <1>6, RunStep DEF RunInv, TypeOK

-----------------------------------------------------------------------------
(* Steps of a decision *)

LEMMA DecisionRecord ==
    ASSUME TypeOK, NEW d \in Decisions
    PROVE  /\ decision[d] \in Decision
           /\ decision[d].pc \in {"waiting", "save", "update", "done"}
BY DEF TypeOK, Decision

\* A decision changes nothing of the runs.
LEMMA RunsStand ==
    ASSUME ScanInv, UNCHANGED <<run, scan, rows>>
    PROVE  ScanInv'
<1> SUFFICES ASSUME NEW r \in Runs PROVE RunInv(r)'
  BY DEF ScanInv
<1>1. RunInv(r)  BY DEF ScanInv
<1>2. /\ \A s \in Scanners : RaceOf(r, s)' = RaceOf(r, s)
      /\ Collected(r)' = Collected(r) /\ RowsOf(r)' = RowsOf(r) /\ Ended(r)' = Ended(r)
  BY DEF RaceOf, Collected, RowsOf, Ended
<1>3. RacesFollowTiers(r)'
  BY <1>1, <1>2 DEF RunInv, RacesFollowTiers, Settled, RaceOf
<1>4. RowsFollowSaving(r)' /\ TallyTaken(r)'
  BY <1>1, <1>2 DEF RunInv, RowsFollowSaving, TallyTaken
<1>. QED  BY <1>3, <1>4 DEF RunInv

LEMMA ReadInv ==
    ASSUME IInv, NEW d \in Decisions, Read(d)
    PROVE  IInv'
<1>1. PICK f \in rows :
        LET others == {e \in Decisions \ {d} : decision[e].finding = f
                                               /\ decision[e].pc \in {"save", "update"}}
        IN  /\ decision' = [decision EXCEPT ![d].pc = "save", ![d].finding = f]
            /\ met' = IF others = {} THEN met ELSE met \cup others \cup {d}
  BY DEF Read
<1> DEFINE others == {e \in Decisions \ {d} : decision[e].finding = f
                                              /\ decision[e].pc \in {"save", "update"}}
           v == [decision[d] EXCEPT !.pc = "save", !.finding = f]
<1>2. /\ TypeOK /\ decision[d].pc = "waiting"
      /\ UNCHANGED <<tier2Enabled, run, scan, rows, promoted, dismissed>>
  BY DEF IInv, Read
<1>3. decision' = [decision EXCEPT ![d] = v] /\ f \in Findings
  BY <1>1, <1>2 DEF TypeOK
<1>4. v \in Decision /\ v.pc = "save" /\ v.finding = f
  BY <1>2, <1>3, DecisionRecord DEF Decision
<1>5. /\ met \subseteq met' /\ met' \subseteq Decisions
      /\ \A e \in met' : e \in met \/ e = d \/ e \in others
      /\ \A e \in others : e \in met' /\ d \in met'
  BY <1>1, <1>2 DEF TypeOK
<1>6. \A e \in others : Running(e) /\ decision[e].finding = f /\ e # d /\ e \in Decisions
  BY DEF Running
<1>7. \A e \in Decisions \ {d} : Running(e) /\ decision[e].finding = f => e \in others
  BY DEF Running
<1> HIDE DEF v, others
<1>8. decision'[d] = v /\ \A e \in Decisions \ {d} : decision'[e] = decision[e]
  BY <1>2, <1>3 DEF TypeOK
<1>9. TypeOK'
  BY <1>2, <1>3, <1>4, <1>5 DEF TypeOK
<1>10. MeetingsKnown'
  <2>1. \A e \in Decisions : decision'[e].pc # "waiting" => decision'[e].finding \in rows'
    BY <1>2, <1>4, <1>8 DEF IInv, DecisionInv, MeetingsKnown
  <2>2. \A e \in met' : decision'[e].pc # "waiting"
    BY <1>4, <1>5, <1>6, <1>8 DEF IInv, TypeOK, DecisionInv, MeetingsKnown, Running
  <2>3. ASSUME NEW a \in Decisions, NEW b \in Decisions, a # b, Running(a)', Running(b)',
               decision'[a].finding = decision'[b].finding
        PROVE  a \in met'
    <3>1. CASE a = d
      <4>1. Running(b) /\ decision[b].finding = f
        BY <2>3, <3>1, <1>4, <1>8 DEF Running
      <4>. QED  BY <2>3, <3>1, <4>1, <1>5, <1>7
    <3>2. CASE b = d
      <4>1. Running(a) /\ decision[a].finding = f
        BY <2>3, <3>2, <1>4, <1>8 DEF Running
      <4>. QED  BY <2>3, <3>2, <4>1, <1>5, <1>7
    <3>3. CASE a # d /\ b # d
      BY <2>3, <3>3, <1>5, <1>8 DEF IInv, DecisionInv, MeetingsKnown, Running
    <3>. QED  BY <3>1, <3>2, <3>3
  <2>. QED  BY <2>1, <2>2, <2>3 DEF MeetingsKnown
<1>11. AloneIsCurrent'
  BY <1>2, <1>4, <1>5, <1>8 DEF IInv, DecisionInv, AloneIsCurrent, Differing
<1>12. DecisionsExclude'
  <2>1. \A e \in met : e # d /\ e \in Decisions
    BY <1>2 DEF IInv, TypeOK, DecisionInv, MeetingsKnown
  <2>. QED  BY <1>2, <1>5, <1>8, <2>1 DEF IInv, DecisionInv, DecisionsExclude
<1>13. ScanInv'
  BY <1>2, RunsStand DEF IInv
<1>. QED  BY <1>9, <1>10, <1>11, <1>12, <1>13 DEF IInv, DecisionInv

LEMMA LoadInv ==
    ASSUME IInv, NEW d \in Decisions, Load(d)
    PROVE  IInv'
<1> DEFINE v == [decision[d] EXCEPT !.pc = "update", !.dirty = Differing(d)]
<1>1. /\ TypeOK /\ decision[d].pc = "save"
      /\ UNCHANGED <<tier2Enabled, run, scan, rows, promoted, dismissed, met>>
      /\ decision' = [decision EXCEPT ![d] = v]
  BY DEF IInv, TypeOK, Load, Differing
<1>2. /\ v \in Decision /\ v.pc = "update" /\ v.finding = decision[d].finding
      /\ v.dirty = Differing(d)
  <2>1. Differing(d) \in SUBSET {"promoted", "dismissed"}
    BY DEF Differing
  <2>. QED  BY <1>1, <2>1, DecisionRecord DEF Decision
<1> HIDE DEF v
<1>3. decision'[d] = v /\ \A e \in Decisions \ {d} : decision'[e] = decision[e]
  BY <1>1 DEF TypeOK
<1>4. TypeOK'
  BY <1>1, <1>2 DEF TypeOK
<1>5. \A e \in Decisions : /\ decision'[e].finding = decision[e].finding
                           /\ Running(e)' = Running(e)
                           /\ decision'[e].pc = "waiting" <=> decision[e].pc = "waiting"
  BY <1>1, <1>2, <1>3 DEF Running
<1>6. MeetingsKnown'
  BY <1>1, <1>5 DEF IInv, TypeOK, DecisionInv, MeetingsKnown
<1>7. \A e \in Decisions : Differing(e)' = Differing(e)
  BY <1>1, <1>5 DEF Differing
<1>8. AloneIsCurrent'
  BY <1>1, <1>2, <1>3, <1>7 DEF IInv, DecisionInv, AloneIsCurrent
<1>9. DecisionsExclude'
  BY <1>1, <1>5 DEF IInv, TypeOK, DecisionInv, DecisionsExclude
<1>10. ScanInv'
  BY <1>1, RunsStand DEF IInv
<1>. QED  BY <1>4, <1>6, <1>8, <1>9, <1>10 DEF IInv, DecisionInv

LEMMA UpdateInv ==
    ASSUME IInv, NEW d \in Decisions, Update(d)
    PROVE  IInv'
<1> DEFINE v == [decision[d] EXCEPT !.pc = "done", !.dirty = {}]
           f == decision[d].finding
<1>1. /\ TypeOK /\ decision[d].pc = "update"
      /\ UNCHANGED <<tier2Enabled, run, scan, rows, met>>
      /\ decision' = [decision EXCEPT ![d] = v]
  BY DEF IInv, Update
<1>2. v \in Decision /\ v.pc = "done" /\ v.finding = f
  BY <1>1, DecisionRecord DEF Decision
<1> HIDE DEF v
<1>3. decision'[d] = v /\ \A e \in Decisions \ {d} : decision'[e] = decision[e]
  BY <1>1 DEF TypeOK
<1>4. f \in rows
  BY <1>1 DEF IInv, DecisionInv, MeetingsKnown
<1>5. promoted' \subseteq rows /\ dismissed' \subseteq rows
  BY <1>1, <1>4 DEF Update, Set, TypeOK
<1>6. TypeOK'
  BY <1>1, <1>2, <1>5 DEF TypeOK
<1>7. \A e \in Decisions : decision'[e].finding = decision[e].finding
  BY <1>2, <1>3
<1>8. MeetingsKnown'
  BY <1>1, <1>2, <1>3, <1>7 DEF IInv, TypeOK, DecisionInv, MeetingsKnown, Running
<1>9. \A g : g # f => /\ g \in promoted' <=> g \in promoted
                      /\ g \in dismissed' <=> g \in dismissed
  BY DEF Update, Set
<1>10. AloneIsCurrent'
  <2> SUFFICES ASSUME NEW e \in Decisions \ met, decision'[e].pc = "update"
               PROVE  decision'[e].dirty = Differing(e)'
    BY <1>1 DEF AloneIsCurrent
  <2>1. e # d /\ decision'[e] = decision[e]
    BY <1>2, <1>3
  <2>2. decision[e].finding # f
    BY <1>1, <2>1 DEF IInv, DecisionInv, MeetingsKnown, Running
  <2>3. Differing(e)' = Differing(e)
    BY <1>9, <2>1, <2>2 DEF Differing
  <2>. QED  BY <2>1, <2>3 DEF IInv, DecisionInv, AloneIsCurrent
<1>11. DecisionsExclude'
  <2> SUFFICES ASSUME NEW g \in promoted' \cap dismissed'
               PROVE  \E e \in met : decision[e].finding = g
    BY <1>1, <1>7 DEF DecisionsExclude, TypeOK
  <2>1. CASE g # f
    BY <1>9, <2>1 DEF IInv, DecisionInv, DecisionsExclude
  <2>2. CASE g = f /\ d \in met
    BY <2>2
  <2>3. CASE g = f /\ d \notin met
    <3>1. Written(d) = Differing(d)
      BY <1>1, <2>3 DEF Written, IInv, DecisionInv, AloneIsCurrent
    <3>2. d \in Dismisses <=> d \notin Promotes
      BY DecisionsDisjoint DEF Decisions
    <3>3. CASE d \in Promotes
      <4>1. "dismissed" \in Differing(d) <=> f \in dismissed
        BY <3>3 DEF Differing
      <4>2. f \notin dismissed'
        BY <3>1, <3>2, <3>3, <4>1 DEF Update, Set
      <4>. QED  BY <2>3, <4>2
    <3>4. CASE d \notin Promotes
      <4>1. "promoted" \in Differing(d) <=> f \in promoted
        BY <3>4 DEF Differing
      <4>2. f \notin promoted'
        BY <3>1, <3>4, <4>1 DEF Update, Set
      <4>. QED  BY <2>3, <4>2
    <3>. QED  BY <3>3, <3>4
  <2>. QED  BY <2>1, <2>2, <2>3
<1>12. ScanInv'
  BY <1>1, RunsStand DEF IInv
<1>. QED  BY <1>6, <1>8, <1>10, <1>11, <1>12 DEF IInv, DecisionInv

-----------------------------------------------------------------------------
(* The theorems *)

LEMMA NextInv == IInv /\ [Next]_vars => IInv'
<1> SUFFICES ASSUME IInv, [Next]_vars PROVE IInv'
  OBVIOUS
<1>1. ASSUME NEW r \in Runs, RunScan(r) \/ Start(r) PROVE IInv'
  BY <1>1, BeginInv
<1>2. ASSUME NEW r \in Runs, NEW s \in Scanners, Answer(r, s) \/ TimeOut(r, s) PROVE IInv'
  BY <1>2, AnswerInv
<1>3. ASSUME NEW r \in Runs, AfterTier1(r) \/ AfterTier2(r) PROVE IInv'
  BY <1>3, AfterTierInv
<1>4. ASSUME NEW r \in Runs, SaveChunk(r) PROVE IInv'
  BY <1>4, SaveChunkInv
<1>5. ASSUME NEW r \in Runs, Close(r) PROVE IInv'
  BY <1>5, CloseInv
<1>6. ASSUME NEW r \in Runs, Crash(r) PROVE IInv'
  BY <1>6, CrashInv
<1>7. ASSUME NEW d \in Decisions, Read(d) PROVE IInv'
  BY <1>7, ReadInv
<1>8. ASSUME NEW d \in Decisions, Load(d) PROVE IInv'
  BY <1>8, LoadInv
<1>9. ASSUME NEW d \in Decisions, Update(d) PROVE IInv'
  BY <1>9, UpdateInv
<1>10. CASE UNCHANGED vars
  <2>1. TypeOK'
    BY <1>10 DEF IInv, TypeOK, vars, marks
  <2>2. ScanInv'
    BY <1>10, RunsStand DEF IInv, vars
  <2>3. DecisionInv'
    BY <1>10 DEF IInv, DecisionInv, MeetingsKnown, AloneIsCurrent, DecisionsExclude,
                 Differing, Running, vars, marks
  <2>. QED  BY <2>1, <2>2, <2>3 DEF IInv
<1>. QED
  BY <1>1, <1>2, <1>3, <1>4, <1>5, <1>6, <1>7, <1>8, <1>9, <1>10 DEF Next

LEMMA InvHolds == Spec => []IInv
BY InitInv, NextInv, PTL DEF Spec

\* Every reachable run, race, finding and decision is well typed; in particular a
\* run never counts more findings than its scanners may report.
THEOREM TypeCorrect == Spec => []TypeOK
<1>1. IInv => TypeOK  BY DEF IInv
<1>. QED  BY <1>1, InvHolds, PTL

\* executeScan's tally is that of the rows saved and of the scanners reported as
\* ok, whatever the timeouts, late answers, chunks and crashes.
THEOREM TallyIsOfTheRows == Spec => []FindingsAddUp
<1>1. ASSUME IInv PROVE FindingsAddUp
  <2> SUFFICES ASSUME NEW r \in Runs
               PROVE  /\ Ended(r) =>
                           /\ run[r].findingCounts = Cardinality(RowsOf(r))
                           /\ \A s \in Scanners :
                                Cardinality({f \in RowsOf(r) : f[2] = s}) =
                                  IF run[r].outcomes[s] = "ok"
                                  THEN scan[r].races[s].found ELSE 0
                      /\ ~Ended(r) => run[r].findingCounts = -1
    BY DEF FindingsAddUp
  <2>1. TypeOK /\ RowsFollowSaving(r) /\ TallyTaken(r)
    BY <1>1 DEF IInv, ScanInv, RunInv
  <2>2. ASSUME Ended(r)
        PROVE  /\ run[r].findingCounts = Cardinality(RowsOf(r))
               /\ \A s \in Scanners : Cardinality({f \in RowsOf(r) : f[2] = s}) =
                    IF run[r].outcomes[s] = "ok" THEN scan[r].races[s].found ELSE 0
    <3>1. RowsOf(r) = Collected(r)
      BY <2>1, <2>2 DEF TallyTaken, RowsFollowSaving
    <3>2. run[r].findingCounts = Cardinality(Collected(r))
          /\ \A s \in Scanners : run[r].outcomes[s] = "ok" <=> RaceOf(r, s) = "ok"
      BY <2>1, <2>2 DEF TallyTaken
    <3>. QED  BY <2>1, <3>1, <3>2, CollectedOfScanner
  <2>. QED  BY <2>1, <2>2 DEF TallyTaken
<1>. QED  BY <1>1, InvHolds, PTL

\* promoteFinding and dismissFinding leave a finding both promoted and dismissed
\* only where two decisions about it overlapped.
THEOREM DecisionsThatMeet == Spec => []DecisionsExclude
<1>1. IInv => DecisionsExclude  BY DEF IInv, DecisionInv
<1>. QED  BY <1>1, InvHolds, PTL

-----------------------------------------------------------------------------
(* What is decided stands *)

\* A race that is over keeps its outcome, and one that was won what it brought.
RaceStands(r, s) ==
    RaceOf(r, s) \in {"ok", "failed"} =>
      /\ RaceOf(r, s)' = RaceOf(r, s)
      /\ RaceOf(r, s) = "ok" => scan'[r].races[s] = scan[r].races[s]

\* The row of a run that has ended and its findings' rows stay as they are.
EndStands(r) == Ended(r) => run'[r] = run[r] /\ RowsOf(r)' = RowsOf(r)

\* No late answer, timeout, chunk, decision or crash changes what was decided.
DecidedStands == [][\A r \in Runs : EndStands(r) /\ \A s \in Scanners : RaceStands(r, s)]_vars

LEMMA RacesStand ==
    ASSUME IInv, [Next]_vars, NEW q \in Runs, NEW x \in Scanners
    PROVE  RaceStands(q, x)
<1>1. /\ TypeOK /\ RacesFollowTiers(q) /\ scan[q].races \in [Scanners -> Race]
      /\ \A s \in Tier2 : s \notin Tier1
  BY ScanRecord, TiersAssumption DEF IInv, ScanInv, RunInv
<1>2. CASE scan'[q].races = scan[q].races
  BY <1>2 DEF RaceStands, RaceOf
<1>3. ASSUME NEW r \in Runs,
             \/ RunScan(r) \/ SaveChunk(r) \/ Close(r) \/ Crash(r) \/ Start(r)
             \/ AfterTier1(r) \/ AfterTier2(r) \/ \E s \in Scanners : Answer(r, s) \/ TimeOut(r, s)
      PROVE  RaceStands(q, x)
  <2>1. CASE RunScan(r) \/ SaveChunk(r) \/ Close(r) \/ Crash(r) \/ AfterTier2(r)
    <3> SUFFICES scan'[q].races = scan[q].races  BY <1>2
    <3>1. CASE RunScan(r)
      BY <1>1, <3>1 DEF RunScan, TypeOK, Scan
    <3>2. CASE SaveChunk(r)
      <4>1. CASE scan' = [scan EXCEPT ![r].pc = "closing"]
        BY <1>1, <4>1 DEF TypeOK, Scan
      <4>2. CASE \E chunk \in Chunks(scan[r].toInsert) :
                   scan' = [scan EXCEPT ![r].toInsert = @ \ chunk]
        BY <1>1, <4>2 DEF TypeOK, Scan
      <4>. QED  BY <3>2, <4>1, <4>2 DEF SaveChunk
    <3>3. CASE Close(r)
      BY <1>1, <3>3 DEF Close, TypeOK, Scan
    <3>4. CASE Crash(r)
      BY <1>1, <3>4 DEF Crash, TypeOK, Scan
    <3>5. CASE AfterTier2(r)
      BY <1>1, <3>5 DEF AfterTier2, TypeOK, Scan
    <3>. QED  BY <2>1, <3>1, <3>2, <3>3, <3>4, <3>5
  <2>2. CASE r # q
    BY <1>1, <1>2, <1>3, <2>2
    DEF RunScan, SaveChunk, Close, Crash, Start, AfterTier1, AfterTier2, Answer, TimeOut, TypeOK
  <2>3. CASE r = q /\ Start(r)
    BY <1>1, <2>3 DEF Start, RacesFollowTiers, RaceStands
  <2>4. CASE r = q /\ AfterTier1(r)
    <3>1. \/ scan'[q].races = scan[q].races
          \/ scan'[q].races = Started(scan[q].races, Tier2)
      BY <1>1, <2>4 DEF AfterTier1, TypeOK, Scan
    <3>2. CASE scan'[q].races = Started(scan[q].races, Tier2)
      <4>1. x \in Tier2 => RaceOf(q, x) = "idle"
        BY <1>1, <2>4 DEF AfterTier1, RacesFollowTiers
      <4>2. x \notin Tier2 => scan'[q].races[x] = scan[q].races[x]
        BY <3>2 DEF Started
      <4>. QED  BY <4>1, <4>2 DEF RaceStands, RaceOf
    <3>. QED  BY <1>2, <3>1, <3>2
  <2>5. ASSUME NEW s \in Scanners, r = q, Answer(r, s) PROVE RaceStands(q, x)
    <3>1. PICK outcome \in {"ok", "failed"}, n \in 0..MaxFound :
            scan' = [scan EXCEPT ![r].races[s] =
                       [race |-> Decided(scan[r].races[s].race, outcome),
                        answered |-> TRUE, found |-> n]]
      BY <1>1, <2>5 DEF Answer, TypeOK
    <3>2. CASE x = s
      <4>1. RaceOf(q, x)' = Decided(RaceOf(q, x), outcome)
        BY <1>1, <2>5, <3>1, <3>2 DEF TypeOK, Scan, RaceOf
      <4>2. RaceOf(q, x) # "ok"
        BY <1>1, <2>5, <3>2 DEF Answer, RacesFollowTiers
      <4>. QED  BY <4>1, <4>2 DEF Decided, RaceStands
    <3>3. CASE x # s
      <4>1. scan'[q].races[x] = scan[q].races[x]
        BY <1>1, <2>5, <3>1, <3>3 DEF TypeOK, Scan
      <4>. QED  BY <4>1 DEF RaceStands, RaceOf
    <3>. QED  BY <3>2, <3>3
  <2>6. ASSUME NEW s \in Scanners, r = q, TimeOut(r, s) PROVE RaceStands(q, x)
    <3>1. x # s => scan'[q].races[x] = scan[q].races[x]
      BY <1>1, <2>6 DEF TimeOut, TypeOK, Scan
    <3>. QED  BY <2>6, <3>1 DEF TimeOut, MayTimeOut, RaceStands, RaceOf
  <2>. QED  BY <1>3, <2>1, <2>2, <2>3, <2>4, <2>5, <2>6
<1>4. CASE (\E d \in Decisions : Read(d) \/ Load(d) \/ Update(d)) \/ UNCHANGED vars
  BY <1>2, <1>4 DEF Read, Load, Update, vars
<1>. QED  BY <1>3, <1>4 DEF Next

LEMMA EndsStand ==
    ASSUME IInv, [Next]_vars, NEW q \in Runs
    PROVE  EndStands(q)
<1> SUFFICES ASSUME Ended(q) PROVE run'[q] = run[q] /\ RowsOf(q)' = RowsOf(q)
  BY DEF EndStands
<1>1. TypeOK /\ scan[q].pc = "over"
  BY DEF IInv, ScanInv, RunInv, TallyTaken
<1>2. CASE UNCHANGED <<run, rows>>
  BY <1>2 DEF RowsOf
<1>3. ASSUME NEW r \in Runs, RunScan(r) \/ Start(r) \/ Close(r)
      PROVE  run'[q] = run[q] /\ RowsOf(q)' = RowsOf(q)
  <2>1. r # q /\ rows' = rows
    BY <1>1, <1>3 DEF RunScan, Start, Close
  <2>. QED  BY <1>1, <1>3, <2>1 DEF RunScan, Start, Close, TypeOK, RowsOf
<1>4. ASSUME NEW r \in Runs, SaveChunk(r)
      PROVE  run'[q] = run[q] /\ RowsOf(q)' = RowsOf(q)
  <2>1. /\ r # q /\ run' = run
        /\ RowsOf(r) \cup scan[r].toInsert = Collected(r)
    BY <1>1, <1>4 DEF SaveChunk, IInv, ScanInv, RunInv, RowsFollowSaving
  <2>2. \A f \in rows' \ rows : f[1] = r
    BY <1>4, <2>1 DEF SaveChunk, Chunks, Collected
  <2>3. rows \subseteq rows'
    BY <1>4 DEF SaveChunk
  <2>. QED  BY <2>1, <2>2, <2>3 DEF RowsOf
<1>5. ASSUME NEW r \in Runs,
             \/ AfterTier1(r) \/ AfterTier2(r) \/ Crash(r)
             \/ \E s \in Scanners : Answer(r, s) \/ TimeOut(r, s)
      PROVE  UNCHANGED <<run, rows>>
  BY <1>5 DEF AfterTier1, AfterTier2, Crash, Answer, TimeOut
<1>6. CASE (\E d \in Decisions : Read(d) \/ Load(d) \/ Update(d)) \/ UNCHANGED vars
  BY <1>2, <1>6 DEF Read, Load, Update, vars
<1>. QED  BY <1>2, <1>3, <1>4, <1>5, <1>6 DEF Next

\* withTimeout's race is decided once, so what a late scanner answers is never taken, and
\* what an ended run has told its readers does not change (executeScan).
THEOREM WhatIsDecidedStands == Spec => DecidedStands
<1>1. IInv /\ [Next]_vars =>
        [\A r \in Runs : EndStands(r) /\ \A s \in Scanners : RaceStands(r, s)]_vars
  BY RacesStand, EndsStand
<1>. QED  BY <1>1, InvHolds, PTL DEF Spec, DecidedStands

-----------------------------------------------------------------------------
(* The demo scan *)

\* Job m ran its checks, which ended on domain d.
Probed(m, d) ==
    /\ job[m] # Absent /\ job[m].domain = d /\ ~job[m].fromCache
    /\ runScan[m].pc = "done"

\* What the cache of a domain shows: its results, and what is derived from them.
Shown(d) == domainCache[d].results \o deriveComplianceChecks(domainCache[d].results)

IsJob(e) ==
    /\ e = [status |-> e.status, domain |-> e.domain, fromCache |-> e.fromCache,
            createdAt |-> e.createdAt, results |-> e.results]
    /\ e.status \in {"running", "complete"} /\ e.domain \in Domains
    /\ e.fromCache \in BOOLEAN /\ e.createdAt \in Nat
    /\ e.status = "running" => e.results = <<>> /\ ~e.fromCache

IsRun(e) ==
    /\ e = [pc |-> e.pc, page |-> e.page, tls |-> e.tls, net |-> e.net, open |-> e.open,
            late |-> e.late, endedAt |-> e.endedAt]
    /\ e.pc \in {"unused", "fetch", "tls", "checks", "done", "lost"} /\ e.endedAt \in Nat
    /\ e.open \subseteq Slow /\ e.late \subseteq Slow \ e.open
    /\ e.pc # "checks" => e.open = {} /\ e.late = {}

IsStream(e) ==
    /\ e = [pc |-> e.pc, job |-> e.job, heard |-> e.heard, final |-> e.final]
    /\ e.pc \in {"waiting", "opened", "live", "ended", "not_found", "broken"}
    /\ e.job \in Scans \cup {"none"}
    /\ e.pc # "waiting" => e.job \in Scans

\* The maps and what they hold.
DemoMaps ==
    /\ job = [j \in Scans |-> job[j]] /\ runScan = [j \in Scans |-> runScan[j]]
    /\ stream = [s \in Streams |-> stream[s]]
    /\ domainCache = [d \in Domains |-> domainCache[d]]
    /\ \A j \in Scans : job[j] # Absent => IsJob(job[j])
    /\ \A j \in Scans : IsRun(runScan[j])
    /\ \A s \in Streams : IsStream(stream[s])
    /\ \A d \in Domains : domainCache[d] = Empty \/ domainCache[d].createdAt \in Nat
    /\ rateLimit \in [Ips -> [count: 0..RATE_LIMIT_MAX, windowStart: 0..MaxTime]]
    /\ now \in 0..MaxTime /\ restarts \in 0..MaxRestarts

\* Nothing ended or was created later than now.
DemoPast ==
    /\ \A j \in Scans : runScan[j].endedAt <= now
    /\ \A j \in Scans : job[j] # Absent => job[j].createdAt <= now
    /\ \A d \in Domains : domainCache[d].createdAt <= now

\* A job and its run keep step: none before it starts and after a restart.
JobsFollowRuns ==
    \A j \in Scans :
      /\ job[j] = Absent <=> runScan[j].pc \in {"unused", "lost"}
      /\ runScan[j].pc \in {"fetch", "tls", "checks"} <=> job[j].status = "running"

\* A stream has heard what its job has: nothing while it runs, all when it is complete.
Follows(e) ==
    \A j \in Scans : e.job = j =>
      /\ e.pc # "waiting" => runScan[j].pc # "unused"
      /\ e.pc = "opened" => job[j] # Absent
      /\ e.pc = "live" => job[j].status = "running" /\ e.heard = <<>>
      /\ e.pc = "ended" /\ job[j] # Absent =>
           /\ job[j].status = "complete"
           /\ e.heard = job[j].results /\ e.final = Final(job[j])

StreamsFollowJobs == \A s \in Streams : Follows(stream[s])

\* What a cache shows is what the newest run of its domain showed, and it is as old.
CacheFollowsRuns ==
    \A d \in Domains : domainCache[d] # Empty =>
      /\ \E k \in Scans : /\ Probed(k, d) /\ job[k].results = Shown(d)
                          /\ runScan[k].endedAt = domainCache[d].createdAt
      /\ \A m \in Scans : Probed(m, d) => runScan[m].endedAt <= domainCache[d].createdAt

\* Job i, from the cache, shows what job k found.
Shows(i, k) ==
    /\ Probed(k, job[i].domain) /\ job[i].results = job[k].results
    /\ job[i].createdAt - runScan[k].endedAt \in 0..CACHE_TTL
    /\ \A m \in Scans :
         Probed(m, job[i].domain) /\ runScan[m].endedAt < job[i].createdAt =>
           runScan[m].endedAt <= runScan[k].endedAt

HitsShowNewest ==
    \A i \in Scans : job[i] # Absent /\ job[i].fromCache => \E k \in Scans : Shows(i, k)

DemoInv ==
    /\ DemoMaps /\ DemoPast /\ JobsFollowRuns /\ StreamsFollowJobs
    /\ CacheFollowsRuns /\ HitsShowNewest

-----------------------------------------------------------------------------
InRun == {"fetch", "tls", "checks"}

LEMMA DemoEmpties ==
    /\ Absent.status = "absent" /\ Empty.createdAt = -1
    /\ \A e : IsJob(e) => e # Absent
BY DEF Absent, Empty, IsJob

LEMMA DemoInitKeeps ==
    ASSUME DemoInit
    PROVE  DemoInv
<1>1. IsRun(NoRun)
  BY DEF IsRun, NoRun
<1>2. ASSUME NEW s \in Streams
      PROVE  IsStream(stream[s]) /\ stream[s].pc = "waiting" /\ stream[s].job = "none"
  BY DEF DemoInit, IsStream
<1>3. rateLimit \in [Ips -> [count: 0..RATE_LIMIT_MAX, windowStart: 0..MaxTime]]
  BY LimitsAreNaturals DEF DemoInit, NoWindows
<1>4. DemoMaps
  BY LimitsAreNaturals, <1>1, <1>2, <1>3, DemoEmpties
  DEF DemoMaps, DemoInit, NoCache
<1>5. DemoPast /\ JobsFollowRuns
  BY DemoEmpties DEF DemoPast, JobsFollowRuns, DemoInit, NoCache, NoRun
<1>6. StreamsFollowJobs
  BY <1>2 DEF StreamsFollowJobs, Follows, DemoInit, NoRun
<1>7. CacheFollowsRuns /\ HitsShowNewest
  BY DEF CacheFollowsRuns, HitsShowNewest, DemoInit, NoCache
<1>. QED  BY <1>4, <1>5, <1>6, <1>7 DEF DemoInv

\* A run on its way to its end.
LEMMA RunGoesOn ==
    ASSUME DemoInv, NEW j \in Scans, NEW v,
           runScan[j].pc \in InRun, v.pc \in InRun, IsRun(v),
           v.endedAt = runScan[j].endedAt,
           runScan' = [runScan EXCEPT ![j] = v],
           UNCHANGED <<job, domainCache, rateLimit, stream, now, restarts>>
    PROVE  DemoInv'
<1>1. /\ \A k \in Scans : k # j => runScan'[k] = runScan[k]
      /\ runScan'[j] = v /\ runScan' = [k \in Scans |-> runScan'[k]]
  BY DEF DemoInv, DemoMaps
<1>2. DemoMaps'
  BY LimitsAreNaturals, <1>1 DEF DemoInv, DemoMaps, IsJob, IsRun, IsStream
<1>3. DemoPast' /\ JobsFollowRuns'
  BY <1>1 DEF DemoInv, DemoPast, JobsFollowRuns, InRun
<1>4. StreamsFollowJobs'
  BY <1>1 DEF DemoInv, StreamsFollowJobs, Follows, InRun
<1>5. \A m \in Scans : m # j => runScan'[m] = runScan[m]
  BY <1>1
<1>6. runScan[j].pc # "done" /\ runScan'[j].pc # "done"
  BY <1>1 DEF InRun
<1>7. CacheFollowsRuns'
  <2>1. \A m \in Scans, d \in Domains :
          /\ Probed(m, d)' <=> Probed(m, d)
          /\ Probed(m, d) => runScan'[m] = runScan[m]
    BY <1>5, <1>6 DEF Probed
  <2>2. \A d \in Domains : Shown(d)' = Shown(d)
    BY DEF Shown
  <2>. QED  BY <2>1, <2>2 DEF DemoInv, CacheFollowsRuns
<1>8. HitsShowNewest'
  <2>1. \A m, i \in Scans :
          /\ Probed(m, job[i].domain)' <=> Probed(m, job[i].domain)
          /\ Probed(m, job[i].domain) => runScan'[m] = runScan[m]
    BY <1>5, <1>6 DEF Probed
  <2>2. \A i, k \in Scans : Shows(i, k) => Shows(i, k)'
    BY <2>1 DEF Shows
  <2>. QED  BY <2>2 DEF DemoInv, HitsShowNewest
<1>. QED  BY <1>2, <1>3, <1>4, <1>7, <1>8 DEF DemoInv

\* A step of a stream alone.
LEMMA StreamMoves ==
    ASSUME DemoInv, NEW s \in Streams, NEW v, IsStream(v), Follows(v),
           stream' = [stream EXCEPT ![s] = v],
           UNCHANGED <<job, runScan, domainCache, rateLimit, now, restarts>>
    PROVE  DemoInv'
<1>1. /\ \A t \in Streams : stream'[t] = IF t = s THEN v ELSE stream[t]
      /\ stream' = [t \in Streams |-> stream'[t]]
  BY DEF DemoInv, DemoMaps
<1>2. DemoMaps'
  BY LimitsAreNaturals, <1>1 DEF DemoInv, DemoMaps, IsJob, IsRun, IsStream
<1>3. DemoPast' /\ JobsFollowRuns'
  BY DEF DemoInv, DemoPast, JobsFollowRuns
<1>4. StreamsFollowJobs'
  BY <1>1 DEF DemoInv, StreamsFollowJobs, Follows
<1>5. CacheFollowsRuns' /\ HitsShowNewest'
  BY DEF DemoInv, CacheFollowsRuns, Probed, Shown, HitsShowNewest, Shows
<1>. QED  BY <1>2, <1>3, <1>4, <1>5 DEF DemoInv

\* A new job, from the cache or not, that no stream and no cache knows.
LEMMA JobStarts ==
    ASSUME DemoInv, NEW j \in Scans, runScan[j].pc = "unused",
           NEW e, IsJob(e), e.createdAt = now,
           NEW v, IsRun(v), v.endedAt <= now,
           IF e.fromCache THEN e.status = "complete" /\ v.pc = "done"
                          ELSE e.status = "running" /\ v.pc \in InRun,
           e.fromCache => /\ domainCache[e.domain] # Empty
                          /\ e.results = Shown(e.domain)
                          /\ now - domainCache[e.domain].createdAt <= CACHE_TTL,
           job' = [job EXCEPT ![j] = e], runScan' = [runScan EXCEPT ![j] = v],
           rateLimit' \in [Ips -> [count: 0..RATE_LIMIT_MAX, windowStart: 0..MaxTime]],
           domainCache' = domainCache \/ domainCache' = [domainCache EXCEPT ![e.domain] = Empty],
           UNCHANGED <<stream, now, restarts>>
    PROVE  DemoInv'
<1>1. /\ \A k \in Scans : k # j => runScan'[k] = runScan[k] /\ job'[k] = job[k]
      /\ runScan'[j] = v /\ runScan' = [k \in Scans |-> runScan'[k]]
      /\ job'[j] = e /\ job' = [k \in Scans |-> job'[k]]
      /\ e # Absent /\ job[j] = Absent
  BY DemoEmpties DEF DemoInv, DemoMaps, JobsFollowRuns
<1>2. /\ \A d \in Domains : domainCache'[d] = domainCache[d] \/ domainCache'[d] = Empty
      /\ domainCache' = [d \in Domains |-> domainCache'[d]]
  BY DEF DemoInv, DemoMaps, IsJob
<1>3. DemoMaps'
  BY LimitsAreNaturals, <1>1, <1>2 DEF DemoInv, DemoMaps, IsJob, IsRun, IsStream
<1>4. DemoPast' /\ JobsFollowRuns'
  <2>1. now \in Nat
    BY LimitsAreNaturals DEF DemoInv, DemoMaps
  <2>2. DemoPast'
    BY <1>1, <1>2, <2>1, DemoEmpties DEF DemoInv, DemoPast
  <2>3. JobsFollowRuns'
    BY <1>1, DemoEmpties DEF DemoInv, JobsFollowRuns, InRun, IsJob
  <2>. QED  BY <2>2, <2>3
<1>5. StreamsFollowJobs'
  <2>1. ASSUME NEW s \in Streams
        PROVE  Follows(stream[s])'
    <3>1. stream[s].pc # "waiting" => stream[s].job # j
      BY DEF DemoInv, StreamsFollowJobs, Follows
    <3>2. ASSUME NEW k \in Scans, k # j
          PROVE  Final(job[k])' = Final(job[k])
      BY <1>1, <3>2
    <3>. QED  BY <1>1, <3>1, <3>2 DEF DemoInv, StreamsFollowJobs, Follows
  <2>. QED  BY <2>1 DEF StreamsFollowJobs
<1>6. \A m \in Scans, d \in Domains :
        /\ Probed(m, d)' <=> Probed(m, d)
        /\ Probed(m, d) => job'[m] = job[m] /\ runScan'[m] = runScan[m]
  BY <1>1 DEF Probed, InRun
<1>7. CacheFollowsRuns'
  <2>1. SUFFICES ASSUME NEW d \in Domains, domainCache'[d] # Empty
                 PROVE  /\ \E k \in Scans : /\ Probed(k, d)' /\ job'[k].results = Shown(d)'
                                            /\ runScan'[k].endedAt = domainCache'[d].createdAt
                        /\ \A m \in Scans : Probed(m, d)' =>
                             runScan'[m].endedAt <= domainCache'[d].createdAt
    BY DEF CacheFollowsRuns
  <2>2. domainCache'[d] = domainCache[d]
    BY <1>2, <2>1
  <2>3. Shown(d)' = Shown(d)
    BY <2>2 DEF Shown
  <2>. QED  BY <1>6, <2>1, <2>2, <2>3 DEF DemoInv, CacheFollowsRuns
<1>8. HitsShowNewest'
  <2>1. SUFFICES ASSUME NEW i \in Scans, job'[i] # Absent, job'[i].fromCache
                 PROVE  \E k \in Scans : Shows(i, k)'
    BY DEF HitsShowNewest
  <2>2. CASE i = j
    <3>1. PICK k \in Scans : /\ Probed(k, e.domain) /\ job[k].results = Shown(e.domain)
                             /\ runScan[k].endedAt = domainCache[e.domain].createdAt
      BY <1>1, <2>1, <2>2 DEF DemoInv, CacheFollowsRuns, IsJob
    <3>2. \A m \in Scans : Probed(m, e.domain) => runScan[m].endedAt <= runScan[k].endedAt
      BY <1>1, <2>1, <2>2, <3>1 DEF DemoInv, CacheFollowsRuns, IsJob
    <3>3. now - runScan[k].endedAt \in 0..CACHE_TTL
      BY LimitsAreNaturals, <1>1, <2>1, <2>2, <3>1 DEF DemoInv, DemoPast, DemoMaps, IsRun
    <3>4. /\ Probed(k, job[j].domain)'
          /\ \A m \in Scans : Probed(m, job[j].domain)' => Probed(m, e.domain)
      BY <1>1, <1>6, <3>1 DEF IsJob, Probed
    <3>5. /\ runScan'[k] = runScan[k] /\ job'[k] = job[k] /\ job'[j] = e
          /\ e.results = job[k].results
      BY <1>1, <1>6, <2>1, <2>2, <3>1 DEF IsJob
    <3>6. \A m \in Scans : Probed(m, job[j].domain)' => runScan'[m].endedAt <= runScan'[k].endedAt
      BY <1>1, <1>6, <3>1, <3>2, <3>4, <3>5 DEF IsJob
    <3>7. Shows(j, k)'
      BY <3>3, <3>4, <3>5, <3>6 DEF Shows
    <3>. QED  BY <2>2, <3>7
  <2>3. CASE i # j
    <3>1. job'[i] = job[i] /\ job[i].domain \in Domains
      BY <1>1, <2>1, <2>3 DEF DemoInv, DemoMaps, IsJob
    <3>2. PICK k \in Scans : Shows(i, k)
      BY <2>1, <3>1 DEF DemoInv, HitsShowNewest
    <3>3. \A m \in Scans : Probed(m, job[i].domain)' <=> Probed(m, job[i].domain)
      BY <1>1, <3>1 DEF Probed, InRun
    <3>4. Shows(i, k)'
      BY <1>6, <3>1, <3>2, <3>3 DEF Shows
    <3>. QED  BY <3>4
  <2>. QED  BY <2>2, <2>3
<1>. QED  BY <1>3, <1>4, <1>5, <1>7, <1>8 DEF DemoInv

\* A job at its end.
LEMMA JobCompletes ==
    ASSUME NEW e, NEW r,
           e = [status |-> e.status, domain |-> e.domain, fromCache |-> e.fromCache,
                createdAt |-> e.createdAt, results |-> e.results],
           e.domain \in Domains, e.fromCache \in BOOLEAN, e.createdAt \in Nat
    PROVE  LET v == Completed(e, r)
           IN  /\ IsJob(v) /\ v.status = "complete" /\ v.results = r
               /\ v.domain = e.domain /\ (v.fromCache <=> e.fromCache)
               /\ v.createdAt = e.createdAt
<1>1. PICK v : v = Completed(e, r)
  OBVIOUS
<1>2. /\ v.status = "complete" /\ v.results = r
      /\ v.domain = e.domain /\ v.fromCache = e.fromCache /\ v.createdAt = e.createdAt
      /\ v.fromCache \in BOOLEAN
  BY <1>1 DEF Completed
<1>3. v = [status |-> v.status, domain |-> v.domain, fromCache |-> v.fromCache,
           createdAt |-> v.createdAt, results |-> v.results]
  BY <1>1 DEF Completed
<1>4. IsJob(v)
  BY <1>2, <1>3 DEF IsJob
<1>. QED  BY <1>1, <1>2, <1>4

\* The end of a run, in a job from the cache and in one that ran.
HitOver(e, t) == [e EXCEPT !.pc = "done", !.endedAt = t]
RunOver(e, t) ==
    [e EXCEPT !.pc = "done", !.page = NoPage, !.tls = NoTls, !.net = "none",
              !.late = {}, !.endedAt = t]

LEMMA RunIsOver ==
    ASSUME NEW e, IsRun(e), e.open = {}, NEW t \in Nat, NEW v,
           (v = HitOver(e, t) /\ e.late = {}) \/ v = RunOver(e, t)
    PROVE  IsRun(v) /\ v.pc = "done" /\ v.endedAt = t
<1>1. v.pc = "done" /\ v.endedAt = t /\ v.open = {} /\ v.late = {}
  BY DEF IsRun, HitOver, RunOver
<1>2. v = [pc |-> v.pc, page |-> v.page, tls |-> v.tls, net |-> v.net, open |-> v.open,
           late |-> v.late, endedAt |-> v.endedAt]
  BY DEF IsRun, HitOver, RunOver
<1>. QED  BY <1>1, <1>2 DEF IsRun

\* A stream that heard nothing yet is told everything.
Hearing(e, all, f) == [e EXCEPT !.pc = "ended", !.heard = e.heard \o all, !.final = f]

LEMMA StreamIsTold ==
    ASSUME NEW e, IsStream(e), e.heard = <<>>, e.job \in Scans,
           NEW all, <<>> \o all = all, NEW f, NEW v, v = Hearing(e, all, f)
    PROVE  IsStream(v) /\ v.pc = "ended" /\ v.job = e.job /\ v.heard = all /\ v.final = f
<1>1. v.pc = "ended" /\ v.job = e.job /\ v.heard = all /\ v.final = f
  BY DEF IsStream, Hearing
<1>2. v = [pc |-> v.pc, job |-> v.job, heard |-> v.heard, final |-> v.final]
  BY DEF IsStream, Hearing
<1>. QED  BY <1>1, <1>2 DEF IsStream

LEMMA StartKeeps ==
    ASSUME DemoInv, NEW j \in Scans, NEW d \in Domains, NEW i \in Ips, StartScan(j, d, i)
    PROVE  DemoInv'
<1>1. /\ runScan[j].pc = "unused" /\ IsRun(runScan[j]) /\ runScan[j].endedAt <= now
      /\ now \in 0..MaxTime
  BY DEF DemoInv, DemoMaps, DemoPast, StartScan, NewId, Unused
<1>2. rateLimit' \in [Ips -> [count: 0..RATE_LIMIT_MAX, windowStart: 0..MaxTime]]
  <2>1. rateLimit[i] \in [count: 0..RATE_LIMIT_MAX, windowStart: 0..MaxTime]
    BY DEF DemoInv, DemoMaps
  <2>2. Counted(rateLimit[i]) \in [count: 0..RATE_LIMIT_MAX, windowStart: 0..MaxTime]
    BY LimitsAreNaturals, <1>1, <2>1 DEF DemoInv, StartScan, Limited, Counted
  <2>. QED  BY <2>2 DEF DemoInv, DemoMaps, StartScan
<1>3. CASE Fresh(d)
  <2> DEFINE n == NewJob(d, Shown(d), TRUE)
             e == Completed(n, Shown(d))
             v == [runScan[j] EXCEPT !.pc = "done", !.endedAt = now]
  <2>1. IsJob(e) /\ e.createdAt = now /\ e.fromCache /\ e.status = "complete"
        /\ e.domain = d /\ e.results = Shown(d)
    <3>1. /\ n.domain = d /\ n.createdAt = now
          /\ n.fromCache /\ n.fromCache \in BOOLEAN
      BY DEF NewJob
    <3>2. n = [status |-> n.status, domain |-> n.domain, fromCache |-> n.fromCache,
               createdAt |-> n.createdAt, results |-> n.results]
      BY DEF NewJob
    <3>. HIDE DEF n
    <3>3. n.domain \in Domains /\ n.createdAt \in Nat
      BY ONLY <1>1, <3>1, d \in Domains
    <3>4. /\ IsJob(e) /\ e.status = "complete" /\ e.results = Shown(d)
          /\ e.domain = n.domain /\ (e.fromCache <=> n.fromCache) /\ e.createdAt = n.createdAt
      BY <3>1, <3>2, <3>3, JobCompletes
    <3>. HIDE DEF e
    <3>. QED  BY <3>1, <3>4
  <2>2. IsRun(v) /\ v.endedAt <= now /\ v.pc = "done"
    <3>1. now \in Nat /\ now <= now /\ runScan[j].open = {} /\ runScan[j].late = {}
      BY <1>1 DEF IsRun
    <3>2. v = HitOver(runScan[j], now)
      BY DEF HitOver
    <3>. HIDE DEF v
    <3>3. IsRun(v) /\ v.pc = "done" /\ v.endedAt = now
      BY <1>1, <3>1, <3>2, RunIsOver
    <3>. QED  BY <3>1, <3>3
  <2>3. job' = [job EXCEPT ![j] = e]
    BY <1>3 DEF StartScan, Shown
  <2>4. runScan' = [runScan EXCEPT ![j] = v] /\ UNCHANGED <<domainCache, stream, now, restarts>>
    BY <1>3 DEF StartScan
  <2>5. domainCache[d] # Empty /\ now - domainCache[d].createdAt <= CACHE_TTL
    BY <1>3 DEF Fresh
  <2>. HIDE DEF n, e, v
  <2>. QED  BY <1>1, <1>2, <2>1, <2>2, <2>3, <2>4, <2>5, JobStarts
<1>4. CASE ~Fresh(d)
  <2> DEFINE e == NewJob(d, <<>>, FALSE)
             v == [runScan[j] EXCEPT !.pc = "fetch"]
  <2>1. IsJob(e) /\ e.createdAt = now /\ ~e.fromCache /\ e.status = "running" /\ e.domain = d
    BY LimitsAreNaturals, <1>1 DEF NewJob, IsJob, DemoInv
  <2>2. IsRun(v) /\ v.endedAt <= now /\ v.pc \in InRun
    BY LimitsAreNaturals, <1>1 DEF IsRun, InRun, DemoInv
  <2>3. job' = [job EXCEPT ![j] = e]
    BY <1>4 DEF StartScan
  <2>4. /\ runScan' = [runScan EXCEPT ![j] = v]
        /\ domainCache' = [domainCache EXCEPT ![d] = Empty]
        /\ UNCHANGED <<stream, now, restarts>>
    BY <1>4 DEF StartScan
  <2>. HIDE DEF e, v
  <2>. QED  BY <1>1, <1>2, <2>1, <2>2, <2>3, <2>4, JobStarts
<1>. QED  BY <1>3, <1>4

LEMMA FunctionIsSequence ==
    ASSUME NEW S, NEW n \in Nat, NEW f \in [1..n -> S]
    PROVE  f \in Seq(S)
OBVIOUS

\* The results of a run are a sequence.
LEMMA ResultsAreSequence ==
    ASSUME NEW o
    PROVE  LET all == SettledChecks(o) \o deriveComplianceChecks(SettledChecks(o))
           IN  <<>> \o all = all
<1> DEFINE main == SettledChecks(o)
           derived == deriveComplianceChecks(main)
           answers == Answers(o.page, o.tls, o.net)
           mains == {main[i] : i \in 1..32}
           deriveds == {derived[i] : i \in 1..4}
<1>1. main \in Seq(mains)
  <2>1. DOMAIN answers = 1..32
    BY DEF Answers
  <2>2. main = [i \in 1..32 |-> main[i]]
    <3>. HIDE DEF answers
    <3>. QED  BY <2>1 DEF SettledChecks, answers
  <2>3. main \in [1..32 -> mains]
    <3>. HIDE DEF main
    <3>. QED  BY <2>2
  <2>. HIDE DEF main, mains
  <2>. QED  BY <2>3, 32 \in Nat, FunctionIsSequence
<1>2. derived \in Seq(deriveds)
  <2>. HIDE DEF main
  <2>1. DOMAIN derived = 1..4 /\ derived = [i \in 1..4 |-> derived[i]]
    BY DEF deriveComplianceChecks
  <2>. HIDE DEF derived
  <2>2. derived \in [1..4 -> deriveds]
    BY <2>1
  <2>. HIDE DEF deriveds
  <2>. QED  BY <2>2, 4 \in Nat, FunctionIsSequence
<1>. HIDE DEF main, derived, mains, deriveds
<1>3. main \in Seq(mains \cup deriveds) /\ derived \in Seq(mains \cup deriveds)
  BY <1>1, <1>2, SeqMonotonic
<1>4. main \o derived \in Seq(mains \cup deriveds)
  BY <1>3, ConcatProperties
<1>5. <<>> \o (main \o derived) = main \o derived
  BY <1>4, ConcatEmptySeq
<1>. QED  BY <1>5 DEF main, derived

\* The run of job j ends, which becomes e.
LEMMA RunEnds ==
    ASSUME DemoInv, NEW j \in Scans, runScan[j].pc = "checks",
           NEW main, NEW all, NEW e, NEW v, NEW c,
           all = main \o deriveComplianceChecks(main), <<>> \o all = all,
           IsJob(e), e.status = "complete", e.domain = job[j].domain,
           ~e.fromCache, e.createdAt = job[j].createdAt, e.results = all,
           IsRun(v), v.pc = "done", v.endedAt = now,
           c.createdAt = now, c.results = main,
           job' = [job EXCEPT ![j] = e], runScan' = [runScan EXCEPT ![j] = v],
           domainCache' = [domainCache EXCEPT ![job[j].domain] = c],
           stream' = Told(e, j),
           UNCHANGED <<rateLimit, now, restarts>>
    PROVE  DemoInv'
<1>1. /\ \A k \in Scans : k # j => runScan'[k] = runScan[k] /\ job'[k] = job[k]
      /\ runScan'[j] = v /\ runScan' = [k \in Scans |-> runScan'[k]]
      /\ job'[j] = e /\ job' = [k \in Scans |-> job'[k]]
      /\ e # Absent /\ job[j] # Absent /\ IsJob(job[j]) /\ ~job[j].fromCache
      /\ job[j].status = "running" /\ now \in 0..MaxTime /\ now \in Nat
  <2>1. job[j].status = "running" /\ job[j] # Absent
    BY DEF DemoInv, JobsFollowRuns
  <2>2. IsJob(job[j]) /\ ~job[j].fromCache
    BY <2>1 DEF DemoInv, DemoMaps, IsJob
  <2>3. now \in 0..MaxTime /\ now \in Nat
    BY LimitsAreNaturals DEF DemoInv, DemoMaps
  <2>4. e # Absent
    BY DemoEmpties
  <2>5. /\ \A k \in Scans : k # j => runScan'[k] = runScan[k] /\ job'[k] = job[k]
        /\ runScan'[j] = v /\ runScan' = [k \in Scans |-> runScan'[k]]
        /\ job'[j] = e /\ job' = [k \in Scans |-> job'[k]]
    BY DEF DemoInv, DemoMaps
  <2>. QED  BY <2>1, <2>2, <2>3, <2>4, <2>5
<1>2. /\ \A d \in Domains : domainCache'[d] = IF d = e.domain THEN c ELSE domainCache[d]
      /\ domainCache' = [d \in Domains |-> domainCache'[d]] /\ c # Empty
  <2>1. c # Empty
    BY <1>1, DemoEmpties
  <2>2. e.domain \in Domains
    BY DEF IsJob
  <2>3. domainCache' = [domainCache EXCEPT ![e.domain] = c]
    OBVIOUS
  <2>. QED  BY <2>1, <2>2, <2>3 DEF DemoInv, DemoMaps
<1>3. ASSUME NEW s \in Streams
      PROVE  IsStream(stream'[s]) /\ Follows(stream[s])'
  <2>1. IsStream(stream[s]) /\ Follows(stream[s])
    BY DEF DemoInv, DemoMaps, StreamsFollowJobs
  <2>2. CASE stream[s].pc = "live" /\ stream[s].job = j
    <3>1. stream'[s] = [stream[s] EXCEPT !.pc = "ended", !.heard = @ \o all, !.final = Final(e)]
      BY <2>2 DEF Told
    <3>2. stream[s].heard = <<>>
      BY <2>1, <2>2 DEF Follows
    <3>3. /\ IsStream(stream'[s]) /\ stream'[s].pc = "ended" /\ stream'[s].job = j
          /\ stream'[s].heard = all /\ stream'[s].final = Final(e)
      <4> DEFINE w == stream'[s]
                 f == Final(e)
      <4>1. w = Hearing(stream[s], all, f)
        BY <3>1 DEF Hearing
      <4>. HIDE DEF w, f
      <4>2. IsStream(w) /\ w.pc = "ended" /\ w.job = stream[s].job /\ w.heard = all /\ w.final = f
        <5>1. IsStream(stream[s]) /\ stream[s].job \in Scans /\ <<>> \o all = all
          BY <2>1, <2>2
        <5>. QED  BY ONLY <3>2, <4>1, <5>1, StreamIsTold
      <4>. QED  BY <2>2, <4>2 DEF w, f
    <3>4. Final(job[j])' = Final(e)
      BY <1>1
    <3>5. Follows(stream[s])'
      BY <1>1, <3>3, <3>4 DEF Follows
    <3>. QED  BY <3>3, <3>5
  <2>3. CASE ~(stream[s].pc = "live" /\ stream[s].job = j)
    <3>1. stream'[s] = stream[s]
      BY <2>3 DEF Told
    <3>2. stream[s].job = j => stream[s].pc \notin {"ended", "live"}
      BY <1>1, <2>1, <2>3 DEF Follows
    <3>3. ASSUME NEW k \in Scans, k # j
          PROVE  Final(job[k])' = Final(job[k])
      BY <1>1, <3>3
    <3>4. Follows(stream[s])'
      BY <1>1, <2>1, <3>1, <3>2, <3>3 DEF Follows
    <3>. QED  BY <2>1, <3>1, <3>4
  <2>. QED  BY <2>2, <2>3
<1>4. DemoMaps'
  <2>1. stream' = [s \in Streams |-> stream'[s]]
    BY DEF Told
  <2>. QED  BY LimitsAreNaturals, <1>1, <1>2, <1>3, <2>1 DEF DemoInv, DemoMaps, IsJob, IsRun
<1>5. DemoPast'
  BY <1>1, <1>2 DEF DemoInv, DemoPast
<1>6. JobsFollowRuns'
  BY <1>1 DEF DemoInv, JobsFollowRuns
<1>7. StreamsFollowJobs'
  BY <1>3 DEF StreamsFollowJobs
<1>8. /\ \A m \in Scans, d \in Domains : Probed(m, d)' <=> Probed(m, d) \/ (m = j /\ d = e.domain)
      /\ \A m \in Scans, d \in Domains :
           Probed(m, d) => m # j /\ runScan'[m] = runScan[m] /\ job'[m] = job[m]
  BY <1>1 DEF Probed
<1>9. CacheFollowsRuns'
  <2>1. SUFFICES ASSUME NEW d \in Domains, domainCache'[d] # Empty
                 PROVE  /\ \E k \in Scans : /\ Probed(k, d)' /\ job'[k].results = Shown(d)'
                                            /\ runScan'[k].endedAt = domainCache'[d].createdAt
                        /\ \A m \in Scans : Probed(m, d)' =>
                             runScan'[m].endedAt <= domainCache'[d].createdAt
    BY DEF CacheFollowsRuns
  <2>2. CASE d = e.domain
    <3>1. Shown(d)' = all
      BY <1>2, <2>2 DEF Shown
    <3>2. Probed(j, d)' /\ job'[j].results = all
      BY <1>1, <1>8, <2>2
    <3>3. \A m \in Scans : runScan'[m].endedAt <= now
      BY <1>1, <1>5 DEF DemoPast
    <3>4. domainCache'[d].createdAt = now /\ runScan'[j].endedAt = now
      BY <1>1, <1>2, <2>2
    <3>. QED  BY <3>1, <3>2, <3>3, <3>4
  <2>3. CASE d # e.domain
    <3>1. domainCache'[d] = domainCache[d]
      BY <1>2, <2>3
    <3>2. Shown(d)' = Shown(d)
      BY <3>1 DEF Shown
    <3>. QED  BY <1>8, <2>1, <2>3, <3>1, <3>2 DEF DemoInv, CacheFollowsRuns
  <2>. QED  BY <2>2, <2>3
<1>10. HitsShowNewest'
  <2>1. SUFFICES ASSUME NEW i \in Scans, job'[i] # Absent, job'[i].fromCache
                 PROVE  \E k \in Scans : Shows(i, k)'
    BY DEF HitsShowNewest
  <2>2. i # j /\ job'[i] = job[i] /\ job[i].domain \in Domains /\ job[i].createdAt <= now
        /\ job[i].createdAt \in Nat
    BY <1>1, <2>1 DEF DemoInv, DemoMaps, DemoPast, IsJob
  <2>3. PICK k \in Scans : Shows(i, k)
    BY <2>1, <2>2 DEF DemoInv, HitsShowNewest
  <2>4. Probed(k, job[i].domain)' /\ runScan'[k] = runScan[k] /\ job'[k] = job[k]
    BY <1>1, <1>8, <2>2, <2>3 DEF Shows, Probed
  <2>5. ASSUME NEW m \in Scans, Probed(m, job[i].domain)', runScan'[m].endedAt < job'[i].createdAt
        PROVE  runScan'[m].endedAt <= runScan'[k].endedAt
    <3>1. m # j
      BY <1>1, <2>2, <2>5
    <3>2. Probed(m, job[i].domain) /\ runScan'[m] = runScan[m]
      BY <1>1, <2>2, <2>5, <3>1 DEF Probed
    <3>. QED  BY <2>2, <2>3, <2>4, <2>5, <3>2 DEF Shows
  <2>6. Shows(i, k)'
    BY <2>2, <2>3, <2>4, <2>5 DEF Shows
  <2>. QED  BY <2>6
<1>. QED  BY <1>4, <1>5, <1>6, <1>7, <1>9, <1>10 DEF DemoInv

LEMMA FinishKeeps ==
    ASSUME DemoInv, NEW j \in Scans, Finish(j)
    PROVE  DemoInv'
<1> DEFINE main == SettledChecks(runScan[j])
           derived == deriveComplianceChecks(main)
           all == main \o derived
           e == Completed(job[j], all)
           c == [createdAt |-> now, results |-> main]
           v == [runScan[j] EXCEPT !.pc = "done", !.page = NoPage, !.tls = NoTls,
                                   !.net = "none", !.late = {}, !.endedAt = now]
<1>1. /\ job' = [job EXCEPT ![j] = e] /\ stream' = Told(e, j)
      /\ domainCache' = [domainCache EXCEPT ![job[j].domain] = c]
      /\ UNCHANGED <<rateLimit, now, restarts>>
  BY DEF Finish, Cacheable
<1>2. runScan' = [runScan EXCEPT ![j] = v] /\ runScan[j].pc = "checks" /\ runScan[j].open = {}
  BY DEF Finish, Settle, DemoInv, DemoMaps
<1>3. now \in Nat /\ IsRun(runScan[j]) /\ IsJob(job[j]) /\ job[j].status = "running"
  BY LimitsAreNaturals, <1>2, DemoEmpties DEF DemoInv, DemoMaps, JobsFollowRuns
<1>4. IsRun(v) /\ v.pc = "done" /\ v.endedAt = now
  <2>1. v = RunOver(runScan[j], now)
    BY DEF RunOver
  <2>. HIDE DEF v
  <2>. QED  BY <1>2, <1>3, <2>1, RunIsOver
<1>5. <<>> \o all = all
  BY ResultsAreSequence
<1>6. c.createdAt = now /\ c.results = main
  BY Zenon
<1>. HIDE DEF main, derived, all, v, c
<1>7. IsJob(e) /\ e.status = "complete" /\ e.domain = job[j].domain /\ ~e.fromCache
      /\ e.createdAt = job[j].createdAt /\ e.results = all
  <2>1. job[j] = [status |-> job[j].status, domain |-> job[j].domain,
                  fromCache |-> job[j].fromCache, createdAt |-> job[j].createdAt,
                  results |-> job[j].results]
        /\ job[j].domain \in Domains /\ job[j].fromCache \in BOOLEAN /\ job[j].createdAt \in Nat
    BY <1>3 DEF IsJob
  <2>2. /\ IsJob(e) /\ e.status = "complete" /\ e.results = all /\ e.domain = job[j].domain
        /\ (e.fromCache <=> job[j].fromCache) /\ e.createdAt = job[j].createdAt
    BY <2>1, JobCompletes
  <2>. HIDE DEF e
  <2>. QED  BY <1>3, <2>2 DEF IsJob
<1>. HIDE DEF e
<1>8. all = main \o deriveComplianceChecks(main)
  BY DEF all, derived
<1>. QED  BY <1>1, <1>2, <1>4, <1>5, <1>6, <1>7, <1>8, RunEnds

\* The steps of a run on its way.
Fetched(e, page) == [e EXCEPT !.pc = "tls", !.page = page]
NotFetched(e) == [e EXCEPT !.pc = "tls"]
Checking(e, tls, net) == [e EXCEPT !.pc = "checks", !.tls = tls, !.net = net, !.open = Slow]
Answered(e, c) == [e EXCEPT !.open = e.open \ {c}]
Late(e, c) == [e EXCEPT !.open = e.open \ {c}, !.late = e.late \cup {c}]

GoesOn(e, v) ==
    \/ e.pc = "fetch" /\ (v = NotFetched(e) \/ \E page : v = Fetched(e, page))
    \/ e.pc = "tls" /\ \E tls, net : v = Checking(e, tls, net)
    \/ e.pc = "checks" /\ \E c \in e.open : v = Answered(e, c) \/ v = Late(e, c)

LEMMA RunUpdates ==
    ASSUME NEW e, IsRun(e), e.pc \in InRun, NEW v, GoesOn(e, v)
    PROVE  IsRun(v) /\ v.pc \in InRun /\ v.endedAt = e.endedAt
<1>1. v = [pc |-> v.pc, page |-> v.page, tls |-> v.tls, net |-> v.net, open |-> v.open,
           late |-> v.late, endedAt |-> v.endedAt]
  BY DEF GoesOn, IsRun, Fetched, NotFetched, Checking, Answered, Late
<1>2. v.endedAt = e.endedAt
  BY DEF GoesOn, IsRun, Fetched, NotFetched, Checking, Answered, Late
<1>3. /\ v.pc \in InRun /\ v.open \subseteq Slow /\ v.late \subseteq Slow \ v.open
      /\ v.pc # "checks" => v.open = {} /\ v.late = {}
  BY DEF GoesOn, IsRun, InRun, Fetched, NotFetched, Checking, Answered, Late
<1>. QED  BY <1>1, <1>2, <1>3 DEF IsRun, InRun

LEMMA RunKeeps ==
    ASSUME DemoInv, NEW j \in Scans,
           \/ \E p : FetchSettles(j, p)
           \/ \E t, n : HandshakeSettles(j, t, n)
           \/ \E c : CheckAnswers(j, c)
           \/ TimesOut(j)
    PROVE  DemoInv'
<1>1. /\ UNCHANGED <<job, domainCache, rateLimit, stream, now, restarts>>
      /\ runScan[j].pc \in InRun /\ IsRun(runScan[j])
  BY DEF FetchSettles, HandshakeSettles, StartChecks, CheckAnswers,
         TimesOut, FetchTimesOut, HandshakeTimesOut, CheckTimesOut,
         InRun, DemoInv, DemoMaps
<1>2. PICK v : runScan' = [runScan EXCEPT ![j] = v] /\ GoesOn(runScan[j], v)
  <2>1. CASE \E p : FetchSettles(j, p)
    <3>1. PICK p : FetchSettles(j, p)
      BY <2>1
    <3>2. runScan' = [runScan EXCEPT ![j] = Fetched(runScan[j], p)]
      BY <3>1 DEF FetchSettles, Fetched
    <3>. QED  BY <3>1, <3>2 DEF FetchSettles, GoesOn
  <2>2. CASE FetchTimesOut(j)
    <3>1. runScan' = [runScan EXCEPT ![j] = NotFetched(runScan[j])]
      BY <2>2 DEF FetchTimesOut, NotFetched
    <3>. QED  BY <2>2, <3>1 DEF FetchTimesOut, GoesOn
  <2>3. CASE \E t, n : StartChecks(j, t, n)
    <3>1. PICK t, n : StartChecks(j, t, n)
      BY <2>3
    <3>2. runScan' = [runScan EXCEPT ![j] = Checking(runScan[j], t, n)]
      BY <3>1 DEF StartChecks, Checking
    <3>3. GoesOn(runScan[j], Checking(runScan[j], t, n))
      BY <3>1 DEF StartChecks, GoesOn
    <3>. QED  BY <3>2, <3>3
  <2>4. CASE \E c : CheckAnswers(j, c)
    <3>1. PICK c : CheckAnswers(j, c)
      BY <2>4
    <3>2. runScan' = [runScan EXCEPT ![j] = Answered(runScan[j], c)]
      BY <3>1 DEF CheckAnswers, Answered
    <3>. QED  BY <3>1, <3>2 DEF CheckAnswers, GoesOn
  <2>5. CASE \E c : CheckTimesOut(j, c)
    <3>1. PICK c : CheckTimesOut(j, c)
      BY <2>5
    <3>2. runScan' = [runScan EXCEPT ![j] = Late(runScan[j], c)]
      BY <3>1 DEF CheckTimesOut, Late
    <3>. QED  BY <3>1, <3>2 DEF CheckTimesOut, GoesOn
  <2>. QED  BY <2>1, <2>2, <2>3, <2>4, <2>5
            DEF HandshakeSettles, HandshakeTimesOut, TimesOut
<1>3. IsRun(v) /\ v.pc \in InRun /\ v.endedAt = runScan[j].endedAt
  BY <1>1, <1>2, RunUpdates
<1>. QED  BY <1>1, <1>2, <1>3, RunGoesOn

\* A stream is opened on job j, subscribed with what its job has, or given up.
Opened(e, j, pc) == [e EXCEPT !.job = j, !.pc = pc]
Replayed(e, heard, pc, f) == [e EXCEPT !.heard = heard, !.pc = pc, !.final = f]
GivenUp(e) == [e EXCEPT !.pc = "broken"]

LEMMA StreamUpdates ==
    ASSUME NEW e, IsStream(e), NEW j \in Scans, NEW pc \in {"opened", "live", "ended", "not_found"},
           NEW heard, NEW f
    PROVE  /\ LET v == Opened(e, j, pc)
              IN  IsStream(v) /\ v.pc = pc /\ v.job = j
           /\ e.pc # "waiting" =>
                LET v == Replayed(e, heard, pc, f)
                IN  IsStream(v) /\ v.pc = pc /\ v.job = e.job /\ v.heard = heard /\ v.final = f
           /\ e.pc # "waiting" => LET v == GivenUp(e)
                                  IN  IsStream(v) /\ v.pc = "broken" /\ v.job = e.job
<1>1. PICK v : v = Opened(e, j, pc)
  OBVIOUS
<1>2. v = [pc |-> v.pc, job |-> v.job, heard |-> v.heard, final |-> v.final]
      /\ v.pc = pc /\ v.job = j
  BY <1>1 DEF IsStream, Opened
<1>3. PICK w : w = Replayed(e, heard, pc, f)
  OBVIOUS
<1>4. w = [pc |-> w.pc, job |-> w.job, heard |-> w.heard, final |-> w.final]
      /\ w.pc = pc /\ w.job = e.job /\ w.heard = heard /\ w.final = f
  BY <1>3 DEF IsStream, Replayed
<1>5. PICK u : u = GivenUp(e)
  OBVIOUS
<1>6. u = [pc |-> u.pc, job |-> u.job, heard |-> u.heard, final |-> u.final]
      /\ u.pc = "broken" /\ u.job = e.job
  BY <1>5 DEF IsStream, GivenUp
<1>7. IsStream(v) /\ (e.pc # "waiting" => IsStream(w) /\ IsStream(u))
  BY <1>2, <1>4, <1>6 DEF IsStream
<1>. QED  BY <1>1, <1>2, <1>3, <1>4, <1>5, <1>6, <1>7

LEMMA StreamKeeps ==
    ASSUME DemoInv, NEW s \in Streams,
           (\E j \in Scans : OpenStream(s, j)) \/ Subscribe(s) \/ Unsubscribe(s)
    PROVE  DemoInv'
<1>1. /\ UNCHANGED <<job, runScan, domainCache, rateLimit, now, restarts>>
      /\ IsStream(stream[s]) /\ Follows(stream[s])
  BY DEF OpenStream, Subscribe, Unsubscribe, DemoInv, DemoMaps,
         StreamsFollowJobs
<1>2. ASSUME NEW j \in Scans, OpenStream(s, j)
      PROVE  DemoInv'
  <2> DEFINE pc == IF job[j] = Absent THEN "not_found" ELSE "opened"
             v == Opened(stream[s], j, pc)
  <2>1. stream' = [stream EXCEPT ![s] = v] /\ runScan[j].pc # "unused"
    BY <1>2 DEF OpenStream, Opened
  <2>2. IsStream(v) /\ v.pc = pc /\ v.job = j
    BY <1>1, StreamUpdates
  <2>. HIDE DEF v
  <2>3. Follows(v)
    BY <2>1, <2>2 DEF Follows
  <2>. QED  BY <1>1, <2>1, <2>2, <2>3, StreamMoves
<1>3. ASSUME Subscribe(s)
      PROVE  DemoInv'
  <2>1. PICK j \in Scans : stream[s].job = j
    BY <1>1, <1>3 DEF Subscribe, IsStream
  <2> DEFINE over == Over(job[j])
             pc == IF over THEN "ended" ELSE "live"
             f == IF over THEN Final(job[j]) ELSE "none"
             v == Replayed(stream[s], job[j].results, pc, f)
  <2>2. stream' = [stream EXCEPT ![s] = v] /\ stream[s].pc = "opened"
    BY <1>3, <2>1 DEF Subscribe, Replayed
  <2>3. /\ runScan[j].pc # "unused" /\ job[j] # Absent /\ IsJob(job[j])
    BY <1>1, <2>1, <2>2 DEF Follows, DemoInv, DemoMaps
  <2>4. pc \in {"live", "ended"} /\ (pc = "ended" <=> job[j].status = "complete")
    BY DEF Over
  <2>5. job[j].status # "complete" => job[j].status = "running" /\ job[j].results = <<>>
    BY <2>3 DEF IsJob
  <2>6. pc = "ended" => f = Final(job[j])
    OBVIOUS
  <2>. HIDE DEF pc, f
  <2>7. IsStream(v) /\ v.pc = pc /\ v.job = j /\ v.heard = job[j].results /\ v.final = f
    BY <1>1, <2>1, <2>2, <2>4, StreamUpdates
  <2>. HIDE DEF v
  <2>8. Follows(v)
    BY <2>3, <2>4, <2>5, <2>6, <2>7 DEF Follows
  <2>. QED  BY <1>1, <2>2, <2>7, <2>8, StreamMoves
<1>4. ASSUME Unsubscribe(s)
      PROVE  DemoInv'
  <2> DEFINE v == GivenUp(stream[s])
  <2>1. stream' = [stream EXCEPT ![s] = v] /\ stream[s].pc = "live"
    BY <1>4 DEF Unsubscribe, GivenUp
  <2>2. IsStream(v) /\ v.pc = "broken" /\ v.job = stream[s].job
    <3>1. stream[s].job \in Scans
      BY <1>1, <2>1 DEF IsStream
    <3>. QED  BY <1>1, <2>1, <3>1, StreamUpdates
  <2>. HIDE DEF v
  <2>3. Follows(v)
    BY <1>1, <2>1, <2>2 DEF Follows
  <2>. QED  BY <1>1, <2>1, <2>2, <2>3, StreamMoves
<1>. QED  BY <1>2, <1>3, <1>4

LEMMA RestartKeeps ==
    ASSUME DemoInv, Restart
    PROVE  DemoInv'
<1>1. /\ \A j \in Scans : job'[j] = Absent
      /\ job' = [j \in Scans |-> job'[j]] /\ runScan' = [j \in Scans |-> runScan'[j]]
      /\ \A d \in Domains : domainCache'[d] = Empty
      /\ domainCache' = [d \in Domains |-> domainCache'[d]]
      /\ stream' = [s \in Streams |-> stream'[s]] /\ now' = now
  BY DEF Restart, NoCache
<1>2. ASSUME NEW j \in Scans
      PROVE  /\ IsRun(runScan'[j]) /\ runScan'[j].endedAt <= now
             /\ IF runScan[j].pc = "unused" THEN runScan'[j].pc = "unused"
                                            ELSE runScan'[j].pc = "lost"
  <2>1. IsRun(runScan[j]) /\ runScan[j].endedAt <= now /\ now \in Nat
    BY LimitsAreNaturals DEF DemoInv, DemoMaps, DemoPast
  <2>2. CASE runScan[j].pc = "unused"
    BY <2>1, <2>2 DEF Restart
  <2>3. CASE runScan[j].pc # "unused"
    <3>1. runScan'[j] = [pc |-> "lost", page |-> NoPage, tls |-> NoTls,
                         net |-> "none", open |-> {}, late |-> {}, endedAt |-> 0]
      BY <2>3 DEF Restart, NoRun
    <3>. QED  BY <2>1, <2>3, <3>1 DEF IsRun
  <2>. QED  BY <2>2, <2>3
<1>3. ASSUME NEW s \in Streams
      PROVE  /\ IsStream(stream'[s]) /\ stream'[s].job = stream[s].job
             /\ stream'[s].pc \notin {"opened", "live"}
             /\ stream'[s].pc # "waiting" => stream[s].pc # "waiting"
  <2>1. IsStream(stream[s])
    BY DEF DemoInv, DemoMaps
  <2>2. CASE stream[s].pc \in {"opened", "live"}
    <3>1. stream'[s] = GivenUp(stream[s])
      BY <2>2 DEF Restart, GivenUp
    <3>2. stream[s].job \in Scans /\ stream[s].pc # "waiting"
      BY <2>1, <2>2 DEF IsStream
    <3>3. IsStream(stream'[s]) /\ stream'[s].pc = "broken" /\ stream'[s].job = stream[s].job
      BY <2>1, <3>1, <3>2, StreamUpdates
    <3>. QED  BY <3>2, <3>3
  <2>3. CASE stream[s].pc \notin {"opened", "live"}
    BY <2>1, <2>3 DEF Restart
  <2>. QED  BY <2>2, <2>3
<1>4. rateLimit' \in [Ips -> [count: 0..RATE_LIMIT_MAX, windowStart: 0..MaxTime]]
  BY LimitsAreNaturals DEF Restart, NoWindows, DemoInv
<1>5. restarts' \in 0..MaxRestarts
  BY LimitsAreNaturals DEF Restart, DemoInv, DemoMaps
<1>6. DemoMaps'
  BY LimitsAreNaturals, <1>1, <1>2, <1>3, <1>4, <1>5 DEF DemoInv, DemoMaps, IsJob, IsRun, IsStream
<1>7. DemoPast'
  <2>1. now \in Nat
    BY LimitsAreNaturals DEF DemoInv, DemoMaps
  <2>. QED  BY <1>1, <1>2, <2>1, DemoEmpties DEF DemoPast
<1>8. JobsFollowRuns'
  BY <1>1, <1>2, DemoEmpties DEF JobsFollowRuns
<1>9. StreamsFollowJobs'
  <2>1. ASSUME NEW s \in Streams
        PROVE  Follows(stream[s])'
    BY <1>1, <1>2, <1>3 DEF DemoInv, StreamsFollowJobs, Follows
  <2>. QED  BY <2>1 DEF StreamsFollowJobs
<1>10. CacheFollowsRuns' /\ HitsShowNewest'
  BY <1>1 DEF CacheFollowsRuns, HitsShowNewest
<1>. QED  BY <1>6, <1>7, <1>8, <1>9, <1>10 DEF DemoInv

LEMMA TickKeeps ==
    ASSUME DemoInv, Tick
    PROVE  DemoInv'
<1>1. /\ UNCHANGED <<job, runScan, domainCache, rateLimit, stream, restarts>>
      /\ now' = now + 1 /\ now \in Nat /\ now' \in 0..MaxTime
  BY LimitsAreNaturals DEF Tick, DemoInv, DemoMaps
<1>2. DemoMaps'
  BY LimitsAreNaturals, <1>1 DEF DemoInv, DemoMaps, IsJob, IsRun, IsStream
<1>3. DemoPast'
  <2>1. \A j \in Scans : /\ runScan[j].endedAt \in Nat
                         /\ job[j] # Absent => job[j].createdAt \in Nat
    BY DEF DemoInv, DemoMaps, IsRun, IsJob
  <2>2. \A d \in Domains : domainCache[d].createdAt \in Nat \cup {-1}
    BY DemoEmpties DEF DemoInv, DemoMaps
  <2>. QED  BY <1>1, <2>1, <2>2 DEF DemoInv, DemoPast
<1>4. JobsFollowRuns' /\ StreamsFollowJobs'
  BY <1>1 DEF DemoInv, JobsFollowRuns, StreamsFollowJobs, Follows
<1>5. CacheFollowsRuns' /\ HitsShowNewest'
  BY <1>1 DEF DemoInv, CacheFollowsRuns, Probed, Shown, HitsShowNewest, Shows
<1>. QED  BY <1>2, <1>3, <1>4, <1>5 DEF DemoInv

LEMMA DemoStep ==
    ASSUME DemoInv, [DemoNext]_(demoVars)
    PROVE  DemoInv'
<1>1. ASSUME NEW j \in Scans, NEW d \in Domains, NEW i \in Ips, StartScan(j, d, i)
      PROVE  DemoInv'
  BY <1>1, StartKeeps
<1>2. ASSUME NEW j \in Scans,
             \/ \E p : FetchSettles(j, p)
             \/ \E t, n : HandshakeSettles(j, t, n)
             \/ \E c : CheckAnswers(j, c)
             \/ TimesOut(j)
      PROVE  DemoInv'
  BY <1>2, RunKeeps
<1>3. ASSUME NEW j \in Scans, Finish(j)
      PROVE  DemoInv'
  BY <1>3, FinishKeeps
<1>4. ASSUME NEW s \in Streams,
             (\E j \in Scans : OpenStream(s, j)) \/ Subscribe(s) \/ Unsubscribe(s)
      PROVE  DemoInv'
  BY <1>4, StreamKeeps
<1>5. CASE Restart
  BY <1>5, RestartKeeps
<1>6. CASE Tick
  BY <1>6, TickKeeps
<1>7. CASE UNCHANGED demoVars
  <2>1. UNCHANGED <<job, runScan, domainCache, rateLimit, stream, now, restarts>>
    BY <1>7 DEF demoVars
  <2>2. DemoMaps' /\ DemoPast' /\ JobsFollowRuns'
    BY LimitsAreNaturals, <2>1
    DEF DemoInv, DemoMaps, IsJob, IsRun, IsStream, DemoPast, JobsFollowRuns
  <2>3. StreamsFollowJobs'
    BY <2>1 DEF DemoInv, StreamsFollowJobs, Follows
  <2>4. CacheFollowsRuns' /\ HitsShowNewest'
    BY <2>1 DEF DemoInv, CacheFollowsRuns, Probed, Shown, HitsShowNewest, Shows
  <2>. QED  BY <2>2, <2>3, <2>4 DEF DemoInv
<1>. QED  BY <1>1, <1>2, <1>3, <1>4, <1>5, <1>6, <1>7 DEF DemoNext

\* What the invariant says of the properties of DemoScan.
LEMMA DemoInvImplies ==
    ASSUME DemoInv
    PROVE  DemoTypeOK /\ StreamsTellTheWhole /\ CacheIsFaithful
<1>1. DemoTypeOK
  BY LimitsAreNaturals, DemoEmpties
  DEF DemoInv, DemoMaps, DemoPast, JobsFollowRuns, IsJob, IsRun, IsStream, DemoTypeOK
<1>2. StreamsTellTheWhole
  <2>1. ASSUME NEW s \in Streams
        PROVE  LET entry == job[stream[s].job]
               IN  /\ stream[s].pc = "ended" /\ entry # Absent =>
                        stream[s].heard = entry.results /\ stream[s].final = Final(entry)
                   /\ stream[s].pc = "live" =>
                        entry.status = "running"
                        /\ runScan[stream[s].job].pc \in {"fetch", "tls", "checks"}
    BY DEF DemoInv, DemoMaps, IsStream, StreamsFollowJobs, Follows, JobsFollowRuns
  <2>. QED  BY <2>1 DEF StreamsTellTheWhole
<1>3. CacheIsFaithful
  BY DEF DemoInv, HitsShowNewest, Shows, Probed, CacheIsFaithful
<1>. QED  BY <1>1, <1>2, <1>3

LEMMA DemoInvHolds == DemoSpec => []DemoInv
<1>. QED  BY DemoInitKeeps, DemoStep, PTL DEF DemoSpec

\* For any scans, streams, domains, addresses, sites and bounds: the maps hold what they
\* should, an address never passes its limit (startScan, runScan, checkRateLimit).
THEOREM DemoTypeCorrect == DemoSpec => []DemoTypeOK
<1>. QED  BY DemoInvHolds, DemoInvImplies, PTL

\* Whenever it was opened, a closed stream told every result of its job once and in
\* order, and the scores; a stream that waits is of a job that runs (streamResults).
THEOREM DemoStreamsTellTheWhole == DemoSpec => []StreamsTellTheWhole
<1>. QED  BY DemoInvHolds, DemoInvImplies, PTL

\* A job answered from the cache shows what the newest run of its domain showed, which
\* ended at most CACHE_TTL before (getCached, setCached, deriveComplianceChecks).
THEOREM DemoCacheIsFaithful == DemoSpec => []CacheIsFaithful
<1>. QED  BY DemoInvHolds, DemoInvImplies, PTL

\* A job that is complete shows the same for as long as the process lives, and a stream
\* that was closed hears nothing more.
EndedScansStand ==
    [][/\ \A j \in Scans : job[j].status = "complete" => Restart \/ job'[j] = job[j]
       /\ \A s \in Streams : stream[s].pc = "ended" => stream'[s] = stream[s]]_demoVars

LEMMA JobsStand ==
    ASSUME DemoInv, [DemoNext]_(demoVars), NEW q \in Scans, job[q].status = "complete",
           ~Restart
    PROVE  job'[q] = job[q]
<1>1. /\ job = [j \in Scans |-> job[j]] /\ job[q] # Absent
      /\ runScan[q].pc \notin {"unused", "fetch", "tls", "checks"}
  BY DEF DemoInv, DemoMaps, JobsFollowRuns, Absent
<1>2. CASE job' = job
  BY <1>2
<1>3. ASSUME NEW j \in Scans, NEW d \in Domains, NEW i \in Ips, StartScan(j, d, i)
      PROVE  job'[q] = job[q]
  <2>1. q # j
    <3>1. runScan[j].pc = "unused"
      BY <1>3 DEF StartScan, NewId, Unused
    <3>. QED  BY <1>1, <3>1
  <2>. QED  BY <1>1, <1>3, <2>1 DEF StartScan
<1>4. ASSUME NEW j \in Scans, Finish(j) PROVE job'[q] = job[q]
  <2>1. q # j
    BY <1>1, <1>4 DEF Finish, Settle
  <2>. QED  BY <1>1, <1>4, <2>1 DEF Finish
<1>. QED
  BY <1>2, <1>3, <1>4
  DEF DemoNext, demoVars, FetchSettles, HandshakeSettles, StartChecks, CheckAnswers, TimesOut,
      FetchTimesOut, HandshakeTimesOut, CheckTimesOut, OpenStream, Subscribe, Unsubscribe, Tick

LEMMA StreamsStand ==
    ASSUME DemoInv, [DemoNext]_(demoVars), NEW t \in Streams, stream[t].pc = "ended"
    PROVE  stream'[t] = stream[t]
<1>1. stream = [s \in Streams |-> stream[s]]
  BY DEF DemoInv, DemoMaps
<1>2. CASE stream' = stream
  BY <1>2
<1>3. ASSUME NEW j \in Scans, Finish(j) PROVE stream'[t] = stream[t]
  BY <1>3 DEF Finish, Told
<1>4. ASSUME NEW s \in Streams, NEW j \in Scans, OpenStream(s, j)
      PROVE  stream'[t] = stream[t]
  BY <1>1, <1>4 DEF OpenStream
<1>5. CASE Restart
  BY <1>5 DEF Restart
<1>6. ASSUME NEW s \in Streams, Subscribe(s) \/ Unsubscribe(s)
      PROVE  stream'[t] = stream[t]
  <2>1. t # s
    BY <1>6 DEF Subscribe, Unsubscribe
  <2>. QED  BY <1>1, <1>6, <2>1 DEF Subscribe, Unsubscribe
<1>. QED
  BY <1>2, <1>3, <1>4, <1>5, <1>6
  DEF DemoNext, demoVars, StartScan, FetchSettles, HandshakeSettles, StartChecks, CheckAnswers,
      TimesOut, FetchTimesOut, HandshakeTimesOut, CheckTimesOut, Tick

\* What a reader was shown of a complete job is not taken back, unless the process
\* ends, and streams end once (runScan, streamResults).
THEOREM DemoScansEndOnce == DemoSpec => EndedScansStand
<1>1. DemoInv /\ [DemoNext]_(demoVars) =>
        [/\ \A j \in Scans : job[j].status = "complete" => Restart \/ job'[j] = job[j]
         /\ \A s \in Streams : stream[s].pc = "ended" => stream'[s] = stream[s]]_demoVars
  BY JobsStand, StreamsStand
<1>. QED  BY <1>1, DemoInvHolds, PTL DEF DemoSpec, EndedScansStand
=============================================================================

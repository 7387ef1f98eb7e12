---------------------------- MODULE ReportsProofs ----------------------------
(***************************************************************************)
(* Proofs about Reports for any calls.  Nothing locks a row here: what a   *)
(* call that met no other one holds is still what the row says, because    *)
(* two calls that hold the same row have both met another.  The request's  *)
(* calls and the reports' calls share nothing but an upload's row, so the  *)
(* invariant has a part for each.                                          *)
(***************************************************************************)
EXTENDS Reports, FiniteSetTheorems, TLAPS

\* Where each kind of call can be.
Placed(c) ==
    /\ call[c].pc = "checked" => c \in Updates
    /\ call[c].pc = "encrypting" => c \in Reports
    /\ call[c].pc \in {"put", "stored"} => c \in Uploads
    /\ call[c].pc = "held" => c \in Regenerations
    /\ call[c].pc = "signed" => c \in Downloads

Saving(c) == call[c].pc \in {"save", "update"}

\* What call c knows of the request.
RequestKnows(c) ==
    /\ Saving(c) => /\ c \in Patches => c \in call[c].entity.details
                    /\ c \in Uploads => call[c].entity.status = "completed"
                    /\ c \in Legacies => call[c].entity.status = "report_ready"
    /\ c \notin met =>
         /\ Saving(c) /\ c \in Patches => call[c].entity.status = request.status
         /\ Running(c) /\ c \in Updates => CanTransition(request.status, call[c].entity.status)
         /\ call[c].pc = "update" /\ "details" \notin call[c].dirty =>
              call[c].entity.details = request.details
    /\ Running(c) /\ call[c].pc # "checked" =>
         \A p \in Patches \ met : call[p].pc = "done" => p \in call[c].entity.details

RequestTogether ==
    \A c, d \in OfRequest : c # d /\ Running(c) /\ Running(d) => c \in met

\* An upload has no row before it has stored both objects.
UploadKnows(u) ==
    /\ call[u].pc \in {"waiting", "encrypting", "put", "stored"} => u \notin Existing
    /\ call[u].pc = "put" => bucket[u].original
    /\ call[u].pc = "stored" => bucket[u].original /\ bucket[u].encrypted = u

DoneOf(r) == {d \in Downloads : call[d].report = r /\ call[d].pc = "done"}

\* DownloadsAreCounted, call by call.
CountsHold ==
    \A r \in Reports :
      /\ report[r].downloadCount <= Cardinality(DoneOf(r))
      /\ (\A c \in OfReport : call[c].report = r => c \notin met) =>
           report[r].downloadCount = Cardinality(DoneOf(r))

\* What call c knows of its report.
ReportKnows(c) ==
    /\ call[c].pc \in {"waiting", "refused"} => call[c].report = "none"
    /\ call[c].pc \notin {"waiting", "refused"} => call[c].report \in Existing
    /\ Running(c) => /\ call[c].count <= Cardinality(DoneOf(call[c].report))
                     /\ c \notin met => call[c].count = report[call[c].report].downloadCount
    /\ c \in Regenerations \ met /\ Saving(c) /\ call[c].report \in Uploads =>
         bucket[call[c].report].encrypted = c

ReportTogether ==
    \A c, d \in OfReport :
      c # d /\ Running(c) /\ Running(d) /\ call[c].report = call[d].report => c \in met

RequestPart == (\A c \in OfRequest : RequestKnows(c)) /\ RequestTogether /\ PatchesAreKept
UploadPart == (\A u \in Uploads : UploadKnows(u)) /\ RowsHaveObjects
ReportPart == /\ (\A c \in OfReport : ReportKnows(c)) /\ ReportTogether
              /\ CountsHold /\ PasswordOpensReport

IInv == TypeOK /\ (\A c \in Calls : Placed(c)) /\ RequestPart /\ UploadPart /\ ReportPart

-----------------------------------------------------------------------------
(* Lemmas about calls, rows and counts *)

Pcs == {"waiting", "checked", "save", "update", "encrypting", "put", "stored", "held",
        "signed", "done", "refused"}

LEMMA Kinds ==
    /\ OfRequest \subseteq Calls /\ OfReport \subseteq Calls /\ OfRequest \cap OfReport = {}
    /\ \A c \in Patches : c \in OfRequest /\ c \notin Updates /\ c \notin Reports
    /\ \A c \in Updates : c \in OfRequest /\ c \notin Patches /\ c \notin Reports
    /\ \A c \in Reports : c \in OfRequest /\ c \notin Patches /\ c \notin Updates
    /\ \A c \in Uploads : c \in Reports /\ c \notin Legacies
    /\ \A c \in Legacies : c \in Reports /\ c \notin Uploads
    /\ \A c \in Regenerations : c \in OfReport /\ c \notin Downloads /\ c \in Passwords
    /\ \A c \in Downloads : c \in OfReport /\ c \notin Regenerations
    /\ "none" \notin Calls /\ "none" \notin Passwords /\ "none" \notin Reports
    /\ Reports \subseteq Passwords
<1>. USE DEF Calls, OfRequest, OfReport, Reports, Passwords
<1>1. OfRequest \subseteq Calls /\ OfReport \subseteq Calls /\ "none" \notin Calls
  BY CallsDisjoint
<1>2. /\ Passwords \subseteq Calls /\ Reports \subseteq Calls
      /\ Reports \subseteq OfRequest /\ Reports \subseteq Passwords
  OBVIOUS
<1>3. \A c \in Patches : c \notin Updates \cup Uploads \cup Legacies \cup OfReport
  BY CallsDisjoint
<1>4. \A c \in Updates : c \notin Uploads \cup Legacies \cup OfReport
  BY CallsDisjoint
<1>5. \A c \in Uploads : c \notin Legacies \cup OfReport
  BY CallsDisjoint
<1>6. \A c \in Legacies : c \notin OfReport
  BY CallsDisjoint
<1>7. \A c \in Regenerations : c \notin Downloads
  BY CallsDisjoint
<1>. QED  BY <1>1, <1>2, <1>3, <1>4, <1>5, <1>6, <1>7

LEMMA AtType ==
    ASSUME NEW pc \in Pcs, NEW r \in Reports \cup {"none"}
    PROVE  /\ At(pc, r) \in Call /\ At(pc, r).pc = pc /\ At(pc, r).report = r
           /\ At(pc, r).count = 0
<1>1. IsFiniteSet(Downloads) /\ Cardinality(Downloads) \in Nat
  BY DownloadsFinite, FS_CardinalityType
<1>. QED  BY <1>1 DEF At, Call, Pcs, Request, Statuses, Submitted

LEMMA Rows ==
    ASSUME TypeOK
    PROVE  /\ request.status \in Statuses /\ request.details \subseteq Patches
           /\ \A r \in Reports :
                /\ report[r] \in Report /\ report[r].password \in Passwords \cup {"none"}
                /\ report[r].downloadCount \in 0..Cardinality(Downloads)
                /\ bucket[r] \in Objects /\ bucket[r].original \in BOOLEAN
                /\ bucket[r].encrypted \in Passwords \cup {"none"}
           /\ \A c \in Calls :
                /\ call[c] \in Call /\ call[c].pc \in Pcs /\ call[c].entity \in Request
                /\ call[c].entity.status \in Statuses /\ call[c].entity.details \subseteq Patches
                /\ call[c].report \in Reports \cup {"none"}
                /\ call[c].count \in 0..Cardinality(Downloads)
BY DEF TypeOK, Request, Report, Objects, Call, Pcs

LEMMA OneCall ==
    ASSUME TypeOK, NEW c \in Calls, NEW v \in Call, call' = [call EXCEPT ![c] = v]
    PROVE  /\ call' \in [Calls -> Call] /\ call'[c] = v
           /\ \A d \in Calls \ {c} : call'[d] = call[d]
BY DEF TypeOK

LEMMA Counts ==
    /\ Cardinality(Downloads) \in Nat
    /\ \A D \in SUBSET Downloads : /\ IsFiniteSet(D) /\ Cardinality(D) \in Nat
                                   /\ Cardinality(D) <= Cardinality(Downloads)
BY DownloadsFinite, FS_CardinalityType, FS_Subset

LEMMA DoneCounts ==
    ASSUME NEW r
    PROVE  /\ DoneOf(r) \in SUBSET Downloads /\ IsFiniteSet(DoneOf(r))
           /\ Cardinality(DoneOf(r)) \in Nat
<1>1. DoneOf(r) \in SUBSET Downloads  BY DEF DoneOf
<1>. QED  BY <1>1, Counts

\* The invariant counts what the property counts.
LEMMA CountsAreRight == CountsHold => DownloadsAreCounted
<1>1. ASSUME NEW r \in Reports
      PROVE  {d \in Downloads \cap {c \in OfReport : call[c].report = r} : call[d].pc = "done"}
               = DoneOf(r)
  BY Kinds DEF DoneOf
<1>2. ASSUME NEW r \in Reports, {c \in OfReport : call[c].report = r} \cap met = {}
      PROVE  \A c \in OfReport : call[c].report = r => c \notin met
  BY <1>2
<1>. QED  BY <1>1, <1>2 DEF DownloadsAreCounted, CountsHold

LEMMA MeetsRequestEffect ==
    ASSUME NEW c \in OfRequest, MeetsRequest(c)
    PROVE  /\ met \subseteq met' /\ met' \subseteq met \cup OfRequest
           /\ \A d \in OfRequest \ {c} : Running(d) => c \in met' /\ d \in met'
<1> DEFINE others == {d \in OfRequest \ {c} : Running(d)}
<1>1. met' = IF others = {} THEN met ELSE met \cup others \cup {c}
  BY DEF MeetsRequest, Meets
<1>. QED  BY <1>1

LEMMA MeetsReportEffect ==
    ASSUME NEW c \in OfReport, NEW r, MeetsReport(c, r)
    PROVE  /\ met \subseteq met' /\ met' \subseteq met \cup OfReport
           /\ \A d \in OfReport \ {c} : Running(d) /\ call[d].report = r =>
                c \in met' /\ d \in met'
<1> DEFINE others == {d \in OfReport \ {c} : Running(d) /\ call[d].report = r}
<1>1. met' = IF others = {} THEN met ELSE met \cup others \cup {c}
  BY DEF MeetsReport, Meets
<1>. QED  BY <1>1

LEMMA InitInv == Init => IInv
<1> SUFFICES ASSUME Init PROVE IInv  OBVIOUS
<1>1. \A c \in Calls : call[c] = At("waiting", "none") /\ call[c] \in Call /\ call[c].pc = "waiting"
                       /\ call[c].report = "none"
  BY AtType DEF Init, Pcs
<1>2. TypeOK
  BY <1>1, Counts DEF Init, TypeOK, Request, Report, Objects, Submitted, Statuses
<1>3. \A c \in Calls : Placed(c) /\ ~Running(c) /\ ~Saving(c)
  BY <1>1 DEF Placed, Running, Saving
<1>4. RequestPart
  BY <1>1, <1>3, Kinds DEF RequestPart, RequestKnows, RequestTogether, PatchesAreKept
<1>5. Existing = {}
  BY DEF Init, Existing
<1>6. UploadPart
  BY <1>1, <1>5, Kinds DEF UploadPart, UploadKnows, RowsHaveObjects
<1>7. CountsHold
  <2>1. \A r \in Reports : DoneOf(r) = {}
    BY <1>1, Kinds DEF DoneOf
  <2>2. \A r \in Reports : Cardinality(DoneOf(r)) = 0 /\ report[r].downloadCount = 0
    BY <2>1, FS_EmptySet DEF Init
  <2>. QED  BY <2>2, Kinds DEF CountsHold
<1>8. ReportPart
  BY <1>1, <1>3, <1>5, <1>7, Kinds DEF ReportPart, ReportKnows, ReportTogether, PasswordOpensReport
<1>. QED  BY <1>2, <1>3, <1>4, <1>6, <1>8 DEF IInv

-----------------------------------------------------------------------------
(* Each part of the invariant is moved by the calls it is about *)

\* A call moves and writes nothing; if it starts to hold the request, it meets the
\* others that do.
LEMMA RequestMove ==
    ASSUME TypeOK, RequestPart, NEW c \in OfRequest, request' = request, met \subseteq met',
           \A d \in OfRequest \ {c} : call'[d] = call[d],
           RequestKnows(c)', c \in Patches => call'[c].pc # "done",
           \/ Running(c)
           \/ ~Running(c)'
           \/ \A d \in OfRequest \ {c} : Running(d) => c \in met' /\ d \in met'
    PROVE  RequestPart'
<1>1. \A p \in Patches \ met' : call'[p].pc = "done" => call[p].pc = "done"
  BY Kinds
<1>2. ASSUME NEW d \in OfRequest PROVE RequestKnows(d)'
  <2>1. CASE d = c
    BY <2>1
  <2>2. CASE d # c
    <3>1. RequestKnows(d) /\ call'[d] = call[d]
      BY <2>2 DEF RequestPart
    <3>. QED  BY <1>1, <3>1 DEF RequestKnows, Saving, Running
  <2>. QED  BY <2>1, <2>2
<1>3. RequestTogether'
  BY DEF RequestPart, RequestTogether, Running
<1>4. PatchesAreKept'
  BY <1>1 DEF RequestPart, PatchesAreKept
<1>. QED  BY <1>2, <1>3, <1>4 DEF RequestPart

LEMMA RequestFrame ==
    ASSUME RequestPart, request' = request,
           \A d \in OfRequest : call'[d] = call[d] /\ (d \in met' <=> d \in met)
    PROVE  RequestPart'
<1>1. \A p \in Patches : (p \in met' <=> p \in met) /\ call'[p] = call[p]
  BY Kinds
<1>2. ASSUME NEW d \in OfRequest PROVE RequestKnows(d)'
  BY <1>1 DEF RequestPart, RequestKnows, Saving, Running
<1>3. RequestTogether'
  BY DEF RequestPart, RequestTogether, Running
<1>4. PatchesAreKept'
  BY <1>1 DEF RequestPart, PatchesAreKept
<1>. QED  BY <1>2, <1>3, <1>4 DEF RequestPart

\* A call on the request moves: the reports' side sees at most a new row.
LEMMA ReportFrame ==
    ASSUME TypeOK, ReportPart,
           \A d \in OfReport : call'[d] = call[d] /\ (d \in met' <=> d \in met),
           \A r \in Reports : report'[r].downloadCount = report[r].downloadCount,
           Existing \subseteq Existing',
           \A r \in Uploads \cap Existing : /\ report'[r].password = report[r].password
                                            /\ bucket'[r].encrypted = bucket[r].encrypted,
           \A r \in (Uploads \cap Existing') \ Existing :
             report'[r].password = bucket'[r].encrypted
    PROVE  ReportPart'
<1>1. \A r : DoneOf(r)' = DoneOf(r)
  BY Kinds DEF DoneOf
<1>2. ASSUME NEW d \in OfReport PROVE ReportKnows(d)'
  <2>1. ReportKnows(d) /\ call'[d] = call[d]
    BY DEF ReportPart
  <2>2. Running(d) => call[d].report \in Existing /\ call[d].report \in Reports
    BY <2>1 DEF ReportKnows, Running, Existing
  <2>. QED  BY <1>1, <2>1, <2>2 DEF ReportKnows, Saving, Running
<1>3. ReportTogether'
  BY DEF ReportPart, ReportTogether, Running
<1>4. CountsHold'
  BY <1>1, Kinds DEF ReportPart, CountsHold
<1>5. PasswordOpensReport'
  BY Kinds DEF ReportPart, PasswordOpensReport
<1>. QED  BY <1>2, <1>3, <1>4, <1>5 DEF ReportPart

\* A call on a report moves and writes nothing; it keeps to one report, and if it starts
\* to hold it, it meets the others that do.
LEMMA ReportMove ==
    ASSUME TypeOK, ReportPart, NEW c \in OfReport, UNCHANGED <<report, bucket>>,
           met \subseteq met', \A d \in OfReport \ {c} : call'[d] = call[d],
           ReportKnows(c)', call[c].pc # "done", call'[c].pc # "done",
           call[c].report \in {"none", call'[c].report},
           Saving(c) => Saving(c)',
           \/ Running(c) /\ call'[c].report = call[c].report
           \/ \A d \in OfReport \ {c} :
                Running(d) /\ call[d].report = call'[c].report => c \in met' /\ d \in met'
    PROVE  ReportPart'
<1>1. \A r : DoneOf(r)' = DoneOf(r)
  BY Kinds DEF DoneOf
<1>2. Existing' = Existing
  BY DEF Existing
<1>3. ASSUME NEW d \in OfReport PROVE ReportKnows(d)'
  <2>1. CASE d = c
    BY <2>1
  <2>2. CASE d # c
    <3>1. ReportKnows(d) /\ call'[d] = call[d]
      BY <2>2 DEF ReportPart
    <3>. QED  BY <1>1, <1>2, <3>1 DEF ReportKnows, Saving, Running
  <2>. QED  BY <2>1, <2>2
<1>4. ReportTogether'
  BY DEF ReportPart, ReportTogether, Running
<1>5. CountsHold'
  BY <1>1, Kinds DEF ReportPart, CountsHold
<1>6. PasswordOpensReport'
  <2> SUFFICES ASSUME NEW r \in Uploads \cap Existing, report[r].password # bucket[r].encrypted
               PROVE  \E g \in Regenerations : /\ call'[g].report = r
                                               /\ g \in met' \/ Saving(g)'
    BY <1>2 DEF PasswordOpensReport, Saving
  <2>1. PICK g \in Regenerations : call[g].report = r /\ (g \in met \/ Saving(g))
    BY DEF ReportPart, PasswordOpensReport, Saving
  <2>2. call'[g].report = r /\ (g \in met' \/ Saving(g)')
    BY <2>1, Kinds DEF Saving
  <2>. QED  BY <2>2
<1>. QED  BY <1>3, <1>4, <1>5, <1>6 DEF ReportPart

-----------------------------------------------------------------------------
(* Steps of the calls that hold the request *)

LEMMA RequestStep ==
    ASSUME IInv, NEW c \in OfRequest, NEW v \in Call, call' = [call EXCEPT ![c] = v],
           UNCHANGED <<report, bucket>>, met \subseteq met', met' \subseteq met \cup OfRequest,
           \/ v.pc \in {"checked", "save", "update", "done", "refused"}
           \/ v.pc = "encrypting" /\ call[c].pc = "waiting",
           Placed(c)', request' \in Request, RequestPart'
    PROVE  IInv'
<1>1. /\ call' \in [Calls -> Call] /\ call'[c] = v /\ c \in Calls
      /\ \A d \in Calls \ {c} : call'[d] = call[d]
  BY OneCall, Kinds DEF IInv
<1>2. TypeOK'
  BY <1>1, Kinds DEF IInv, TypeOK
<1>3. ASSUME NEW d \in Calls PROVE Placed(d)'
  BY <1>1 DEF IInv, Placed
<1>4. Existing' = Existing
  BY DEF Existing
<1>5. UploadPart'
  <2>1. ASSUME NEW u \in Uploads PROVE UploadKnows(u)'
    <3>1. UploadKnows(u) /\ u \in Calls
      BY Kinds DEF IInv, UploadPart
    <3>2. CASE u = c
      BY <1>1, <1>4, <3>1, <3>2 DEF UploadKnows
    <3>3. CASE u # c
      BY <1>1, <1>4, <3>1, <3>3 DEF UploadKnows
    <3>. QED  BY <3>2, <3>3
  <2>. QED  BY <1>4, <2>1 DEF IInv, UploadPart, RowsHaveObjects
<1>6. ReportPart'
  <2>1. \A d \in OfReport : call'[d] = call[d] /\ (d \in met' <=> d \in met)
    BY <1>1, Kinds
  <2>. QED  BY <1>4, <2>1, ReportFrame DEF IInv
<1>. QED  BY <1>2, <1>3, <1>5, <1>6 DEF IInv

\* A refusal.
LEMMA RefuseInv ==
    ASSUME IInv, NEW c \in OfRequest, call[c].pc = "waiting", End(c, "refused"),
           UNCHANGED <<request, report, bucket, met>>
    PROVE  IInv'
<1> DEFINE v == At("refused", call[c].report)
<1>1. TypeOK /\ c \in Calls /\ RequestPart /\ RequestKnows(c)
  BY Kinds DEF IInv, RequestPart
<1>2. v \in Call /\ v.pc = "refused" /\ call' = [call EXCEPT ![c] = v]
  BY <1>1, Rows, AtType DEF End, Pcs
<1> HIDE DEF v
<1>3. call'[c] = v /\ \A d \in Calls \ {c} : call'[d] = call[d]
  BY <1>1, <1>2, OneCall
<1>4. ~Running(c)' /\ RequestKnows(c)' /\ Placed(c)'
  BY <1>2, <1>3 DEF Running, RequestKnows, Saving, Placed
<1>5. RequestPart'
  BY <1>1, <1>2, <1>3, <1>4, Kinds, RequestMove
<1>6. request' \in Request
  BY <1>1 DEF TypeOK
<1>. QED  BY <1>2, <1>4, <1>5, <1>6, RequestStep

LEMMA PatchInv ==
    ASSUME IInv, NEW p \in Patches, Patch(p)
    PROVE  IInv'
<1> DEFINE entity == [request EXCEPT !.details = Merged(request.details, p)]
           v == [call[p] EXCEPT !.pc = "save", !.entity = entity]
<1>1. /\ TypeOK /\ p \in Calls /\ p \in OfRequest /\ RequestPart /\ call[p].pc = "waiting"
      /\ UNCHANGED <<request, report, bucket>> /\ call[p] \in Call /\ request \in Request
      /\ p \notin Updates /\ p \notin Reports
  BY Kinds, Rows DEF IInv, Patch, Arrives, TypeOK
<1>2. CASE End(p, "refused") /\ UNCHANGED met
  BY <1>1, <1>2, RefuseInv
<1>3. CASE Hold(p, "save", entity) /\ MeetsRequest(p)
  <2>1. /\ entity \in Request /\ entity.status = request.status
        /\ entity.details = request.details \cup {p}
    BY <1>1 DEF Request, Merged
  <2> HIDE DEF entity
  <2>2. v \in Call /\ v.pc = "save" /\ v.entity = entity /\ call' = [call EXCEPT ![p] = v]
    BY <1>1, <1>3, <2>1 DEF Call, Hold, TypeOK
  <2> HIDE DEF v
  <2>3. call'[p] = v /\ \A d \in Calls \ {p} : call'[d] = call[d]
    BY <1>1, <2>2, OneCall
  <2>4. /\ met \subseteq met' /\ met' \subseteq met \cup OfRequest
        /\ \A d \in OfRequest \ {p} : Running(d) => p \in met' /\ d \in met'
    BY <1>1, <1>3, MeetsRequestEffect
  <2>5. \A q \in Patches \ met' : call'[q].pc = "done" => q \in request.details
    BY <1>1, <2>2, <2>3, <2>4, Kinds DEF RequestPart, PatchesAreKept
  <2>6. RequestKnows(p)'
    BY <1>1, <2>1, <2>2, <2>3, <2>5, Kinds DEF RequestKnows, Saving, Running
  <2>7. RequestPart'
    BY <1>1, <2>2, <2>3, <2>4, <2>6, Kinds, RequestMove
  <2>8. Placed(p)'
    BY <2>2, <2>3 DEF Placed
  <2>. QED  BY <1>1, <2>2, <2>4, <2>7, <2>8, RequestStep
<1>. QED  BY <1>2, <1>3 DEF Patch

LEMMA CheckTransitionInv ==
    ASSUME IInv, NEW a \in Updates, CheckTransition(a)
    PROVE  IInv'
<1>1. /\ TypeOK /\ a \in Calls /\ a \in OfRequest /\ RequestPart /\ call[a].pc = "waiting"
      /\ UNCHANGED <<request, report, bucket>> /\ call[a] \in Call /\ request \in Request
      /\ a \notin Patches /\ a \notin Reports
  BY Kinds, Rows DEF IInv, CheckTransition, Arrives, TypeOK
<1>2. PICK to \in Statuses :
        \/ /\ CanTransition(request.status, to)
           /\ Hold(a, "checked", [Submitted EXCEPT !.status = to]) /\ MeetsRequest(a)
        \/ End(a, "refused") /\ UNCHANGED met
  BY DEF CheckTransition, Accepted
<1>3. CASE End(a, "refused") /\ UNCHANGED met
  BY <1>1, <1>3, RefuseInv
<1>4. CASE /\ CanTransition(request.status, to)
           /\ Hold(a, "checked", [Submitted EXCEPT !.status = to]) /\ MeetsRequest(a)
  <2> DEFINE entity == [Submitted EXCEPT !.status = to]
             v == [call[a] EXCEPT !.pc = "checked", !.entity = entity]
  <2>1. entity \in Request /\ entity.status = to
    BY DEF Request, Submitted
  <2> HIDE DEF entity
  <2>2. v \in Call /\ v.pc = "checked" /\ v.entity = entity /\ call' = [call EXCEPT ![a] = v]
    BY <1>1, <1>4, <2>1 DEF Call, Hold, TypeOK, entity
  <2> HIDE DEF v
  <2>3. call'[a] = v /\ \A d \in Calls \ {a} : call'[d] = call[d]
    BY <1>1, <2>2, OneCall
  <2>4. /\ met \subseteq met' /\ met' \subseteq met \cup OfRequest
        /\ \A d \in OfRequest \ {a} : Running(d) => a \in met' /\ d \in met'
    BY <1>1, <1>4, MeetsRequestEffect
  <2>5. RequestKnows(a)'
    BY <1>1, <1>4, <2>1, <2>2, <2>3 DEF RequestKnows, Saving, Running, CanTransition
  <2>6. RequestPart'
    BY <1>1, <2>2, <2>3, <2>4, <2>5, Kinds, RequestMove
  <2>7. Placed(a)'
    BY <2>2, <2>3 DEF Placed
  <2>. QED  BY <1>1, <2>2, <2>4, <2>6, <2>7, RequestStep
<1>. QED  BY <1>2, <1>3, <1>4

LEMMA SetStatusInv ==
    ASSUME IInv, NEW a \in Updates, SetStatus(a)
    PROVE  IInv'
<1> DEFINE entity == [request EXCEPT !.status = call[a].entity.status]
           v == [call[a] EXCEPT !.pc = "save", !.entity = entity]
<1>1. /\ TypeOK /\ a \in Calls /\ a \in OfRequest /\ RequestPart /\ call[a].pc = "checked"
      /\ UNCHANGED <<request, report, bucket, met>> /\ call[a] \in Call /\ request \in Request
      /\ a \notin Patches /\ a \notin Reports /\ RequestKnows(a)
      /\ call[a].entity.status \in Statuses
  BY Kinds, Rows DEF IInv, SetStatus, TypeOK, RequestPart
<1>2. /\ entity \in Request /\ entity.status = call[a].entity.status
      /\ entity.details = request.details
  BY <1>1 DEF Request
<1>3. /\ v \in Call /\ v.pc = "save" /\ v.entity = entity
  BY <1>1, <1>2 DEF Call
<1>4. call' = [call EXCEPT ![a] = v]
  BY <1>1 DEF SetStatus, Hold, TypeOK
<1> HIDE DEF entity, v
<1>5. call'[a] = v /\ \A d \in Calls \ {a} : call'[d] = call[d]
  BY <1>1, <1>3, <1>4, OneCall
<1>6. \A q \in Patches \ met' : call'[q].pc = "done" => q \in request.details
  BY <1>1, <1>3, <1>5, Kinds DEF RequestPart, PatchesAreKept
<1>7. Running(a) /\ a \notin met => CanTransition(request.status, v.entity.status)
  BY <1>1, <1>2, <1>3 DEF RequestKnows
<1>8. RequestKnows(a)'
  BY <1>1, <1>2, <1>3, <1>5, <1>6, <1>7, Kinds DEF RequestKnows, Saving, Running, CanTransition
<1>9. RequestPart'
  BY <1>1, <1>3, <1>5, <1>8, Kinds, RequestMove DEF Running
<1>10. Placed(a)'
  BY <1>3, <1>5 DEF Placed
<1>. QED  BY <1>1, <1>3, <1>4, <1>9, <1>10, RequestStep

LEMMA LoadForUploadInv ==
    ASSUME IInv, NEW u \in Reports, LoadForUpload(u)
    PROVE  IInv'
<1> DEFINE v == [call[u] EXCEPT !.pc = "encrypting", !.entity = request]
<1>1. /\ TypeOK /\ u \in Calls /\ u \in OfRequest /\ RequestPart /\ call[u].pc = "waiting"
      /\ UNCHANGED <<request, report, bucket>> /\ call[u] \in Call /\ request \in Request
      /\ u \notin Patches /\ u \notin Updates
  BY Kinds, Rows DEF IInv, LoadForUpload, Arrives, TypeOK
<1>2. v \in Call /\ v.pc = "encrypting" /\ v.entity = request /\ call' = [call EXCEPT ![u] = v]
  BY <1>1 DEF Call, LoadForUpload, Hold, TypeOK
<1> HIDE DEF v
<1>3. call'[u] = v /\ \A d \in Calls \ {u} : call'[d] = call[d]
  BY <1>1, <1>2, OneCall
<1>4. /\ met \subseteq met' /\ met' \subseteq met \cup OfRequest
      /\ \A d \in OfRequest \ {u} : Running(d) => u \in met' /\ d \in met'
  BY <1>1, MeetsRequestEffect DEF LoadForUpload
<1>5. \A q \in Patches \ met' : call'[q].pc = "done" => q \in request.details
  BY <1>1, <1>2, <1>3, <1>4, Kinds DEF RequestPart, PatchesAreKept
<1>6. RequestKnows(u)'
  BY <1>1, <1>2, <1>3, <1>5 DEF RequestKnows, Saving, Running
<1>7. RequestPart'
  BY <1>1, <1>2, <1>3, <1>4, <1>6, Kinds, RequestMove
<1>8. Placed(u)'
  BY <1>2, <1>3 DEF Placed
<1>. QED  BY <1>1, <1>2, <1>4, <1>7, <1>8, RequestStep

LEMMA LoadRequestInv ==
    ASSUME IInv, NEW c \in OfRequest, LoadRequest(c)
    PROVE  IInv'
<1> DEFINE dirty == {col \in {"status", "details"} : call[c].entity[col] # request[col]}
           v == [call[c] EXCEPT !.pc = "update", !.dirty = dirty]
<1>1. /\ TypeOK /\ c \in Calls /\ RequestPart /\ call[c].pc = "save"
      /\ UNCHANGED <<request, report, bucket, met>> /\ call[c] \in Call /\ request \in Request
      /\ RequestKnows(c)
  BY Kinds, Rows DEF IInv, LoadRequest, TypeOK, RequestPart
<1>2. dirty \subseteq {"status", "details"}
      /\ ("details" \notin dirty => call[c].entity.details = request.details)
  OBVIOUS
<1> HIDE DEF dirty
<1>3. /\ v \in Call /\ v.pc = "update" /\ v.entity = call[c].entity /\ v.dirty = dirty
  BY <1>1, <1>2 DEF Call
<1>4. call' = [call EXCEPT ![c] = v]
  BY <1>1 DEF LoadRequest, TypeOK, dirty
<1> HIDE DEF v
<1>5. call'[c] = v /\ \A d \in Calls \ {c} : call'[d] = call[d]
  BY <1>1, <1>3, <1>4, OneCall
<1>6. \A q \in Patches \ met' : call'[q].pc = "done" => call[q].pc = "done"
  BY <1>1, <1>3, <1>5, Kinds
<1>7. RequestKnows(c)'
  BY <1>1, <1>2, <1>3, <1>5, <1>6 DEF RequestKnows, Saving, Running
<1>8. RequestPart'
  BY <1>1, <1>3, <1>5, <1>7, Kinds, RequestMove DEF Running
<1>9. Placed(c)'
  BY <1>3, <1>5 DEF Placed
<1>. QED  BY <1>1, <1>3, <1>4, <1>8, <1>9, RequestStep

\* The columns that differed when the row was loaded take the entity's values.
LEMMA UpdateRequestInv ==
    ASSUME IInv, NEW c \in OfRequest, UpdateRequest(c)
    PROVE  IInv'
<1> DEFINE v == At("done", call[c].report)
<1>1. /\ TypeOK /\ c \in Calls /\ RequestPart /\ call[c].pc = "update" /\ RequestKnows(c)
      /\ UNCHANGED <<report, bucket, met>> /\ Running(c) /\ Saving(c)
      /\ \A d \in OfRequest : RequestKnows(d)
      /\ \A d \in OfRequest \ {c} : Running(d) => d \in met /\ c \in met
  BY Kinds DEF IInv, UpdateRequest, RequestPart, RequestTogether, Running, Saving
<1>2. v \in Call /\ v.pc = "done" /\ call' = [call EXCEPT ![c] = v]
  BY <1>1, Rows, AtType DEF UpdateRequest, End, Pcs
<1> HIDE DEF v
<1>3. call'[c] = v /\ \A d \in Calls \ {c} : call'[d] = call[d]
  BY <1>1, <1>2, OneCall
<1>4. /\ request' \in Request
      /\ request'.details = IF "details" \in call[c].dirty THEN call[c].entity.details
                            ELSE request.details
  BY <1>1, Rows DEF UpdateRequest, Request
<1>5. \A q \in Patches \ met : call[q].pc = "done" => q \in request'.details
  BY <1>1, <1>4 DEF RequestPart, PatchesAreKept, RequestKnows
<1>6. c \in Patches \ met => c \in request'.details
  BY <1>1, <1>4 DEF RequestKnows
<1>7. ASSUME NEW d \in OfRequest PROVE RequestKnows(d)'
  <2>1. CASE d = c
    BY <1>2, <1>3, <2>1 DEF RequestKnows, Saving, Running
  <2>2. CASE d # c
    <3>1. call'[d] = call[d] /\ RequestKnows(d) /\ (Saving(d) => Running(d))
      BY <1>1, <1>3, <2>2, Kinds DEF Saving, Running
    <3>2. Running(d) => d \in met /\ c \in met
      BY <1>1, <2>2
    <3>3. Running(d) => \A q \in Patches \ met : call'[q].pc = "done" => call[q].pc = "done"
      BY <1>3, <3>2, Kinds
    <3>4. Saving(d)' = Saving(d) /\ Running(d)' = Running(d) /\ met' = met
      BY <1>1, <3>1 DEF Saving, Running
    <3>. QED  BY <3>1, <3>2, <3>3, <3>4 DEF RequestKnows, Running
  <2>. QED  BY <2>1, <2>2
<1>8. RequestTogether'
  BY <1>1, <1>2, <1>3, Kinds DEF RequestPart, RequestTogether, Running
<1>9. PatchesAreKept'
  BY <1>1, <1>3, <1>5, <1>6, Kinds DEF PatchesAreKept
<1>10. RequestPart'
  BY <1>7, <1>8, <1>9 DEF RequestPart
<1>11. Placed(c)'
  BY <1>2, <1>3 DEF Placed
<1>. QED  BY <1>1, <1>2, <1>4, <1>10, <1>11, RequestStep

\* What an upload stores and inserts is its own.
LEMMA UploadStep ==
    ASSUME IInv, NEW u \in Reports, NEW v \in Call, call' = [call EXCEPT ![u] = v],
           UNCHANGED <<request, met>>, Running(u),
           call[u].pc # "update", v.pc # "update", v.entity.details = call[u].entity.details,
           Saving(u)' => v.entity.status = IF u \in Uploads THEN "completed" ELSE "report_ready",
           call[u].pc # "checked", Placed(u)',
           report' \in [Reports -> Report], bucket' \in [Reports -> Objects],
           \A r \in Reports : report'[r].downloadCount = report[r].downloadCount,
           \A r \in Reports \ {u} : report'[r] = report[r] /\ bucket'[r] = bucket[r],
           u \in Existing => u \in Existing',
           u \in Uploads => /\ u \notin Existing /\ UploadKnows(u)'
                            /\ u \in Existing' => /\ bucket'[u].original
                                                  /\ bucket'[u].encrypted # "none"
                                                  /\ report'[u].password = bucket'[u].encrypted
    PROVE  IInv'
<1>1. /\ TypeOK /\ u \in Calls /\ u \in OfRequest /\ u \notin Patches /\ u \notin Updates
      /\ call' \in [Calls -> Call] /\ call'[u] = v /\ \A d \in Calls \ {u} : call'[d] = call[d]
  BY OneCall, Kinds DEF IInv
<1>2. TypeOK'
  BY <1>1 DEF IInv, TypeOK
<1>3. ASSUME NEW d \in Calls PROVE Placed(d)'
  BY <1>1 DEF IInv, Placed
<1>4. RequestPart'
  <2>1. RequestKnows(u) /\ RequestPart
    BY <1>1 DEF IInv, RequestPart
  <2>2. \A q \in Patches \ met' : call'[q].pc = "done" => q \in v.entity.details
    BY <1>1, <2>1, Kinds DEF RequestKnows
  <2>3. u \in Uploads <=> u \notin Legacies
    BY Kinds DEF Reports
  <2>4. RequestKnows(u)'
    BY <1>1, <2>2, <2>3 DEF RequestKnows, Saving
  <2>. QED  BY <1>1, <2>1, <2>4, RequestMove
<1>5. \A r \in Reports \ {u} : r \in Existing' <=> r \in Existing
  BY DEF Existing
<1>6. UploadPart'
  <2>1. ASSUME NEW w \in Uploads PROVE UploadKnows(w)'
    <3>1. CASE w = u
      BY <3>1
    <3>2. CASE w # u
      BY <1>1, <1>5, <3>2, Kinds DEF IInv, UploadPart, UploadKnows
    <3>. QED  BY <3>1, <3>2
  <2>2. RowsHaveObjects'
    <3> SUFFICES ASSUME NEW r \in Uploads, r \in Existing'
                 PROVE  bucket'[r].original /\ bucket'[r].encrypted # "none"
      BY DEF RowsHaveObjects
    <3>1. CASE r = u
      BY <3>1
    <3>2. CASE r # u
      BY <1>5, <3>2, Kinds DEF IInv, UploadPart, RowsHaveObjects
    <3>. QED  BY <3>1, <3>2
  <2>. QED  BY <2>1, <2>2 DEF UploadPart
<1>7. ReportPart'
  <2>1. \A d \in OfReport : call'[d] = call[d] /\ (d \in met' <=> d \in met)
    BY <1>1, Kinds
  <2>2. Existing \subseteq Existing'
    BY <1>5 DEF Existing
  <2>3. \A r \in Uploads \cap Existing : r # u /\ r \in Reports
    BY Kinds
  <2>4. \A r \in (Uploads \cap Existing') \ Existing : report'[r].password = bucket'[r].encrypted
    BY <1>5, Kinds
  <2>5. \A r \in Uploads \cap Existing : /\ report'[r].password = report[r].password
                                         /\ bucket'[r].encrypted = bucket[r].encrypted
    BY <2>3
  <2>. QED  BY <1>1, <2>1, <2>2, <2>4, <2>5, ReportFrame DEF IInv
<1>. QED  BY <1>2, <1>3, <1>4, <1>6, <1>7 DEF IInv

LEMMA PutOriginalInv ==
    ASSUME IInv, NEW u \in Uploads, PutOriginal(u)
    PROVE  IInv'
<1> DEFINE v == [call[u] EXCEPT !.pc = "put"]
<1>1. /\ TypeOK /\ u \in Calls /\ u \in Reports /\ call[u].pc = "encrypting" /\ call[u] \in Call
      /\ UNCHANGED <<request, report, met>> /\ UploadKnows(u) /\ Running(u)
  BY Kinds, Rows DEF IInv, PutOriginal, UploadPart, Running
<1>2. /\ v \in Call /\ v.pc = "put" /\ v.entity = call[u].entity
      /\ call' = [call EXCEPT ![u] = v]
  BY <1>1 DEF Call, PutOriginal, Goto, TypeOK
<1> HIDE DEF v
<1>3. call'[u] = v
  BY <1>1, <1>2, OneCall
<1>4. /\ bucket' \in [Reports -> Objects] /\ bucket'[u].original
      /\ \A r \in Reports \ {u} : bucket'[r] = bucket[r]
  BY <1>1 DEF PutOriginal, TypeOK, Objects
<1>5. u \notin Existing /\ Existing' = Existing
  BY <1>1 DEF UploadKnows, Existing
<1>6. UploadKnows(u)' /\ Placed(u)' /\ ~Saving(u)'
  BY <1>2, <1>3, <1>4, <1>5 DEF UploadKnows, Placed, Saving
<1>7. report' \in [Reports -> Report]
  BY <1>1 DEF TypeOK
<1>. QED  BY <1>1, <1>2, <1>4, <1>5, <1>6, <1>7, UploadStep

LEMMA PutEncryptedInv ==
    ASSUME IInv, NEW u \in Uploads, PutEncrypted(u)
    PROVE  IInv'
<1> DEFINE v == [call[u] EXCEPT !.pc = "stored"]
<1>1. /\ TypeOK /\ u \in Calls /\ u \in Reports /\ call[u].pc = "put" /\ call[u] \in Call
      /\ UNCHANGED <<request, report, met>> /\ UploadKnows(u) /\ Running(u) /\ u \in Passwords
  BY Kinds, Rows DEF IInv, PutEncrypted, UploadPart, Running
<1>2. /\ v \in Call /\ v.pc = "stored" /\ v.entity = call[u].entity
      /\ call' = [call EXCEPT ![u] = v]
  BY <1>1 DEF Call, PutEncrypted, Goto, TypeOK
<1> HIDE DEF v
<1>3. call'[u] = v
  BY <1>1, <1>2, OneCall
<1>4. /\ bucket' \in [Reports -> Objects] /\ bucket'[u].original /\ bucket'[u].encrypted = u
      /\ \A r \in Reports \ {u} : bucket'[r] = bucket[r]
  BY <1>1 DEF PutEncrypted, TypeOK, Objects, UploadKnows
<1>5. u \notin Existing /\ Existing' = Existing
  BY <1>1 DEF UploadKnows, Existing
<1>6. UploadKnows(u)' /\ Placed(u)' /\ ~Saving(u)'
  BY <1>2, <1>3, <1>4, <1>5 DEF UploadKnows, Placed, Saving
<1>7. report' \in [Reports -> Report]
  BY <1>1 DEF TypeOK
<1>. QED  BY <1>1, <1>2, <1>4, <1>5, <1>6, <1>7, UploadStep

\* The row that an upload or a legacy upload inserts, and what the call holds then.
Inserted(u, status) ==
    [call[u] EXCEPT !.pc = "save", !.entity = [call[u].entity EXCEPT !.status = status]]

LEMMA InsertReportEffect ==
    ASSUME TypeOK, NEW u \in Reports, NEW status \in Statuses, InsertReport(u, status)
    PROVE  /\ Inserted(u, status) \in Call /\ Inserted(u, status).pc = "save"
           /\ call' = [call EXCEPT ![u] = Inserted(u, status)]
           /\ call'[u] = Inserted(u, status) /\ Inserted(u, status).entity.status = status
           /\ Inserted(u, status).entity.details = call[u].entity.details
           /\ report' \in [Reports -> Report]
           /\ \A r \in Reports : report'[r].downloadCount = report[r].downloadCount
           /\ \A r \in Reports \ {u} : report'[r] = report[r]
           /\ report'[u].password = u /\ u \in Existing'
<1> DEFINE v == Inserted(u, status)
<1> DEFINE entity == [call[u].entity EXCEPT !.status = status]
<1>1. u \in Calls /\ call[u] \in Call /\ call[u].entity \in Request /\ u \in Passwords /\ u # "none"
  BY Kinds, Rows
<1>2. /\ entity \in Request /\ entity.status = status
      /\ entity.details = call[u].entity.details
  BY <1>1 DEF Request
<1>3. call' = [call EXCEPT ![u].pc = "save", ![u].entity = entity]
  BY DEF InsertReport, Hold
<1>4. v = [call[u] EXCEPT !.pc = "save", !.entity = entity]
  BY DEF Inserted
<1> HIDE DEF entity, v
<1>5. v \in Call /\ v.pc = "save" /\ v.entity = entity /\ call' = [call EXCEPT ![u] = v]
  BY <1>1, <1>2, <1>3, <1>4 DEF Call, TypeOK
<1>6. /\ report' \in [Reports -> Report] /\ report'[u].password = u
      /\ report'[u].downloadCount = report[u].downloadCount
      /\ \A r \in Reports \ {u} : report'[r] = report[r]
  BY <1>1 DEF InsertReport, TypeOK, Report
<1>. QED  BY <1>1, <1>2, <1>5, <1>6, OneCall DEF Existing, v

LEMMA FinishUploadInv ==
    ASSUME IInv, NEW u \in Uploads, FinishUpload(u)
    PROVE  IInv'
<1>1. /\ TypeOK /\ u \in Reports /\ call[u].pc = "stored" /\ UploadKnows(u) /\ Running(u)
      /\ UNCHANGED <<request, bucket, met>> /\ InsertReport(u, "completed") /\ u # "none"
      /\ u \notin Existing /\ bucket[u].original /\ bucket[u].encrypted = u
  BY Kinds DEF IInv, FinishUpload, Stored, InsertReport, UploadPart, UploadKnows, Running
<1> DEFINE v == Inserted(u, "completed")
<1>3. "completed" \in Statuses
  BY DEF Statuses
<1>4. /\ v \in Call /\ v.pc = "save" /\ call' = [call EXCEPT ![u] = v] /\ call'[u] = v
      /\ v.entity.status = "completed" /\ v.entity.details = call[u].entity.details
      /\ report' \in [Reports -> Report]
      /\ \A r \in Reports : report'[r].downloadCount = report[r].downloadCount
      /\ \A r \in Reports \ {u} : report'[r] = report[r]
      /\ report'[u].password = u /\ u \in Existing'
  BY <1>1, <1>3, Kinds, InsertReportEffect
<1> HIDE DEF v
<1>5. UploadKnows(u)' /\ Placed(u)'
  BY <1>4 DEF UploadKnows, Placed
<1>6. bucket' \in [Reports -> Objects]
  BY <1>1 DEF TypeOK
<1>. QED  BY <1>1, <1>4, <1>5, <1>6, UploadStep

LEMMA CreateReportInv ==
    ASSUME IInv, NEW u \in Reports, CreateReport(u)
    PROVE  IInv'
<1>1. /\ TypeOK /\ u \in Legacies /\ u \notin Uploads /\ call[u].pc = "encrypting" /\ Running(u)
      /\ UNCHANGED <<request, bucket, met>> /\ InsertReport(u, "report_ready")
  BY Kinds DEF IInv, CreateReport, InsertReport, Running
<1> DEFINE v == Inserted(u, "report_ready")
<1>3. "report_ready" \in Statuses
  BY DEF Statuses
<1>4. /\ v \in Call /\ v.pc = "save" /\ call' = [call EXCEPT ![u] = v] /\ call'[u] = v
      /\ v.entity.status = "report_ready" /\ v.entity.details = call[u].entity.details
      /\ report' \in [Reports -> Report]
      /\ \A r \in Reports : report'[r].downloadCount = report[r].downloadCount
      /\ \A r \in Reports \ {u} : report'[r] = report[r]
      /\ report'[u].password = u /\ u \in Existing'
  BY <1>1, <1>3, Kinds, InsertReportEffect
<1> HIDE DEF v
<1>5. Placed(u)'
  BY <1>4 DEF Placed
<1>6. bucket' \in [Reports -> Objects]
  BY <1>1 DEF TypeOK
<1>. QED  BY <1>1, <1>4, <1>5, <1>6, UploadStep

-----------------------------------------------------------------------------
(* Steps of the calls that hold a report *)

LEMMA ReportStep ==
    ASSUME IInv, NEW c \in OfReport, NEW v \in Call, call' = [call EXCEPT ![c] = v],
           request' = request, met \subseteq met', met' \subseteq met \cup OfReport,
           Placed(c)', report' \in [Reports -> Report], bucket' \in [Reports -> Objects],
           Existing' = Existing,
           \A r \in Reports :
             /\ bucket'[r].original = bucket[r].original
             /\ r \notin Existing => bucket'[r] = bucket[r]
             /\ bucket[r].encrypted # "none" => bucket'[r].encrypted # "none",
           ReportPart'
    PROVE  IInv'
<1>1. /\ call' \in [Calls -> Call] /\ call'[c] = v /\ c \in Calls
      /\ \A d \in Calls \ {c} : call'[d] = call[d]
  BY OneCall, Kinds DEF IInv
<1>2. TypeOK'
  BY <1>1, Kinds DEF IInv, TypeOK
<1>3. ASSUME NEW d \in Calls PROVE Placed(d)'
  BY <1>1 DEF IInv, Placed
<1>4. RequestPart'
  <2>1. \A d \in OfRequest : call'[d] = call[d] /\ (d \in met' <=> d \in met)
    BY <1>1, Kinds
  <2>. QED  BY <2>1, RequestFrame DEF IInv
<1>5. UploadPart'
  <2>1. ASSUME NEW u \in Uploads PROVE UploadKnows(u)'
    BY <1>1, Kinds DEF IInv, UploadPart, UploadKnows
  <2>. QED  BY <2>1, Kinds DEF IInv, UploadPart, RowsHaveObjects
<1>. QED  BY <1>2, <1>3, <1>4, <1>5 DEF IInv

LEMMA LoadReportInv ==
    ASSUME IInv, NEW g \in Regenerations, LoadReport(g)
    PROVE  IInv'
<1>1. /\ TypeOK /\ g \in Calls /\ g \in OfReport /\ ReportPart /\ call[g].pc = "waiting"
      /\ UNCHANGED <<request, report, bucket>> /\ call[g] \in Call /\ g \notin Downloads
      /\ call[g].report = "none" /\ ~Running(g) /\ ~Saving(g)
  BY Kinds, Rows DEF IInv, LoadReport, Arrives, ReportPart, ReportKnows, Running, Saving
<1>2. PICK r \in Existing :
        /\ call' = [call EXCEPT ![g].pc = IF bucket[r].original THEN "held" ELSE "save",
                                ![g].report = r, ![g].count = report[r].downloadCount]
        /\ MeetsReport(g, r)
  BY DEF LoadReport
<1> DEFINE pc == IF bucket[r].original THEN "held" ELSE "save"
           v == [call[g] EXCEPT !.pc = pc, !.report = r, !.count = report[r].downloadCount]
<1>3. /\ r \in Reports /\ pc \in {"held", "save"} /\ (r \in Uploads => pc = "held")
      /\ report[r].downloadCount \in 0..Cardinality(Downloads)
      /\ report[r].downloadCount <= Cardinality(DoneOf(r))
  BY <1>1, Rows DEF Existing, IInv, UploadPart, RowsHaveObjects, ReportPart, CountsHold
<1>4. call' = [call EXCEPT ![g] = v]
  BY <1>1, <1>2 DEF TypeOK
<1> HIDE DEF pc
<1>5. v \in Call /\ v.pc = pc /\ v.report = r /\ v.count = report[r].downloadCount
  BY <1>1, <1>3 DEF Call
<1> HIDE DEF v
<1>6. call'[g] = v /\ \A d \in Calls \ {g} : call'[d] = call[d]
  BY <1>1, <1>4, <1>5, OneCall
<1>7. /\ met \subseteq met' /\ met' \subseteq met \cup OfReport
      /\ \A d \in OfReport \ {g} : Running(d) /\ call[d].report = r => g \in met' /\ d \in met'
  BY <1>1, <1>2, MeetsReportEffect
<1>8. Existing' = Existing /\ DoneOf(r)' = DoneOf(r)
  BY <1>1, <1>3, <1>5, <1>6, Kinds DEF Existing, DoneOf
<1>9. ReportKnows(g)'
  BY <1>1, <1>3, <1>5, <1>6, <1>8 DEF ReportKnows, Saving
<1>10. Placed(g)'
  BY <1>3, <1>5, <1>6 DEF Placed
<1>11. ReportPart'
  BY <1>1, <1>3, <1>5, <1>6, <1>7, <1>9, Kinds, ReportMove
<1>12. report' \in [Reports -> Report] /\ bucket' \in [Reports -> Objects]
  BY <1>1 DEF TypeOK
<1>. QED  BY <1>1, <1>4, <1>5, <1>7, <1>8, <1>10, <1>11, <1>12, ReportStep

LEMMA SignUrlInv ==
    ASSUME IInv, NEW d \in Downloads, SignUrl(d)
    PROVE  IInv'
<1>1. /\ TypeOK /\ d \in Calls /\ d \in OfReport /\ ReportPart /\ call[d].pc = "waiting"
      /\ UNCHANGED <<request, report, bucket>> /\ call[d] \in Call /\ d \notin Regenerations
      /\ call[d].report = "none" /\ ~Running(d) /\ ~Saving(d)
  BY Kinds, Rows DEF IInv, SignUrl, Arrives, ReportPart, ReportKnows, Running, Saving
<1>2. PICK r \in Existing :
        /\ call' = [call EXCEPT ![d].pc = "signed", ![d].report = r,
                                ![d].count = report[r].downloadCount]
        /\ MeetsReport(d, r)
  BY DEF SignUrl
<1> DEFINE v == [call[d] EXCEPT !.pc = "signed", !.report = r, !.count = report[r].downloadCount]
<1>3. /\ r \in Reports /\ report[r].downloadCount \in 0..Cardinality(Downloads)
      /\ report[r].downloadCount <= Cardinality(DoneOf(r))
  BY <1>1, Rows DEF Existing, ReportPart, CountsHold
<1>4. call' = [call EXCEPT ![d] = v]
  BY <1>1, <1>2 DEF TypeOK
<1>5. v \in Call /\ v.pc = "signed" /\ v.report = r /\ v.count = report[r].downloadCount
  BY <1>1, <1>3 DEF Call
<1> HIDE DEF v
<1>6. call'[d] = v /\ \A e \in Calls \ {d} : call'[e] = call[e]
  BY <1>1, <1>4, <1>5, OneCall
<1>7. /\ met \subseteq met' /\ met' \subseteq met \cup OfReport
      /\ \A e \in OfReport \ {d} : Running(e) /\ call[e].report = r => d \in met' /\ e \in met'
  BY <1>1, <1>2, MeetsReportEffect
<1>8. Existing' = Existing /\ DoneOf(r)' = DoneOf(r)
  BY <1>1, <1>3, <1>5, <1>6, Kinds DEF Existing, DoneOf
<1>9. ReportKnows(d)'
  BY <1>1, <1>3, <1>5, <1>6, <1>8 DEF ReportKnows, Saving
<1>10. Placed(d)'
  BY <1>5, <1>6 DEF Placed
<1>11. ReportPart'
  BY <1>1, <1>3, <1>5, <1>6, <1>7, <1>9, Kinds, ReportMove
<1>12. report' \in [Reports -> Report] /\ bucket' \in [Reports -> Objects]
  BY <1>1 DEF TypeOK
<1>. QED  BY <1>1, <1>4, <1>5, <1>7, <1>8, <1>10, <1>11, <1>12, ReportStep

LEMMA DiffReportInv ==
    ASSUME IInv, NEW g \in Regenerations, DiffReport(g)
    PROVE  IInv'
<1> DEFINE dirty == {"password"} \cup IF call[g].count # report[call[g].report].downloadCount
                                      THEN {"downloadCount"} ELSE {}
           v == [call[g] EXCEPT !.pc = "update", !.dirty = dirty]
<1>1. /\ TypeOK /\ g \in Calls /\ g \in OfReport /\ ReportPart /\ call[g].pc = "save"
      /\ UNCHANGED <<request, report, bucket, met>> /\ call[g] \in Call /\ g \notin Downloads
      /\ ReportKnows(g) /\ Running(g) /\ Saving(g)
  BY Kinds, Rows DEF IInv, DiffReport, ReportPart, Running, Saving
<1>2. call' = [call EXCEPT ![g] = v]
  BY <1>1 DEF DiffReport, TypeOK
<1>3. dirty \subseteq {"password", "downloadCount"}
  OBVIOUS
<1> HIDE DEF dirty
<1>4. v \in Call /\ v.pc = "update" /\ v.report = call[g].report /\ v.count = call[g].count
  BY <1>1, <1>3 DEF Call
<1> HIDE DEF v
<1>5. call'[g] = v /\ \A d \in Calls \ {g} : call'[d] = call[d]
  BY <1>1, <1>2, <1>4, OneCall
<1>6. Existing' = Existing /\ \A r : DoneOf(r)' = DoneOf(r)
  BY <1>1, <1>5, Kinds DEF Existing, DoneOf
<1>7. ReportKnows(g)' /\ Saving(g)'
  BY <1>1, <1>4, <1>5, <1>6 DEF ReportKnows, Saving
<1>8. Placed(g)'
  BY <1>4, <1>5 DEF Placed
<1>9. ReportPart'
  BY <1>1, <1>4, <1>5, <1>7, Kinds, ReportMove
<1>10. report' \in [Reports -> Report] /\ bucket' \in [Reports -> Objects]
  BY <1>1 DEF TypeOK
<1>. QED  BY <1>1, <1>2, <1>4, <1>6, <1>8, <1>9, <1>10, ReportStep

LEMMA OverwriteInv ==
    ASSUME IInv, NEW g \in Regenerations, Overwrite(g)
    PROVE  IInv'
<1> DEFINE r == call[g].report
           v == [call[g] EXCEPT !.pc = "save"]
<1>1. /\ TypeOK /\ g \in Calls /\ g \in OfReport /\ ReportPart /\ call[g].pc = "held"
      /\ UNCHANGED <<request, report, met>> /\ call[g] \in Call /\ g \notin Downloads
      /\ ReportKnows(g) /\ Running(g) /\ r \in Existing /\ r \in Reports
      /\ g \in Passwords /\ g # "none"
      /\ \A d \in OfReport \ {g} : Running(d) /\ call[d].report = r => d \in met
  BY Kinds, Rows DEF IInv, Overwrite, ReportPart, ReportKnows, ReportTogether, Running, Existing
<1>2. call' = [call EXCEPT ![g] = v]
  BY <1>1 DEF Overwrite, Goto, TypeOK
<1>3. v \in Call /\ v.pc = "save" /\ v.report = r /\ v.count = call[g].count
  BY <1>1 DEF Call
<1>4. /\ bucket' \in [Reports -> Objects] /\ bucket'[r].encrypted = g
      /\ bucket'[r].original = bucket[r].original
      /\ \A q \in Reports \ {r} : bucket'[q] = bucket[q]
  BY <1>1 DEF Overwrite, TypeOK, Objects
<1> HIDE DEF r, v
<1>5. call'[g] = v /\ \A d \in Calls \ {g} : call'[d] = call[d]
  BY <1>1, <1>2, <1>3, OneCall
<1>6. Existing' = Existing /\ \A q : DoneOf(q)' = DoneOf(q)
  BY <1>1, <1>3, <1>5, Kinds DEF Existing, DoneOf
<1>7. ReportKnows(g)' /\ Saving(g)'
  BY <1>1, <1>3, <1>4, <1>5, <1>6 DEF ReportKnows, Saving, Running, r
<1>8. ASSUME NEW d \in OfReport PROVE ReportKnows(d)'
  <2>1. CASE d = g
    BY <1>7, <2>1
  <2>2. CASE d # g
    <3>1. call'[d] = call[d] /\ ReportKnows(d) /\ (Saving(d) => Running(d))
      BY <1>1, <1>5, <2>2, Kinds DEF ReportPart, Saving, Running
    <3>2. Running(d) /\ d \notin met => call[d].report # r
      BY <1>1, <2>2
    <3>. QED  BY <1>1, <1>4, <1>6, <3>1, <3>2, Kinds DEF ReportKnows, Saving, Running
  <2>. QED  BY <2>1, <2>2
<1>9. ReportTogether'
  BY <1>1, <1>3, <1>5, Kinds DEF ReportPart, ReportTogether, Running, r
<1>10. \A c \in OfReport : call'[c].report = call[c].report
  BY <1>3, <1>5, Kinds DEF r
<1>11. CountsHold'
  BY <1>1, <1>6, <1>10 DEF ReportPart, CountsHold
<1>12. PasswordOpensReport'
  <2> SUFFICES ASSUME NEW q \in Uploads \cap Existing, report[q].password # bucket'[q].encrypted
               PROVE  \E h \in Regenerations : call'[h].report = q /\ (h \in met \/ Saving(h)')
    BY <1>1, <1>6 DEF PasswordOpensReport, Saving
  <2>1. CASE q = r
    BY <1>3, <1>5, <1>7, <2>1
  <2>2. CASE q # r
    <3>1. PICK h \in Regenerations : call[h].report = q /\ (h \in met \/ Saving(h))
      BY <1>4, <2>2, Kinds DEF IInv, ReportPart, PasswordOpensReport, Saving
    <3>2. call'[h].report = q /\ (h \in met \/ Saving(h)')
      BY <1>5, <1>7, <1>10, <3>1, Kinds DEF Saving
    <3>. QED  BY <3>2
  <2>. QED  BY <2>1, <2>2
<1>13. ReportPart'
  BY <1>8, <1>9, <1>11, <1>12 DEF ReportPart
<1>14. Placed(g)'
  BY <1>3, <1>5 DEF Placed
<1>15. \A q \in Reports : /\ bucket'[q].original = bucket[q].original
                          /\ q \notin Existing => bucket'[q] = bucket[q]
                          /\ bucket[q].encrypted # "none" => bucket'[q].encrypted # "none"
  BY <1>1, <1>4
<1>16. report' \in [Reports -> Report]
  BY <1>1 DEF TypeOK
<1>. QED  BY <1>1, <1>2, <1>3, <1>4, <1>6, <1>13, <1>14, <1>15, <1>16, ReportStep

LEMMA UpdateReportInv ==
    ASSUME IInv, NEW g \in Regenerations, UpdateReport(g)
    PROVE  IInv'
<1> DEFINE r == call[g].report
           count == IF "downloadCount" \in call[g].dirty THEN call[g].count
                    ELSE report[r].downloadCount
           v == At("done", r)
<1>1. /\ TypeOK /\ g \in Calls /\ g \in OfReport /\ ReportPart /\ call[g].pc = "update"
      /\ UNCHANGED <<request, bucket, met>> /\ g \notin Downloads
      /\ ReportKnows(g) /\ Running(g) /\ Saving(g) /\ r \in Existing /\ r \in Reports
      /\ g \in Passwords /\ g # "none"
      /\ \A d \in OfReport \ {g} : Running(d) /\ call[d].report = r => d \in met
  BY Kinds, Rows DEF IInv, UpdateReport, ReportPart, ReportKnows, ReportTogether, Running,
                     Saving, Existing
<1>2. call' = [call EXCEPT ![g] = v]
  BY DEF UpdateReport, End
<1>3. v \in Call /\ v.pc = "done" /\ v.report = r
  BY <1>1, AtType DEF Pcs
<1>4. /\ count \in 0..Cardinality(Downloads) /\ count <= Cardinality(DoneOf(r))
      /\ g \notin met => count = report[r].downloadCount
  BY <1>1, Rows DEF ReportKnows, ReportPart, CountsHold
<1>5. report' = [report EXCEPT ![r].password = g, ![r].downloadCount = count]
  BY <1>1 DEF UpdateReport, NewPassword, TypeOK
<1> HIDE DEF count
<1>6. /\ report' \in [Reports -> Report] /\ report'[r].password = g
      /\ report'[r].downloadCount = count
      /\ \A q \in Reports \ {r} : report'[q] = report[q]
  BY <1>1, <1>4, <1>5 DEF TypeOK, Report
<1> HIDE DEF r, v
<1>7. call'[g] = v /\ \A d \in Calls \ {g} : call'[d] = call[d]
  BY <1>1, <1>2, <1>3, OneCall
<1>8. Existing' = Existing /\ \A q : DoneOf(q)' = DoneOf(q)
  BY <1>1, <1>6, <1>7, Kinds DEF Existing, DoneOf
<1>9. ReportKnows(g)' /\ ~Running(g)'
  BY <1>1, <1>3, <1>7, <1>8 DEF ReportKnows, Saving, Running
<1>10. ASSUME NEW d \in OfReport PROVE ReportKnows(d)'
  <2>1. CASE d = g
    BY <1>9, <2>1
  <2>2. CASE d # g
    <3>1. call'[d] = call[d] /\ ReportKnows(d) /\ (Running(d) => call[d].report \in Reports)
      BY <1>1, <1>7, <2>2, Kinds DEF ReportPart, ReportKnows, Existing, Running
    <3>2. Running(d) /\ d \notin met => call[d].report # r
      BY <1>1, <2>2
    <3>. QED  BY <1>1, <1>6, <1>8, <3>1, <3>2 DEF ReportKnows, Saving, Running
  <2>. QED  BY <2>1, <2>2
<1>11. ReportTogether'
  BY <1>1, <1>7, <1>9, Kinds DEF ReportPart, ReportTogether, Running
<1>12. \A c \in OfReport : call'[c].report = call[c].report
  BY <1>3, <1>7, Kinds DEF r
<1>13. CountsHold'
  <2> SUFFICES ASSUME NEW q \in Reports
               PROVE  /\ report'[q].downloadCount <= Cardinality(DoneOf(q))
                      /\ (\A c \in OfReport : call[c].report = q => c \notin met) =>
                           report'[q].downloadCount = Cardinality(DoneOf(q))
    BY <1>1, <1>8, <1>12 DEF CountsHold
  <2>1. CASE q = r
    BY <1>1, <1>4, <1>6, <2>1 DEF ReportPart, CountsHold, r
  <2>2. CASE q # r
    BY <1>6, <2>2 DEF IInv, ReportPart, CountsHold
  <2>. QED  BY <2>1, <2>2
<1>14. PasswordOpensReport'
  <2> SUFFICES ASSUME NEW q \in Uploads \cap Existing, report'[q].password # bucket[q].encrypted
               PROVE  \E h \in Regenerations : call'[h].report = q /\ (h \in met \/ Saving(h)')
    BY <1>1, <1>8 DEF PasswordOpensReport, Saving
  <2>1. CASE q = r
    <3>1. g \in met
      BY <1>1, <1>6, <2>1 DEF ReportKnows, r
    <3>. QED  BY <1>3, <1>7, <2>1, <3>1
  <2>2. CASE q # r
    <3>1. PICK h \in Regenerations : call[h].report = q /\ (h \in met \/ Saving(h))
      BY <1>6, <2>2, Kinds DEF IInv, ReportPart, PasswordOpensReport, Saving
    <3>2. h # g
      BY <2>2, <3>1 DEF r
    <3>. QED  BY <1>7, <3>1, <3>2, Kinds DEF Saving
  <2>. QED  BY <2>1, <2>2
<1>15. ReportPart'
  BY <1>10, <1>11, <1>13, <1>14 DEF ReportPart
<1>16. Placed(g)'
  BY <1>3, <1>7 DEF Placed
<1>17. bucket' \in [Reports -> Objects]
  BY <1>1 DEF TypeOK
<1>. QED  BY <1>1, <1>2, <1>3, <1>6, <1>8, <1>15, <1>16, <1>17, ReportStep

LEMMA CountDownloadInv ==
    ASSUME IInv, NEW d \in Downloads, CountDownload(d)
    PROVE  IInv'
<1> DEFINE r == call[d].report
           count == call[d].count + 1
           v == At("done", r)
<1>1. /\ TypeOK /\ d \in Calls /\ d \in OfReport /\ ReportPart /\ call[d].pc = "signed"
      /\ UNCHANGED <<request, bucket, met>> /\ d \notin Regenerations
      /\ ReportKnows(d) /\ Running(d) /\ r \in Existing /\ r \in Reports
      /\ \A e \in OfReport \ {d} : Running(e) /\ call[e].report = r => e \in met
  BY Kinds, Rows DEF IInv, CountDownload, ReportPart, ReportKnows, ReportTogether, Running,
                     Existing
<1>2. call' = [call EXCEPT ![d] = v]
  BY DEF CountDownload, End
<1>3. v \in Call /\ v.pc = "done" /\ v.report = r
  BY <1>1, AtType DEF Pcs
<1>4. /\ call[d].count <= Cardinality(DoneOf(r)) /\ call[d].count \in Nat
      /\ d \notin met => call[d].count = report[r].downloadCount
  BY <1>1, Rows, Counts DEF ReportKnows
<1>5. report' = [report EXCEPT ![r].downloadCount = count]
  BY <1>1 DEF CountDownload, OneMore
<1> HIDE DEF r, v
<1>6. call'[d] = v /\ \A e \in Calls \ {d} : call'[e] = call[e]
  BY <1>1, <1>2, <1>3, OneCall
<1>7. DoneOf(r)' = DoneOf(r) \cup {d} /\ d \notin DoneOf(r)
  BY <1>1, <1>3, <1>6, Kinds DEF DoneOf, r
<1>8. Cardinality(DoneOf(r)') = Cardinality(DoneOf(r)) + 1
  BY <1>7, DoneCounts, FS_AddElement
<1>9. /\ \A q \in Reports \ {r} : DoneOf(q)' = DoneOf(q)
      /\ \A q \in Reports : q = r => DoneOf(q)' = DoneOf(r)'
  BY <1>3, <1>6, Kinds DEF DoneOf, r
<1>10. count \in 0..Cardinality(Downloads)
  <2>1. DoneOf(r) \cup {d} \in SUBSET Downloads
    BY DoneCounts
  <2>2. Cardinality(DoneOf(r)) + 1 <= Cardinality(Downloads)
    BY <1>7, <1>8, <2>1, Counts
  <2>. QED  BY <1>4, <2>2, DoneCounts, Counts
<1>11. /\ report' \in [Reports -> Report] /\ report'[r].downloadCount = count
       /\ \A q \in Reports : report'[q].password = report[q].password
       /\ \A q \in Reports \ {r} : report'[q] = report[q]
  BY <1>1, <1>5, <1>10 DEF TypeOK, Report
<1>12. count <= Cardinality(DoneOf(r)')
  BY <1>4, <1>8, DoneCounts
<1> HIDE DEF count
<1>13. Existing' = Existing
  BY <1>11 DEF Existing
<1>14. ReportKnows(d)' /\ ~Running(d)'
  BY <1>1, <1>3, <1>6, <1>13 DEF ReportKnows, Saving, Running
<1>15. ASSUME NEW e \in OfReport PROVE ReportKnows(e)'
  <2>1. CASE e = d
    BY <1>14, <2>1
  <2>2. CASE e # d
    <3>1. call'[e] = call[e] /\ ReportKnows(e) /\ (Running(e) => call[e].report \in Reports)
      BY <1>1, <1>6, <2>2, Kinds DEF ReportPart, ReportKnows, Existing, Running
    <3>2. Running(e) /\ e \notin met => call[e].report # r
      BY <1>1, <2>2
    <3>3. Running(e) => call[e].count <= Cardinality(DoneOf(call[e].report)')
      <4>1. CASE Running(e) /\ call[e].report = r
        <5>1. call[e].count <= Cardinality(DoneOf(r)) /\ call[e].count \in Int
          BY <1>1, <3>1, <4>1, Rows, Kinds, Counts DEF ReportKnows
        <5>2. DoneOf(call[e].report)' = DoneOf(r)'
          BY <1>3, <1>6, <3>1, <4>1 DEF DoneOf, r
        <5>. QED  BY <1>8, <5>1, <5>2, DoneCounts
      <4>2. CASE Running(e) /\ call[e].report # r
        BY <1>9, <3>1, <4>2 DEF ReportKnows
      <4>. QED  BY <4>1, <4>2
    <3>. QED  BY <1>1, <1>11, <1>13, <3>1, <3>2, <3>3 DEF ReportKnows, Saving, Running
  <2>. QED  BY <2>1, <2>2
<1>16. ReportTogether'
  BY <1>1, <1>6, <1>14, Kinds DEF ReportPart, ReportTogether, Running
<1>17. \A c \in OfReport : call'[c].report = call[c].report
  BY <1>3, <1>6, Kinds DEF r
<1>18. CountsHold'
  <2> SUFFICES ASSUME NEW q \in Reports
               PROVE  /\ report'[q].downloadCount <= Cardinality(DoneOf(q)')
                      /\ (\A c \in OfReport : call[c].report = q => c \notin met) =>
                           report'[q].downloadCount = Cardinality(DoneOf(q)')
    BY <1>1, <1>17 DEF CountsHold
  <2>1. CASE q = r
    <3>1. (\A c \in OfReport : call[c].report = q => c \notin met) =>
            report'[q].downloadCount = Cardinality(DoneOf(r)')
      BY <1>1, <1>4, <1>8, <1>11, <2>1 DEF ReportPart, CountsHold, r, count
    <3>. QED  BY <1>9, <1>11, <1>12, <2>1, <3>1
  <2>2. CASE q # r
    BY <1>9, <1>11, <2>2 DEF IInv, ReportPart, CountsHold
  <2>. QED  BY <2>1, <2>2
<1>19. PasswordOpensReport'
  <2> SUFFICES ASSUME NEW q \in Uploads \cap Existing, report[q].password # bucket[q].encrypted
               PROVE  \E h \in Regenerations : call'[h].report = q /\ (h \in met \/ Saving(h)')
    BY <1>1, <1>11, <1>13, Kinds DEF PasswordOpensReport, Saving
  <2>1. PICK h \in Regenerations : call[h].report = q /\ (h \in met \/ Saving(h))
    BY DEF IInv, ReportPart, PasswordOpensReport, Saving
  <2>. QED  BY <1>1, <1>6, <2>1, Kinds DEF Saving
<1>20. ReportPart'
  BY <1>15, <1>16, <1>18, <1>19 DEF ReportPart
<1>21. Placed(d)'
  BY <1>3, <1>6 DEF Placed
<1>22. bucket' \in [Reports -> Objects]
  BY <1>1 DEF TypeOK
<1>. QED  BY <1>1, <1>2, <1>3, <1>11, <1>13, <1>20, <1>21, <1>22, ReportStep

-----------------------------------------------------------------------------
(* The theorems *)

LEMMA NextInv == IInv /\ [Next]_vars => IInv'
<1> SUFFICES ASSUME IInv, [Next]_vars PROVE IInv'  OBVIOUS
<1>1. ASSUME NEW c \in OfRequest, LoadRequest(c) \/ UpdateRequest(c) PROVE IInv'
  BY <1>1, LoadRequestInv, UpdateRequestInv
<1>2. ASSUME NEW p \in Patches, Patch(p) PROVE IInv'
  BY <1>2, PatchInv
<1>3. ASSUME NEW a \in Updates, CheckTransition(a) PROVE IInv'
  BY <1>3, CheckTransitionInv
<1>4. ASSUME NEW a \in Updates, SetStatus(a) PROVE IInv'
  BY <1>4, SetStatusInv
<1>5. ASSUME NEW u \in Reports, LoadForUpload(u) \/ CreateReport(u) PROVE IInv'
  BY <1>5, LoadForUploadInv, CreateReportInv
<1>6. ASSUME NEW u \in Uploads, PutOriginal(u) \/ PutEncrypted(u) \/ FinishUpload(u) PROVE IInv'
  BY <1>6, PutOriginalInv, PutEncryptedInv, FinishUploadInv
<1>7. ASSUME NEW g \in Regenerations,
             LoadReport(g) \/ Overwrite(g) \/ DiffReport(g) \/ UpdateReport(g)
      PROVE  IInv'
  BY <1>7, LoadReportInv, OverwriteInv, DiffReportInv, UpdateReportInv
<1>8. ASSUME NEW d \in Downloads, SignUrl(d) \/ CountDownload(d) PROVE IInv'
  BY <1>8, SignUrlInv, CountDownloadInv
<1>9. CASE UNCHANGED vars
  <2>1. /\ TypeOK' /\ \A c \in Calls : Placed(c)'
        /\ Existing' = Existing /\ \A r : DoneOf(r)' = DoneOf(r)
    BY <1>9 DEF vars, IInv, TypeOK, Placed, Existing, DoneOf
  <2>2. RequestPart'
    BY <1>9, RequestFrame DEF vars, IInv
  <2>3. UploadPart'
    BY <1>9, <2>1 DEF vars, IInv, UploadPart, UploadKnows, RowsHaveObjects
  <2>4. ReportPart'
    BY <1>9, <2>1, ReportFrame DEF vars, IInv
  <2>. QED  BY <2>1, <2>2, <2>3, <2>4 DEF IInv
<1>. QED  BY <1>1, <1>2, <1>3, <1>4, <1>5, <1>6, <1>7, <1>8, <1>9 DEF Next

\* Every reachable state is well formed, and a call that met no other holds its row as it is.
THEOREM InvHolds == Spec => []IInv
BY InitInv, NextInv, PTL DEF Spec

\* The rows, the objects and what calls hold keep their types; a count fits its downloads.
THEOREM TypeCorrect == Spec => []TypeOK
<1>1. IInv => TypeOK  BY DEF IInv
<1>. QED  BY <1>1, InvHolds, PTL

\* Whenever an upload stops, a report that has a row has both of its objects.
THEOREM NoRowWithoutObjects == Spec => []RowsHaveObjects
<1>1. IInv => RowsHaveObjects  BY DEF IInv, UploadPart
<1>. QED  BY <1>1, InvHolds, PTL

\* The recorded password opens the stored PDF, but for overlapping or unfinished
\* regenerations.
THEOREM PasswordOpens == Spec => []PasswordOpensReport
<1>1. IInv => PasswordOpensReport  BY DEF IInv, ReportPart
<1>. QED  BY <1>1, InvHolds, PTL

\* However many downloads overlap, none is counted twice or before its URL is signed, and
\* none is lost where nothing overlapped.
THEOREM CountsNeverExceed == Spec => []DownloadsAreCounted
<1>1. IInv => DownloadsAreCounted  BY CountsAreRight DEF IInv, ReportPart
<1>. QED  BY <1>1, InvHolds, PTL

\* A patch that no other call's save overlapped is never lost.
THEOREM PatchesStay == Spec => []PatchesAreKept
<1>1. IInv => PatchesAreKept  BY DEF IInv, RequestPart
<1>. QED  BY <1>1, InvHolds, PTL

\* The status leaves the admins' arrows only by an upload, or by calls that overlapped:
\* one that met no other writes over the status that it checked.
THEOREM StatusFollowsArrows == Spec => StatusMovesAreLegal
<1> DEFINE Legal ==
      request'.status # request.status =>
         \E c \in OfRequest :
           /\ Writes(c)
           /\ \/ c \in met
              \/ c \in Updates /\ CanTransition(request.status, request'.status)
              \/ c \in Uploads /\ request'.status = "completed"
              \/ c \in Legacies /\ request'.status = "report_ready"
<1>1. IInv /\ [Next]_vars => [Legal]_vars
  <2> SUFFICES ASSUME IInv, Next, request'.status # request.status PROVE Legal
    OBVIOUS
  <2>1. PICK c \in OfRequest : UpdateRequest(c)
    BY DEF Next, LoadRequest, Patch, CheckTransition, SetStatus, LoadForUpload, CreateReport,
           InsertReport, PutOriginal, PutEncrypted, FinishUpload, LoadReport, Overwrite,
           DiffReport, UpdateReport, SignUrl, CountDownload
  <2>2. /\ TypeOK /\ c \in Calls /\ RequestKnows(c) /\ call[c].pc = "update"
        /\ Saving(c) /\ Running(c)
    BY <2>1, Kinds DEF IInv, RequestPart, UpdateRequest, Saving, Running
  <2>3. request'.status = call[c].entity.status
    BY <2>1 DEF UpdateRequest
  <2>4. Writes(c)
    <3>1. At("done", call[c].report).pc = "done"
      BY DEF At
    <3>. QED  BY <2>1, <2>2, <3>1 DEF UpdateRequest, End, Writes, TypeOK
  <2>5. c \in Patches \cup Updates \cup Uploads \cup Legacies
    BY DEF OfRequest
  <2>. QED  BY <2>2, <2>3, <2>4, <2>5 DEF RequestKnows
<1>. QED  BY <1>1, InvHolds, PTL DEF Spec, StatusMovesAreLegal

-----------------------------------------------------------------------------
(* Counts that fall *)

\* The count of a report falls only if calls about it have met.
CountsFallWhereCallsMet ==
    [][\A r \in Reports :
         \/ report'[r].downloadCount >= report[r].downloadCount
         \/ {c \in OfReport : call'[c].report = r} \cap met' # {}]_vars

LEMMA DoneStays ==
    ASSUME TypeOK, [Next]_vars, NEW d \in Downloads, call[d].pc = "done"
    PROVE  call'[d] = call[d]
<1>1. d \in Calls /\ d \notin OfRequest \cup Reports \cup Regenerations
  BY Kinds
<1>2. ASSUME NEW c \in OfRequest, LoadRequest(c) \/ UpdateRequest(c) PROVE call'[d] = call[d]
  BY <1>1, <1>2 DEF LoadRequest, UpdateRequest, End, TypeOK
<1>3. ASSUME NEW p \in Patches, Patch(p) PROVE call'[d] = call[d]
  BY <1>1, <1>3 DEF Patch, Arrives, Hold, End, TypeOK
<1>4. ASSUME NEW a \in Updates, CheckTransition(a) \/ SetStatus(a) PROVE call'[d] = call[d]
  BY <1>1, <1>4 DEF CheckTransition, SetStatus, Arrives, Hold, End, TypeOK
<1>5. ASSUME NEW u \in Reports,
             \/ LoadForUpload(u) \/ CreateReport(u)
             \/ PutOriginal(u) \/ PutEncrypted(u) \/ FinishUpload(u)
      PROVE  call'[d] = call[d]
  BY <1>1, <1>5
  DEF LoadForUpload, CreateReport, PutOriginal, PutEncrypted, FinishUpload, InsertReport,
      Arrives, Hold, Goto, TypeOK
<1>6. ASSUME NEW g \in Regenerations,
             LoadReport(g) \/ Overwrite(g) \/ DiffReport(g) \/ UpdateReport(g)
      PROVE  call'[d] = call[d]
  BY <1>1, <1>6 DEF LoadReport, Overwrite, DiffReport, UpdateReport, Arrives, Goto, End, TypeOK
<1>7. ASSUME NEW e \in Downloads, SignUrl(e) \/ CountDownload(e) PROVE call'[d] = call[d]
  BY <1>1, <1>7 DEF SignUrl, CountDownload, Arrives, End, TypeOK
<1>. QED  BY <1>2, <1>3, <1>4, <1>5, <1>6, <1>7 DEF Next, Reports, vars

\* A report's download count does not fall while each call about it held it alone: it takes
\* a download or a regeneration that overlapped another (:119-124, :434).
THEOREM CountsFallTogether == Spec => CountsFallWhereCallsMet
<1>1. ASSUME IInv, IInv', [Next]_vars, NEW r \in Reports,
             {c \in OfReport : call'[c].report = r} \cap met' = {}
      PROVE  report'[r].downloadCount >= report[r].downloadCount
  <2>1. DoneOf(r) \subseteq DoneOf(r)'
    BY <1>1, DoneStays DEF IInv, DoneOf
  <2>2. /\ report[r].downloadCount <= Cardinality(DoneOf(r))
        /\ report'[r].downloadCount = Cardinality(DoneOf(r)')
    BY <1>1 DEF IInv, ReportPart, CountsHold
  <2>3. DoneOf(r)' \subseteq Downloads
    BY DEF DoneOf
  <2>4. /\ Cardinality(DoneOf(r)) <= Cardinality(DoneOf(r)')
        /\ Cardinality(DoneOf(r)) \in Nat /\ Cardinality(DoneOf(r)') \in Nat
    BY <2>1, <2>3, Counts, FS_Subset
  <2>5. report[r].downloadCount \in Nat
    BY <1>1, DownloadsFinite, FS_CardinalityType DEF IInv, TypeOK, Report
  <2>. QED  BY <2>2, <2>4, <2>5
<1>2. IInv /\ IInv' /\ [Next]_vars =>
        [\A r \in Reports :
           \/ report'[r].downloadCount >= report[r].downloadCount
           \/ {c \in OfReport : call'[c].report = r} \cap met' # {}]_vars
  BY <1>1
<1>. QED  BY <1>2, InvHolds, PTL DEF Spec, CountsFallWhereCallsMet
=============================================================================

------------------------------- MODULE Reports ------------------------------
(***************************************************************************)
(* The life of one testing request and of its reports: RequestsService.    *)
(* patchForUser, AdminRequestsService.updateStatus, and of ReportsService  *)
(* the upload, the legacy upload, regenerating a password, and downloads,  *)
(* while the owner's and the admins' calls overlap.                        *)
(*                                                                         *)
(* Nothing here runs in a transaction.  A handler saves the entity that it *)
(* loaded: save() SELECTs the row again and UPDATEs the columns in which   *)
(* the entity differs.  The bucket is written object by object.            *)
(*                                                                         *)
(* A report is named by the upload that made it, a password by the call    *)
(* that generated it.  The request's details are the set of patches whose  *)
(* values they hold (each patches a field of its own).  Mails go out after *)
(* the last step of a call and nothing waits for them.                     *)
(***************************************************************************)
EXTENDS Integers, FiniteSets

CONSTANTS
    Patches, Updates, Uploads, Legacies, Regenerations, Downloads, \* calls; each runs once
    MaxCalls        \* bound on the calls that arrive

Calls == UNION {Patches, Updates, Uploads, Legacies, Regenerations, Downloads}
OfRequest == UNION {Patches, Updates, Uploads, Legacies}    \* hold the request
OfReport == Regenerations \cup Downloads                    \* hold a report
Reports == Uploads \cup Legacies
Passwords == Reports \cup Regenerations

ASSUME CallsDisjoint ==
    /\ "none" \notin Calls
    /\ Patches \cap (Updates \cup Uploads \cup Legacies \cup OfReport) = {}
    /\ Updates \cap (Uploads \cup Legacies \cup OfReport) = {}
    /\ Uploads \cap (Legacies \cup OfReport) = {}
    /\ Legacies \cap OfReport = {}
    /\ Regenerations \cap Downloads = {}
ASSUME DownloadsFinite == IsFiniteSet(Downloads)
ASSUME MaxCallsAssumption == MaxCalls \in Nat

VARIABLES
    request,    \* the testing_requests row
    report,     \* the reports rows
    bucket,     \* the objects of each report
    call,       \* what each call holds
    met         \* history: the calls during which another one held the same row

vars == <<request, report, bucket, call, met>>

\* The statuses of Phase 2 are never written.
Statuses == {"submitted", "in_review", "testing_in_progress", "report_ready", "completed",
             "failed"}

Request == [status: Statuses, details: SUBSET Patches]

\* password is "none" where there is no row.
Report == [password: Passwords \cup {"none"}, downloadCount: 0..Cardinality(Downloads)]

\* original: is it there?  encrypted: the password that opens it, "none" if not there.
Objects == [original: BOOLEAN, encrypted: Passwords \cup {"none"}]

\* entity: the request a call holds; report, count: the report it holds.
Call == [pc: {"waiting", "checked", "save", "update", "encrypting", "put", "stored", "held",
              "signed", "done", "refused"},
         entity: Request, report: Reports \cup {"none"},
         count: 0..Cardinality(Downloads),
         dirty: SUBSET {"status", "details", "password", "downloadCount"}]

TypeOK ==
    /\ request \in Request
    /\ report \in [Reports -> Report]
    /\ bucket \in [Reports -> Objects]
    /\ call \in [Calls -> Call]
    /\ met \subseteq Calls

Submitted == [status |-> "submitted", details |-> {}]

\* A call that holds nothing; report is what it was about.
At(pc, r) == [pc |-> pc, entity |-> Submitted, report |-> r, count |-> 0, dirty |-> {}]

Init ==
    /\ request = Submitted
    /\ report = [r \in Reports |-> [password |-> "none", downloadCount |-> 0]]
    /\ bucket = [r \in Reports |-> [original |-> FALSE, encrypted |-> "none"]]
    /\ call = [c \in Calls |-> At("waiting", "none")]
    /\ met = {}

Running(c) == call[c].pc \notin {"waiting", "done", "refused"}

Arrives(c) ==
    /\ call[c].pc = "waiting"
    /\ Cardinality({d \in Calls : call[d].pc # "waiting"}) < MaxCalls

Goto(c, pc) == call' = [call EXCEPT ![c].pc = pc]
End(c, pc) == call' = [call EXCEPT ![c] = At(pc, call[c].report)]

\* Call c starts to hold the request, or report r, and meets those that hold it.
Meets(c, others) == met' = IF others = {} THEN met ELSE met \cup others \cup {c}
MeetsRequest(c) == Meets(c, {d \in OfRequest \ {c} : Running(d)})
MeetsReport(c, r) == Meets(c, {d \in OfReport \ {c} : Running(d) /\ call[d].report = r})

\* Call c goes to pc holding the request as an entity.
Hold(c, pc, entity) == call' = [call EXCEPT ![c].pc = pc, ![c].entity = entity]

-----------------------------------------------------------------------------
(* Saving the request's entity *)

LoadRequest(c) ==
    /\ call[c].pc = "save" /\ c \in OfRequest
    /\ call' = [call EXCEPT ![c].pc = "update",
                            ![c].dirty = {col \in {"status", "details"} :
                                            call[c].entity[col] # request[col]}]
    /\ UNCHANGED <<request, report, bucket, met>>

UpdateRequest(c) ==
    /\ call[c].pc = "update" /\ c \in OfRequest
    /\ request' = [col \in {"status", "details"} |->
                     IF col \in call[c].dirty THEN call[c].entity[col] ELSE request[col]]
    /\ End(c, "done")
    /\ UNCHANGED <<report, bucket, met>>

-----------------------------------------------------------------------------
(* patchForUser *)

\* Mutant: the patch replaces the details instead of being merged into them.
Replaced(details, p) == {p}

Merged(details, p) == details \cup {p}

Patch(p) ==
    /\ Arrives(p)
    /\ IF request.status # "submitted"
       THEN End(p, "refused") /\ UNCHANGED met
       ELSE /\ Hold(p, "save", [request EXCEPT !.details = Merged(request.details, p)])
            /\ MeetsRequest(p)
    /\ UNCHANGED <<request, report, bucket>>

-----------------------------------------------------------------------------
(* updateStatus, by an admin *)

AllowedTransitions == [s \in Statuses |->
    CASE s = "submitted" -> {"in_review", "failed"}
      [] s = "in_review" -> {"testing_in_progress", "failed"}
      [] s = "testing_in_progress" -> {"report_ready", "failed"}
      [] s = "report_ready" -> {"completed", "testing_in_progress"}
      [] s = "completed" -> {}
      [] s = "failed" -> {"in_review"}]

CanTransition(from, to) == to \in AllowedTransitions[from]

\* Mutant: any other status is accepted.
AnyOther(from, to) == from # to

Accepted(from, to) == CanTransition(from, to)

\* The status is checked on one read of the row...
CheckTransition(a) ==
    /\ Arrives(a)
    /\ \E to \in Statuses :
         IF Accepted(request.status, to)
         THEN Hold(a, "checked", [Submitted EXCEPT !.status = to]) /\ MeetsRequest(a)
         ELSE End(a, "refused") /\ UNCHANGED met
    /\ UNCHANGED <<request, report, bucket>>

\* ...and written over a second one.
SetStatus(a) ==
    /\ call[a].pc = "checked"
    /\ Hold(a, "save", [request EXCEPT !.status = call[a].entity.status])
    /\ UNCHANGED <<request, report, bucket, met>>

-----------------------------------------------------------------------------
(* uploadReportFromBuffer, and the legacy createReport *)

LoadForUpload(u) ==
    /\ Arrives(u)
    /\ Hold(u, "encrypting", request)
    /\ MeetsRequest(u)
    /\ UNCHANGED <<request, report, bucket>>

PutOriginal(u) ==
    /\ call[u].pc = "encrypting" /\ u \in Uploads
    /\ bucket' = [bucket EXCEPT ![u].original = TRUE]
    /\ Goto(u, "put")
    /\ UNCHANGED <<request, report, met>>

PutEncrypted(u) ==
    /\ call[u].pc = "put"
    /\ bucket' = [bucket EXCEPT ![u].encrypted = u]
    /\ Goto(u, "stored")
    /\ UNCHANGED <<request, report, met>>

\* Mutant: the row is saved as soon as the first object is up.
HalfStored(u) == call[u].pc \in {"put", "stored"}

Stored(u) == call[u].pc = "stored"

\* INSERT of the report with the password's ciphertext; the request is saved next, with
\* a new status, whatever its status was.
InsertReport(u, status) ==
    /\ report' = [report EXCEPT ![u].password = u]
    /\ Hold(u, "save", [call[u].entity EXCEPT !.status = status])
    /\ UNCHANGED <<request, met>>

FinishUpload(u) ==
    /\ Stored(u)
    /\ InsertReport(u, "completed")
    /\ UNCHANGED bucket

\* The admin has put the PDF through a signed URL; the password does not open it.
CreateReport(u) ==
    /\ call[u].pc = "encrypting" /\ u \in Legacies
    /\ InsertReport(u, "report_ready")
    /\ UNCHANGED bucket

-----------------------------------------------------------------------------
(* regeneratePassword *)

Existing == {r \in Reports : report[r].password # "none"}

LoadReport(g) ==
    /\ Arrives(g)
    /\ \E r \in Existing :
         /\ call' = [call EXCEPT ![g].pc = IF bucket[r].original THEN "held" ELSE "save",
                                 ![g].report = r, ![g].count = report[r].downloadCount]
         /\ MeetsReport(g, r)
    /\ UNCHANGED <<request, report, bucket>>

\* The original is encrypted anew and put over the encrypted object.
Overwrite(g) ==
    /\ call[g].pc = "held"
    /\ bucket' = [bucket EXCEPT ![call[g].report].encrypted = g]
    /\ Goto(g, "save")
    /\ UNCHANGED <<request, report, met>>

\* The count is written back, if it is no longer what it was.
DiffReport(g) ==
    /\ call[g].pc = "save" /\ g \in Regenerations
    /\ call' = [call EXCEPT ![g].pc = "update",
                            ![g].dirty = {"password"} \cup
                               IF call[g].count # report[call[g].report].downloadCount
                               THEN {"downloadCount"} ELSE {}]
    /\ UNCHANGED <<request, report, bucket, met>>

\* Mutant: the ciphertext of the loaded entity is written back.
OldPassword(g) == report[call[g].report].password

NewPassword(g) == g

UpdateReport(g) ==
    /\ call[g].pc = "update" /\ g \in Regenerations
    /\ LET r == call[g].report IN
       report' = [report EXCEPT
                    ![r].password = NewPassword(g),
                    ![r].downloadCount =
                       IF "downloadCount" \in call[g].dirty THEN call[g].count ELSE @]
    /\ End(g, "done")
    /\ UNCHANGED <<request, bucket, met>>

-----------------------------------------------------------------------------
(* getDownloadUrlForOwner, also the end of the password-gated download *)

SignUrl(d) ==
    /\ Arrives(d)
    /\ \E r \in Existing :
         /\ call' = [call EXCEPT ![d].pc = "signed", ![d].report = r,
                                 ![d].count = report[r].downloadCount]
         /\ MeetsReport(d, r)
    /\ UNCHANGED <<request, report, bucket>>

\* Mutant: the count that was read is written back.
NoMore(n) == n

\* Mutant: the controller counts the download once more.
TwoMore(n) == n + 2

OneMore(n) == n + 1

\* Not awaited: the count that was read, plus one.
CountDownload(d) ==
    /\ call[d].pc = "signed"
    /\ report' = [report EXCEPT ![call[d].report].downloadCount = OneMore(call[d].count)]
    /\ End(d, "done")
    /\ UNCHANGED <<request, bucket, met>>

-----------------------------------------------------------------------------
Next ==
    \/ \E c \in OfRequest : LoadRequest(c) \/ UpdateRequest(c)
    \/ \E p \in Patches : Patch(p)
    \/ \E a \in Updates : CheckTransition(a) \/ SetStatus(a)
    \/ \E u \in Reports : LoadForUpload(u) \/ CreateReport(u)
    \/ \E u \in Uploads : PutOriginal(u) \/ PutEncrypted(u) \/ FinishUpload(u)
    \/ \E g \in Regenerations : LoadReport(g) \/ Overwrite(g) \/ DiffReport(g) \/ UpdateReport(g)
    \/ \E d \in Downloads : SignUrl(d) \/ CountDownload(d)

Spec == Init /\ [][Next]_vars

-----------------------------------------------------------------------------
(* Properties *)

\* A report's row never points at an object that is not there, wherever an upload stops:
\* what a crash leaves behind are objects without a row (:254-290).
RowsHaveObjects ==
    \A r \in Uploads \cap Existing : bucket[r].original /\ bucket[r].encrypted # "none"

\* The password on record opens the report's PDF, unless regenerations of it overlapped,
\* or one has put the new PDF and not saved its password: it still runs, or has died
\* in between (regeneratePassword, :415-434).
PasswordOpensReport ==
    \A r \in Uploads \cap Existing :
      \/ report[r].password = bucket[r].encrypted
      \/ \E g \in Regenerations :
           call[g].report = r /\ (g \in met \/ call[g].pc \in {"save", "update"})

\* A download is counted once, and never before its URL is signed; counts are lost only
\* when downloads or regenerations of the report overlapped (:119-124, :434).
DownloadsAreCounted ==
    \A r \in Reports :
      LET about == {c \in OfReport : call[c].report = r}
          done == {d \in Downloads \cap about : call[d].pc = "done"}
      IN  /\ report[r].downloadCount <= Cardinality(done)
          /\ about \cap met = {} => report[r].downloadCount = Cardinality(done)

\* A patch the owner was told of is in the details, unless another call held the request
\* while the patch did and saved what it had read (:216-246).
PatchesAreKept ==
    \A p \in Patches \ met : call[p].pc = "done" => p \in request.details

\* The step that writes call c's entity of the request.
Writes(c) == call[c].pc = "update" /\ call'[c].pc = "done"

\* The status moves along the admins' arrows, or to completed by an upload or to
\* report_ready by a legacy one; only a call that held the request together with another
\* one can move it otherwise (out of completed, or back to submitted).
StatusMovesAreLegal ==
    [][request'.status # request.status =>
         \E c \in OfRequest :
           /\ Writes(c)
           /\ \/ c \in met
              \/ c \in Updates /\ CanTransition(request.status, request'.status)
              \/ c \in Uploads /\ request'.status = "completed"
              \/ c \in Legacies /\ request'.status = "report_ready"]_vars
=============================================================================

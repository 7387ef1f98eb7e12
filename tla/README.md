# A verification project for secaudit-api

TLA+ models of the parts of `apps/api` whose correctness depends on how
requests, workers and transactions overlap, TLC runs that check them, and TLAPS
proofs of what matters most for every number of users, calls and workers.

The API is a NestJS monolith over PostgreSQL (TypeORM) with a Redis/BullMQ
queue and, for deep scans, a separate worker program that calls back over HTTP.
Almost every hard behaviour comes from one shape: a handler reads rows, awaits
something, decides, and writes later, while handlers of other requests (or of
other API processes) run in between. TypeORM makes the write subtle as well:
`repository.save(entity)` loads the row once more, compares every column of the
entity with it, and updates the columns that differ, so a stale entity undoes
what others wrote meanwhile, and an entity whose row is gone is inserted again.
The modules therefore split a handler at its reads, saves and transaction
boundaries, and keep in a per-request record what the handler holds in memory.

## Inventory

Paths are below `src/apps/api/src/`.

| Component | State | Operations | Hard behaviours | What makes it correct |
|---|---|---|---|---|
| Plan caps and usage counters (`modules/plans/plan-caps.service.ts`, `guards/plan-cap.guard.ts`) | `usage_counters`, `plans.caps`, ACTIVE subscription | reserve a submission, reserve a scan, guard checks | racing reservations, rollback, plan and month change under a call | counts are exact, caps hold, rejections are justified |
| Active-scan job (`modules/active-scan/active-scan.service.ts`) | `active_scan_jobs`, queue message | enqueue, claim, progress, findings, complete, cancel | stale saves, redelivered messages, dead workers | one claim, cancel sticks, claimed jobs end |
| Verified targets and scan admission (same file, `guards/active-scan-plan.guard.ts`) | `verified_targets`, jobs | add, verify, remove, request a scan, admin's scan, expiry | check-then-act, stale saves, foreign key | only proved hosts are scanned, targets outlive their jobs |
| Scan results and SSE (same file) | `active_scan_findings`, `errorLog`, counts, hubs | findings batch, complete, cancel, stream | duplicates, overlap of calls, subscription against events | reports stored, counts match, subscribers hear the end |
| Job queue (`modules/queue`) | BullMQ | enqueue, cancel | at-least-once, enqueue failure | (external; part of the job module) |
| Subscriptions and plan changes (`modules/plans`) | `subscriptions`, `plan_change_requests` | sign-up, request, supersede, cancel, approve, reject | two admins, user against admin, a late note | one pending request, an approval stands, what was approved is in force (of the plan, it is not: see below) |
| Auth (`modules/auth`) | `refresh_tokens`, `password_reset_tokens`, `users` | register, login, refresh, logout, forgot, reset | non-atomic rotation, grace window, reuse detection, a rehash after a reset | reuse and resets end sessions, a family does not split by itself, a retry keeps the session |
| Requests (`modules/requests`, `modules/admin-requests`) | `testing_requests` | create, patch, status change | canTransition on a stale row, details saved whole | only allowed transitions, patches are kept |
| Reports (`modules/reports`) | `reports`, objects in storage | upload, create, regenerate password, download | object and row out of step, counts in memory | rows have their objects, the stored file opens with the recorded password |
| Auto-scan (`modules/auto-scan`) | `auto_scan_runs`, findings | run, promote, dismiss | late answers, timeouts, chunks, restart | totals and rows agree, a run ends |
| Demo scan (`modules/demo-scan`) | in-memory jobs, windows, cache | start, stream, run; the checks | replay against live events, cached zeros, hanging sites | streams tell the whole, the cache repeats the newest run, scans end |
| Scanners, mail, storage, PDF, crypto, audit, cron, health, users | little or none | I/O and pure functions | – | – |

`PROJECT.json` lists each component with its status, and under `hazards` each
place in the code where a test would hardly reach what can go wrong.

## Modules

**UsageQuota** – counters and the transactions that reserve from them. A call is
one HTTP request: `SkipGuard`, `ResolveCaps`, `GuardScan`, `CountAssets`, `FindAsset`
and `CountPentests` are `PlanCapGuard` / `ActiveScanPlanGuard` with the memoised
`getCaps`, one step per query; a user without an ACTIVE subscription (`plan` is
`"none"`) gets a 500 from `ResolveCaps`. `StartUpsert` takes the month from the clock,
and `Reserve` is the `INSERT … ON CONFLICT DO UPDATE … RETURNING`, which may wait for
the row lock (`Locked`) into the next month and keeps the returned row in the call;
`Reject`, `Commit`, `Abort` end the transaction. `ChangePlan` and `NextMonth` happen at
any time; a plan is changed by an operator or a migration, because an approval does
not (see **PlanChange**). The
increment is invisible to others until `Commit`, as in the database, and the
caps compared are those the call resolved earlier. The process-wide switch
`PLAN_CAPS_ENFORCED` is a set of calls, because while it is being flipped
processes of both kinds serve calls. What the guard reads in a call's body is a
constant: whether the plan's lists offer its asset and testing type (`Offered`) and
which asset it names (`Asset`); the count of registered assets is that of the
committed requests (`RegisteredAssets`).

**QuotaLedger** – the abstract specification: a ledger per user and month to
which a request is admitted whole or not at all. UsageQuota implements it
(`LedgerSpec`, model-checked and proved).

**ActiveScanJobs** – one job row, its queue message, any number of workers and
cancel requests. Each handler but the claim is `Read` (load, check, change the
entity), `Load` (save's own SELECT and diff) and `Write` (the UPDATE); the claim
is one UPDATE statement (`ClaimUpdate`) and a later read of the job for the answer
(`ClaimReply`), which refuses nobody: the test for no updated row is of a list that is
never empty (see below). Environment: `Take`, `Stall` (redelivery), `Drop` (a handler
dies), `Die` (a worker dies).

**ScanAdmission** – targets and the way to a job, for one user: every request is
a record with what it holds; the scan's transaction is its unlocked `findOne`
(`CheckTarget`), the rolled-back mark (`MarkExpired`) and reservation, INSERT
and COMMIT as one step (`CommitJob`; that the reservation may be one step is
what UsageQuota shows). A saved entity is a `Load` followed by an `Update` or an
`Insert`, with the unique index and the RESTRICT foreign key.

**ScanResults** – findings batches upserted row by row, the error log appended in
memory, the save that ends a batch with errors or host summaries, the counts, and the
stream with its hub. `Instance` says which service
object serves a request; it is the request itself, because a request-scoped
dependency makes the whole service request-scoped.

**Sessions** – one account: its refresh tokens, its reset links, its password, and
login, refresh, logout, forgot, reset and an admin's disabling, one step per query,
because `AuthService` opens no transaction around them. A token is named by the call
that inserts its row, so `Line(t)`, the calls it descends from, can be read off the
state. Reuse detection (`DetectReuse`), the benign retry within the grace window
(`AnswerRetry`) and the rotation (`Continue` inserts the successor, `Rotate` marks the
token presented) are the branches of `refresh`. `reused` and `cut` are history: what
was in flight when a family, or all sessions, were revoked.

**PlanChange** – users, subscriptions and plan change requests: the register
transaction, `requestChange` with its superseding UPDATE (snapshot, then recheck under
the lock) and the partial unique index (`Taken`), the note, cancel and reject through
`save()` (`Load`, `Update`), and `approve`, which reads the request outside the
transaction that changes the subscription (`FindSub`, `LoadSub`, `LockSub`, `Commit`).
`Saved` says what the save of the subscription compares and writes: the billing cycle
that was assigned, and for `planId` the plan of the loaded relation, which is the old one.

**Reports** – one testing request, its reports and the bucket: `Patch`, an admin's
`CheckTransition`/`SetStatus`, an upload from loading the request over the two objects
and the row to the request's save, the legacy report, a password regeneration (object
first, row second) and the fire-and-forget download count. `met` is history: which
calls held the same entity at the same time as another.

**AutoScan** – runs in the process that made them: scanners of two tiers, each in a
race with its master timeout that is decided once (`Decided`), findings saved in
chunks, the closing save, the process's end (`Crash`), and promote and dismiss through
`save()`.

**DemoChecks** and **DemoScan** – DemoChecks has the checks of `checks/index.ts` as
decision tables over classes of pages, handshakes and network answers, the compliance
results derived from them and the scores; it has no state, and `MCDemoScan` evaluates
what is said of the tables (`ScoresInRange`, `LettersMatchStatus`,
`CookielessNeverPassesGdpr`) as assumptions. DemoScan is the service around them: the
windows per address, the cache per domain, runs whose awaits all have timers, streams
that are looked up in one turn and subscribed to in another, and a restart.

Where a handler may die between two steps and no fairness is assumed, dying is taking
no further step, so every prefix of a call is explored without a crash action; where
fairness is assumed (`ActiveScanJobs`, `AutoScan`, `DemoScan`) death is an action.

The MC modules give TLC the constants. The theorems about a component are in the module
named after it: `UsageQuotaProofs`, `ActiveScanJobsProofs`, `ScanAdmissionProofs`,
`ScanResultsProofs`, `SessionsProofs`, `PlanChangeProofs`, `ReportsProofs` and
`AutoAndDemoScanProofs`, which has both scans: they run alike in the memory of one
process, and the names of `DemoScan` carry the prefix `Demo` where the two would clash.

Definitions marked `Mutant` are plausible bugs of the code; each property is
violated when the mapped definition behaves like its mutant.

## Runs

| Run | Shows | Bounds |
|---|---|---|
| `UsageQuota` | counts exact, caps hold, rejections justified; refinement; every call is answered | 1 user with or without a subscription, 3 calls (any kind, three kinds, two kinds), 2 enforced, 2 plans, 2 months of one year, 2 assets |
| `ActiveScanJobs` | one claim wins, cancel sticks, claimed jobs end | 2 workers, 1 cancel, 1 progress or findings call a scan (so two on one job), 1 redelivery, 1 fault |
| `ScanAdmission` | scanned hosts were proved; jobs keep their target | 1 host, 2 adds, 2 verifications, 1 removal, a user's and an admin's scan, every cap 1 |
| `ScanResults` | reports stored, counts match, errors kept | 2 keys, 2 severities, 2 batches of one severe finding or two findings, with or without errors and hosts, 1 stream |
| `Sessions` | reuse and resets end sessions, families split only by double rotation, retries keep the session | 2 logins, 3 refreshes, 1 logout, 1 reset, 1 link, at most 5 calls; grace 0, token life 1, clock 0..2 |
| `PlanChange` | one pending request, approvals stand, the billing cycle is the last one's, the plan never changes | a backfilled and a new user, 2 plans, 2 billing cycles, 1 sign-up, 2 changes, 1 cancel, 3 approvals, 1 reject, at most 5 calls |
| `Reports` | rows have objects, passwords open, counts, patches and transitions | 2 patches, 2 status changes, 1 upload, 1 legacy report, 2 regenerations, 2 downloads, at most 5 calls |
| `AutoScan` | totals add up, decisions exclude each other, runs end | 1 run, 2 + 1 scanners, up to 2 findings each, chunks of 2, a promote, a dismiss |
| `DemoScan` | streams tell the whole, the cache is faithful, scans end | 3 scans of a silent site, 1 stream, 1 domain, 1 address, 2 scans a window, window and cache life 1, clock 0..2, 1 restart, 1 slow check |
| `PlanChangeSignups` | violated: a sign-up's request can be approved | 1 sign-up, 1 approval |
| `ScanResultsSeverity` | violated: the highest severity is kept | 2 batches of one finding |
| `ScanResultsStream` | violated: a subscriber hears of the end | 1 batch, 1 stream |

Why these bounds are enough: each hazard needs two overlapping actors and one
event in between, and the runs have two of every kind of actor that can collide
and at least one more event. Three calls are needed for a cap of two to be
passed by a race; caps are brought down to one, two and three so that they are
reached. Users and jobs do not interact (every query filters on one) and
hostnames meet only in the count of retained targets, which no property is
about, so one of each suffices for the runs, and the proofs hold for any number
of them. In `UsageQuota` one call may be of any kind and the others of those that race
for a cap (`KindsOf`), and since one call is not enforced, the ledger's clause about
caps says nothing in the run: that it holds where all are enforced is proved
(`ImplementsLedger`) for every set of enforced calls. Sessions,
families, requests and runs of different accounts share no row either; `PlanChange` has two users because the backfilled and the new one take different
paths. Grace 0 against a clock of three instants has a retry at the edge of the window
and past it, and a token life of 1 one before and after expiry. One slow check is
enough for DemoScan: results differ only in which checks were late, and the tables are
evaluated apart, over every handshake and the classes that matter.
`MaxReports`, `MaxStalls`, `MaxFaults`, `MaxPeriod`, `MaxRank`, `MaxCalls`, `MaxTime`,
`MaxFound` and `MaxRestarts` are bounds on counters of the model and named as such.
Deadlock is not checked: a request or call is made once, so every model may stop when all have been made.

## Fairness

- `UsageQuota`: `WF(Step(c))` for each call. Once a request is in, the event loop
  and PostgreSQL carry it on; a wait for a row lock ends when the holder ends.
  Nothing forces a plan or month to change.
- `ActiveScanJobs`: weak fairness of a worker's own next call and of the two
  halves of a save. Not of taking a message, enqueueing, stalls, faults or
  cancels. A worker that has claimed therefore reaches `Complete` (its reports are
  bounded) unless it dies, and `ClaimedJobsEnd` excuses it when a fault occurred.
- `ScanResults`: weak fairness of the worker's calls as a whole; none of the
  subscriber's or the user's.
- `AutoScan`: weak fairness of a run's own steps and of its timers. Not of answers (a
  tool may hang), of the process's end, or of the admins.
- `DemoScan`: weak fairness of the timers and of the turn that ends a scan. No site,
  resolver or reader has to do anything.
- `Sessions`, `PlanChange`, `Reports`: none. Their properties are about safety, and any
  call may stop half way.

`Abort` belongs to a fair `Step`, but weak fairness of a disjunction forces none
of its members in particular.

## Proofs

Every safety property that a run shows to hold is also proved. The proofs hold for any values of the constants that satisfy the named
assumptions, which TLC evaluates on the runs. Most of these give the constants their types or keep sets of
identifiers apart (`RequestsApart`: a subscription and a worker's call are different HTTP requests). Some say that a set is finite (`CallsFinite`, `KeysFinite`,
`RunsFinite`, `DownloadsFinite`, `RefreshesFinite`): a finite history has finitely many
calls, and properties that count need it.

Each module has one inductive invariant, `IInv` (`DemoInv` for DemoScan), that TLC accepted
as an invariant of the component's run before it was proved; `InvHolds` or the theorem
itself carries it through `Next`, action by action, and the theorems are read off it.
Theorems about what a step may never do, and some that no run is spent on, need a smaller
invariant beside it (`NewUsersApart`, `HubsAreOwn`, `LinksKnown`); TLC confirmed on the
bounds of the component's run what each of them states.

- **UsageQuota.** `CounterIsLedger` is not inductive alone: a commit writes the
  private row a call got earlier. The invariant adds that there is at most one
  open reservation per row, that its private row is still the committed row
  plus its own increments, and that a call caps are enforced for has a plan once it is
  past `ResolveCaps` (`CheckedCallsHavePlans`). Then a commit moves counter and ledger by the same
  one, `CapsRespected` follows at the moment of a commit because the call that
  commits was checked against the exact count, and `RejectedOnlyWhenFull` because
  committed calls are never taken back. `ImplementsLedger` maps `Commit` to
  `Admit` and every other step to a stutter.
- **ActiveScanJobs.** `SingleWinner` rests on what entities in memory can say: a
  worker's never says `queued` and a cancel's always says `cancelled`, so no save
  can put the job back to `queued` after a claim has won, and a claim whose answer is
  still to come knows that the job has left `queued`, whether it won or not. `CancelSticks` follows
  from the same invariant. `EndedJobsAreOver` is the general form: once the job has ended
  and every entity still to be saved says so too, it stays that way whatever is redelivered
  or called. A scan that comes back after it ended was brought back by an entity read before.
- **ScanAdmission.** The invariant says of every row, and of every entity a
  request holds, that a verified status comes with a token proved on that host
  (some token: not necessarily its own, see below), and that a row some
  job refers to is neither deleted nor replaced.
- **ScanResults.** Of a batch, what it has sent and no longer has to do is in the table,
  and the row's severity is one it sent: an upsert only overwrites with what is reported.
  For the counts and the error log the invariant has a part for a worker that waits for
  its answers (`~overlapped`): one of its calls is in flight at most, so the entity that
  call holds is the row but for what it adds itself. `SubscribersHearNothing` proves for
  any jobs, calls and streams what the run `ScanResultsStream` meets with one: the hub of a
  request's service instance has no subscriber but that request, and a stream that is live
  stays live.
- **Sessions.** The properties are about *lines*: a token, the token it was rotated from,
  and so on. The invariant asks of every token that is neither revoked nor replaced, *and*
  of every refresh that has read such a token and has its insert still before it, that its
  line meets what the last revocation met in flight; without the second half a rotation
  under way would break it. For the password the same is said of logins that have compared
  a hash and not inserted, and of the password itself, which a rehash may write back
  (`Excused`). `ForkPart` says that the tokens of a family form a tree: two of them are on
  one line or below a token with two successors. It is inductive because a line only grows
  at its end, and a token on another one's line has a successor on that line (`LineChild`).
  `DuplicatePart` follows a family of which only the first token was presented. The frame
  lemmas show these parts for any step in which calls go forward (`CallsAdvance`), no row is
  made good again (`RowsAdvance`) and rows are written for a reason (`WritesAreCalled`);
  each action is then shown to be such a step, which is a theorem of its own
  (`TokensAreSpentForGood`). `SpentLinksLetNobodyIn` bounds what the unlocked check of a
  reset link allows: a reset is let in only while none of those it shares the link with has
  marked it.
- **PlanChange.** `ApprovalsStand` excuses requests that another call held while they were
  approved. So the invariant says that an approved request that is not excused is held by
  nobody, and that nobody can pick it up: handlers load pending rows only. For
  `BillingOfLastApproval`, an approval that need not write the billing cycle still finds
  that cycle in force, unless another approval for the user overtook it
  (`CleanIsCurrent`). `PlansStay` holds because no approval ever finds the plan different
  from the row: what it would write is what it loaded (`Diff`). `ApprovalsOnlyBill` states
  both, `ApprovedPlansAreNotInForce` the second alone. `OnePending` is the unique index,
  which every statement that makes a row pending has to pass, stale saves included.
  `SignupsAreNeverApproved` proves what the run `PlanChangeSignups` shows for one sign-up:
  an approval needs an ACTIVE subscription, which only the backfill has made, and it locks
  and checks the subscription of the user whose request it read, so no account that signed
  up ever gets there, whoever calls what.
- **Reports.** Nothing locks a row. The invariant's core is that two calls which hold the
  same row have both met another, so what a call that met none holds is what the row says;
  a request's calls and a report's calls share nothing but the row an upload inserts, and
  the invariant has a part for each. The count that a call holds is at most the number of answered
  downloads, and the row's if the call met no other (`ReportKnows`, `CountsHold`). `StatusMovesAreLegal` is an action property,
  and so is `CountsFallWhereCallsMet`: answered downloads stay answered, so a count that is
  theirs before and after a step does not fall.
- **AutoScan.** A race that is decided stays decided, so what a run collects is fixed when
  the last tier has settled. While it saves, the rows are a part of that and the chunks
  to come are the rest; the closing save counts a set that can no longer change. A decision
  that met no other on its finding is the only one that wrote it since it was loaded.
  `WhatIsDecidedStands` says it of every step: no late answer, timeout, chunk, decision or
  crash changes the outcome of a race, what a won one brought, or the row and the findings
  of a run that has ended.
- **DemoScan.** A job runs exactly while its run does and has no result until it is
  complete, so a stream that was looked up and subscribed in two turns has heard nothing
  or, in the turn in which it is closed, everything. A cache entry is as old as the newest
  run of its domain, which is why an answer from it shows what that run showed. The
  checks' answers, what is derived from them and the scores stay opaque: the proofs hold
  for any. `DemoScansEndOnce` adds that a complete job is shown the same for as long as the
  process lives and that an ended stream hears nothing more.

What the proofs changed in the models. `Reports` assumed that patches were apart from the
other calls with a formula that holds of any sets (`Patches \cap (Calls \ Patches) = {}`);
the lemma that needs it could not be proved, and the assumption now names the other sets.
`Line` in `Sessions` was a recursive function; it is now the smallest set that is closed
under rotation (`RotationClosed`), which is the same set and can be reasoned about without
an induction over the calls. The finiteness assumptions above were added where a count
needs them.

Only model-checked: liveness (`EveryCallIsAnswered`, `ClaimedJobsEnd`, `RunsEnd`,
`ScansEnd`), which is out of the prover's reach, and the tables of `DemoChecks`
(`ScoresInRange`, `LettersMatchStatus`, `CookielessNeverPassesGdpr`). The scores are sums
over sequences: what a sum comes to for every sequence needs an induction, and TLC
evaluates the tables over all their classes instead. The three properties that the code
violates have no theorem; for two of them one states what the code does
(`SignupsAreNeverApproved`, `SubscribersHearNothing`).

## Where the code and its documents disagree

Four disagreements have a run (see `findings` in `PROJECT.json`): an approved plan is not
put in force; the request of a sign-up can never be approved; the upsert lowers
severities; live subscribers hear nothing. All but the third are proved for any number of
users, calls and streams. The first needs a word: `applyPlanChange` loads the subscription
with `relations: { plan: true }` (`subscriptions.service.ts:209`), assigns `planId` and
not `plan` (`:217`) and saves (`:228`); TypeORM 0.3 takes a join column from the relation
when the relation is loaded, so the UPDATE sets the billing cycle and the period's end and
leaves `planId`. It is shown by a run that passes, whose property says what the code does
(`ApprovalsChangeBillingOnly`), and by `ApprovedPlansAreNotInForce`.

Seen in TLC's schedules, without a run of their own: the yearly pentest cap
(`plan-cap.guard.ts:167`) and the registered-assets cap can be passed by racing
requests; a worker's stale save can bring a cancelled scan back
(`active-scan.service.ts:830`); the mark of an expired target is rolled back by the
exception thrown after it (`:439`); a verification that overlaps a re-add verifies a
row whose new token nobody proved (`:248`); two overlapping refreshes with one token
both rotate it and fork the family, which the comment at `auth.service.ts:451-454`
means to exclude (it covers the retry that comes after the rotation).

Seen while modelling, without a run of their own: the concurrency cap and the
maximum of targets are check-then-act like the pentest cap; a worker's
`findingCounts` is trusted although the comment calls the recomputed counts
authoritative (`active-scan.service.ts:949-951`); overlapping calls lose each
other's error-log entries; a per-type cap for a type without a column is enforced
nowhere; the comment at `:414` speaks of a lock that is not taken; the comment at
`:750` of a cancel flag the worker polls, which no endpoint offers; `:783` tests
the length of what TypeORM returns for a raw UPDATE, which is a pair `[rows, affected]`
and never empty, so no claim is refused, although the comment below it (`:784`) expects
the loser of a race there: a second worker scans as well (`ClaimReply`), `SingleWinner`
speaks of the UPDATE and not of the answer, and no property says that one worker scans
alone; a job whose enqueueing failed is queued for ever.
In the auto-scan, SSL Labs has a deadline of its own (110 s) beyond the master timeout
of its tier (70 s). In the demo scan, the rate limit's message speaks of 5 scans per hour and
means fixed windows; `fetchUrl` says it follows at most 3 redirects (`:125`) and counts
none; a compliance result's detail and the score shown for it are rounded apart (75 of
100 reads 80); a site without cookies never passes GDPR; a check that timed out is
counted in the category "application" whatever it is; a page that could not be fetched
still passes the checks for mixed content, server disclosure and vulnerable libraries.

## Not modelled, and why

Billing, listing and read-only endpoints, host and SSRF checks (external network),
e-mail verification tokens, stream tokens, upload URLs (they are only signed), the demo
scan's request throttle, the content of findings, scopes, summaries and hosts, and the
wording of errors. Audit and mail calls are fire and forget and change nothing the
properties see. What happens inside scanners, storage, PDF encryption and crypto is
I/O and pure functions; the modules see their outcomes.

Some properties excuse the calls that overlapped, because there the code does lose what
they are about; they hold for whatever ran alone, and the hazard that bites under overlap
is described above or in `hazards` and covered by none: `ComputedCountsMatch` and
`AnsweredErrorsKept` (calls of one worker), `PasswordOpensReport` (regenerations, also one
that stopped between the object and the row), `DownloadsAreCounted` (the equality; the
upper bound holds always), `PatchesAreKept`, `StatusMovesAreLegal` and `DecisionsExclude`
(requests that held the same entity), `ResetEndsSessions` and `ForksComeFromOneToken`
(logins in flight, a token rotated twice). `CancelSticks` excuses a save that read the job
before the cancel.

Simplifications worth knowing: `PlanChange` leaves out a subscription's `currentPeriodEnd`
and `requestedPlanId`, which nothing else in it depends on. DemoChecks computes
scores in integers, with the one sum (184 of 320 points) that doubles round the other
way as a case of its own. The error branch of a demo job
(`demo-scan.service.ts:377-383`) is unreachable, since nothing before it throws.

## Plan

What would come next:

1. `Sessions`: an abstract session specification, and what of it survives rotation that is
   not atomic.
2. The finding and progress events of the live stream, once the hub is shared.
3. The checks of `PlanCapGuard` and of the scan plan's guard that count outside the
   transaction (pentests, registered assets, active jobs), once they are in it.

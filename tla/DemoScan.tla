------------------------------ MODULE DemoScan ------------------------------
(***************************************************************************)
(* DemoScanService: public scans that live in the memory of one process,   *)
(* the windows that limit them per address, the cache of results per       *)
(* domain, and the streams on which the results are told.                  *)
(*                                                                         *)
(* startScan runs to its return without an await, with the whole of a scan *)
(* that the cache answers.  Any other scan awaits the page, the TLS        *)
(* handshake and its checks, each against a timer, and then does all that  *)
(* a reader can see in one turn of the event loop.  The request throttle   *)
(* of the controller is not modelled.                                      *)
(*                                                                         *)
(* DemoInit, DemoNext and their like are named apart from AutoScan's: one  *)
(* proof module extends both.                                              *)
(***************************************************************************)
EXTENDS DemoChecks

CONSTANTS
    Scans,          \* the ids of the scans that startScan lets in
    Streams,        \* calls of streamResults
    Domains, Ips,
    SomePages, SomeHandshakes, SomeNets,    \* what the sites may answer
    Slow,           \* the checks that may still be busy when their timer fires
    RATE_LIMIT_MAX, RATE_LIMIT_WINDOW, CACHE_TTL,
    MaxTime, MaxRestarts    \* bounds on the clock and on restarts

ASSUME SitesAreTyped ==
    SomePages \subseteq Pages /\ SomeHandshakes \subseteq Handshakes /\ SomeNets \subseteq Nets
ASSUME NoneIsNoName == "none" \notin Scans \cup Domains \cup Ips
ASSUME LimitsAreNaturals ==
    /\ {RATE_LIMIT_WINDOW, CACHE_TTL, MaxTime, MaxRestarts} \subseteq Nat
    /\ RATE_LIMIT_MAX \in Nat \ {0}
\* Only a name lookup has no shorter timer of its own.
ASSUME SlowChecksLookUp ==
    Slow \subseteq {"https_redirect", "caa_records", "subdomain_takeover", "dns_security",
                    "spf_record", "dkim_record", "dmarc_record"}

VARIABLES
    job,            \* the jobs map
    runScan,        \* how far the runScan of a job is
    domainCache,    \* the last results of each domain
    rateLimit,      \* the window of each address
    stream,         \* what each subscriber heard
    now,
    restarts

demoVars == <<job, runScan, domainCache, rateLimit, stream, now, restarts>>

Absent == [status |-> "absent"]
Empty == [createdAt |-> -1]

DemoTypeOK ==
    /\ \A j \in Scans :
         job[j] # Absent =>
           /\ job[j].status \in {"running", "complete"} /\ job[j].domain \in Domains
           /\ job[j].status = "running" => job[j].results = <<>>
    /\ \A j \in Scans :
         /\ runScan[j].pc \in {"unused", "fetch", "tls", "checks", "done", "lost"}
         /\ runScan[j].pc \in {"fetch", "tls", "checks"} => job[j].status = "running"
         /\ runScan[j].open \subseteq Slow /\ runScan[j].late \subseteq Slow \ runScan[j].open
    /\ \A d \in Domains : domainCache[d] = Empty \/ domainCache[d].createdAt \in 0..MaxTime
    /\ rateLimit \in [Ips -> [count: 0..RATE_LIMIT_MAX, windowStart: 0..MaxTime]]
    /\ \A s \in Streams :
         /\ stream[s].pc \in {"waiting", "opened", "live", "ended", "not_found", "broken"}
         /\ stream[s].job \in Scans \cup {"none"}
    /\ now \in 0..MaxTime /\ restarts \in 0..MaxRestarts

\* A process starts with its maps empty; count 0 is an address without an entry.
NoWindows == [i \in Ips |-> [count |-> 0, windowStart |-> 0]]
NoCache == [d \in Domains |-> Empty]

\* endedAt: history, for CacheIsFaithful.
NoRun ==
    [pc |-> "unused", page |-> NoPage, tls |-> NoTls, net |-> "none",
     open |-> {}, late |-> {}, endedAt |-> 0]

DemoInit ==
    /\ job = [j \in Scans |-> Absent]
    /\ runScan = [j \in Scans |-> NoRun]
    /\ domainCache = NoCache
    /\ rateLimit = NoWindows
    /\ stream = [s \in Streams |-> [pc |-> "waiting", job |-> "none", heard |-> <<>>,
                                    final |-> "none"]]
    /\ now = 0
    /\ restarts = 0

-----------------------------------------------------------------------------
(* Limit and cache *)

WindowOver(e) == e.count = 0 \/ now - e.windowStart > RATE_LIMIT_WINDOW

\* Mutant: > lets one too many in.
LimitedLate(e) == ~WindowOver(e) /\ e.count > RATE_LIMIT_MAX

Limited(e) == ~WindowOver(e) /\ e.count >= RATE_LIMIT_MAX

Counted(e) ==
    IF WindowOver(e) THEN [count |-> 1, windowStart |-> now] ELSE [e EXCEPT !.count = @ + 1]

Fresh(d) == domainCache[d] # Empty /\ now - domainCache[d].createdAt <= CACHE_TTL

\* Mutant: the job's results are cached, with what was derived from them.
CacheableAll(main, derived) == main \o derived

\* What setCached is given: the results without the derived ones.
Cacheable(main, derived) == main

-----------------------------------------------------------------------------
(* The runs *)

\* The job at its end.  Its scores are assigned together with the results they are a
\* function of (Final), so they are no state of their own.
Completed(entry, results) == [entry EXCEPT !.status = "complete", !.results = results]

\* The data of the complete event.  fromCache stays undefined in a job that ran, which
\* reads as FALSE.
Final(entry) ==
    [overallScore |-> calcOverallScore(entry.results),
     grade |-> calcGrade(calcOverallScore(entry.results)),
     categories |-> calcCategories(entry.results),
     compliance |-> calcCompliance(entry.results), fromCache |-> entry.fromCache]

NewJob(d, results, cached) ==
    [status |-> "running", domain |-> d, fromCache |-> cached, createdAt |-> now,
     results |-> results]

\* randomUUID: ids are alike, so the next unused one.
Unused == {j \in Scans : runScan[j].pc = "unused"}
NewId == CHOOSE j \in Unused : TRUE

\* POST public/demo/scan for a valid public URL of d.  A call that validateUrl or
\* checkRateLimit refuses changes nothing.
StartScan(j, d, i) ==
    /\ Unused # {} /\ j = NewId
    /\ ~Limited(rateLimit[i])
    /\ rateLimit' = [rateLimit EXCEPT ![i] = Counted(@)]
    /\ IF Fresh(d)
       THEN /\ \E results \in {domainCache[d].results
                                \o deriveComplianceChecks(domainCache[d].results)} :
                 job' = [job EXCEPT ![j] = Completed(NewJob(d, results, TRUE), results)]
            /\ runScan' = [runScan EXCEPT ![j].pc = "done", ![j].endedAt = now]
            /\ UNCHANGED domainCache
       ELSE /\ job' = [job EXCEPT ![j] = NewJob(d, <<>>, FALSE)]
            /\ runScan' = [runScan EXCEPT ![j].pc = "fetch"]
            /\ domainCache' = [domainCache EXCEPT ![d] = Empty]
    /\ UNCHANGED <<stream, now, restarts>>

\* Mutant: the promises are awaited as they are.
NoTimers == FALSE

\* Every await of runScan is against a timer.
withTimeout == TRUE

\* The page arrives, or its fetch fails.  A redirect is a page or a failure, too:
\* following it destroys the first request.
FetchSettles(j, page) ==
    /\ runScan[j].pc = "fetch" /\ page \in SomePages \cup {NoPage}
    /\ runScan' = [runScan EXCEPT ![j].pc = "tls", ![j].page = page]
    /\ UNCHANGED <<job, domainCache, rateLimit, stream, now, restarts>>

\* The checks will see no header and an empty page.
FetchTimesOut(j) ==
    /\ runScan[j].pc = "fetch" /\ withTimeout
    /\ runScan' = [runScan EXCEPT ![j].pc = "tls"]
    /\ UNCHANGED <<job, domainCache, rateLimit, stream, now, restarts>>

\* All checks start; net is what the network will answer to them.
StartChecks(j, tls, net) ==
    /\ runScan[j].pc = "tls"
    /\ runScan' = [runScan EXCEPT ![j].pc = "checks", ![j].tls = tls, ![j].net = net,
                                  ![j].open = Slow]
    /\ UNCHANGED <<job, domainCache, rateLimit, stream, now, restarts>>

\* getTlsInfo has an answer, or null after an error or its own timer.
HandshakeSettles(j, tls, net) ==
    /\ tls \in SomeHandshakes \cup {NoTls}
    /\ StartChecks(j, tls, net)

HandshakeTimesOut(j, net) == withTimeout /\ StartChecks(j, NoTls, net)

CheckAnswers(j, c) ==
    /\ runScan[j].pc = "checks" /\ c \in runScan[j].open
    /\ runScan' = [runScan EXCEPT ![j].open = @ \ {c}]
    /\ UNCHANGED <<job, domainCache, rateLimit, stream, now, restarts>>

CheckTimesOut(j, c) ==
    /\ runScan[j].pc = "checks" /\ c \in runScan[j].open /\ withTimeout
    /\ runScan' = [runScan EXCEPT ![j].open = @ \ {c}, ![j].late = @ \cup {c}]
    /\ UNCHANGED <<job, domainCache, rateLimit, stream, now, restarts>>

\* subject.next for every result, then complete: to whoever is subscribed by now.
Told(entry, j) ==
    [s \in Streams |->
       IF stream[s].pc = "live" /\ stream[s].job = j
       THEN [stream[s] EXCEPT !.pc = "ended", !.heard = @ \o entry.results,
                              !.final = Final(entry)]
       ELSE stream[s]]

\* What the promises of the checks came to, in order.
SettledChecks(e) ==
    LET answers == Answers(e.page, e.tls, e.net)
    IN  [i \in DOMAIN answers |->
           IF answers[i].check \in e.late THEN TimedOut(answers[i].check) ELSE answers[i]]

\* Promise.allSettled goes on when no check is open ...
Settle(j) ==
    /\ runScan[j].pc = "checks" /\ runScan[j].open = {}
    /\ runScan' = [runScan EXCEPT ![j].pc = "done", ![j].page = NoPage, ![j].tls = NoTls,
                                  ![j].net = "none", ![j].late = {}, ![j].endedAt = now]

\* ... with a turn that sets results, cache and scores, and sends the events.
Finish(j) ==
    /\ Settle(j)
    /\ \E main \in {SettledChecks(runScan[j])} : \E derived \in {deriveComplianceChecks(main)} :
         LET entry == Completed(job[j], main \o derived)
         IN  /\ job' = [job EXCEPT ![j] = entry]
             /\ domainCache' = [domainCache EXCEPT ![job[j].domain] =
                                  [createdAt |-> now, results |-> Cacheable(main, derived)]]
             /\ stream' = Told(entry, j)
    /\ UNCHANGED <<rateLimit, now, restarts>>

-----------------------------------------------------------------------------
(* The streams *)

\* GET public/demo/scan/:jobId looks the job up ...
OpenStream(s, j) ==
    /\ stream[s].pc = "waiting" /\ runScan[j].pc # "unused"
    /\ stream' = [stream EXCEPT ![s].job = j,
                    ![s].pc = IF job[j] = Absent THEN "not_found" ELSE "opened"]
    /\ UNCHANGED <<job, runScan, domainCache, rateLimit, now, restarts>>

\* Mutant: a job that is complete is subscribed to like any other.
NeverOver(entry) == FALSE

Over(entry) == entry.status = "complete"

\* ... and when the framework subscribes, the job as it is by then is replayed.
Subscribe(s) ==
    LET entry == job[stream[s].job]
    IN  /\ stream[s].pc = "opened"
        /\ stream' = [stream EXCEPT
             ![s].heard = entry.results,
             ![s].pc = IF Over(entry) THEN "ended" ELSE "live",
             ![s].final = IF Over(entry) THEN Final(entry) ELSE "none"]
        /\ UNCHANGED <<job, runScan, domainCache, rateLimit, now, restarts>>

\* The client goes away.
Unsubscribe(s) ==
    /\ stream[s].pc = "live"
    /\ stream' = [stream EXCEPT ![s].pc = "broken"]
    /\ UNCHANGED <<job, runScan, domainCache, rateLimit, now, restarts>>

-----------------------------------------------------------------------------
(* The process *)

\* The process ends and another one starts, which knows of nothing.
Restart ==
    /\ restarts < MaxRestarts
    /\ restarts' = restarts + 1
    /\ job' = [j \in Scans |-> Absent]
    /\ runScan' = [j \in Scans |-> IF runScan[j].pc = "unused" THEN runScan[j]
                                   ELSE [NoRun EXCEPT !.pc = "lost"]]
    /\ domainCache' = NoCache
    /\ rateLimit' = NoWindows
    /\ stream' = [s \in Streams |-> IF stream[s].pc \in {"opened", "live"}
                                    THEN [stream[s] EXCEPT !.pc = "broken"] ELSE stream[s]]
    /\ UNCHANGED now

Tick ==
    /\ now < MaxTime
    /\ now' = now + 1
    /\ UNCHANGED <<job, runScan, domainCache, rateLimit, stream, restarts>>

\* A timer fires.
TimesOut(j) ==
    \/ FetchTimesOut(j)
    \/ \E n \in SomeNets : HandshakeTimesOut(j, n)
    \/ \E c \in Slow : CheckTimesOut(j, c)

DemoNext ==
    \/ \E j \in Scans :
         \/ \E d \in Domains, i \in Ips : StartScan(j, d, i)
         \/ \E p \in SomePages \cup {NoPage} : FetchSettles(j, p)
         \/ \E t \in SomeHandshakes \cup {NoTls}, n \in SomeNets : HandshakeSettles(j, t, n)
         \/ \E c \in Slow : CheckAnswers(j, c)
         \/ TimesOut(j)
         \/ Finish(j)
    \/ \E s \in Streams :
         (\E j \in Scans : OpenStream(s, j)) \/ Subscribe(s) \/ Unsubscribe(s)
    \/ Restart
    \/ Tick

\* Timers fire, and the event loop takes every turn it has; no site has to answer.  (A
\* step that is Settle is Finish.)
DemoFairness == \A j \in Scans : WF_runScan(TimesOut(j)) /\ WF_runScan(Settle(j))

DemoSpec == DemoInit /\ [][DemoNext]_demoVars /\ DemoFairness

-----------------------------------------------------------------------------
(* Properties *)

\* A stream that was closed by the service has told every result of its job once, in
\* order, and the scores the job keeps, whenever it was opened; one that waits waits for
\* a job that still runs (streamResults, runScan).
StreamsTellTheWhole ==
    \A s \in Streams :
      LET entry == job[stream[s].job]
      IN  /\ stream[s].pc = "ended" /\ entry # Absent =>
               stream[s].heard = entry.results /\ stream[s].final = Final(entry)
          /\ stream[s].pc = "live" =>
               entry.status = "running" /\ runScan[stream[s].job].pc \in {"fetch", "tls", "checks"}

\* A job answered from the cache shows exactly what the newest run of its domain showed,
\* zeros for late checks included, and that run ended at most CACHE_TTL before it
\* (getCached, setCached): deriving the compliance anew adds nothing to what is cached.
CacheIsFaithful ==
    \A j \in Scans :
      job[j] # Absent /\ job[j].fromCache =>
        \E k \in Scans :
          LET of(m) == job[m] # Absent /\ ~job[m].fromCache /\ runScan[m].pc = "done"
                       /\ job[m].domain = job[j].domain
          IN  /\ of(k) /\ job[j].results = job[k].results
              /\ job[j].createdAt - runScan[k].endedAt \in 0..CACHE_TTL
              /\ \A m \in Scans :
                   of(m) /\ runScan[m].endedAt < job[j].createdAt =>
                     runScan[m].endedAt <= runScan[k].endedAt

\* A job ends although neither the site nor the DNS may ever answer, and whoever
\* subscribed hears it, unless the process ends first.
ScansEnd ==
    /\ \A j \in Scans : runScan[j].pc = "fetch" ~> runScan[j].pc \in {"done", "lost"}
    /\ \A s \in Streams :
         stream[s].pc = "live" ~> stream[s].pc \in {"ended", "broken"}
=============================================================================

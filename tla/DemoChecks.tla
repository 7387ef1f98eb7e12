----------------------------- MODULE DemoChecks -----------------------------
(***************************************************************************)
(* What the demo scan computes: the checks of demo-scan/checks/index.ts as *)
(* decision tables, the compliance results derived from them, and the      *)
(* scores of DemoScanService.                                              *)
(*                                                                         *)
(* A check sees one class per thing it looks at: h is the page (headers    *)
(* and HTML), t the TLS handshake, n what DNS and the ports answer.  A     *)
(* result keeps check, status, score and category; titles, details,        *)
(* severities and gating are left out.                                     *)
(***************************************************************************)
EXTENDS Integers, Sequences, FiniteSets, Functions

\* Classes of what a check looks at; "none" is a missing header.  csp: does it hold an
\* unsafe directive; age: the max-age of Strict-Transport-Security.
Pages ==
    [hsts: {"none", "noAge", "short", "year"}, csp: {"none", "unsafe", "safe"},
     ancestors: BOOLEAN, xfo: {"none", "good", "other"}, nosniff: {"none", "good", "other"},
     permissions: BOOLEAN, referrer: {"none", "safe", "weak", "unsafe"},
     coop: {"none", "sameOrigin", "other"}, coep: {"none", "isolates", "other"},
     xss: {"none", "zero", "other"}, type: {"none", "charset", "bare"},
     server: {"none", "name", "version"}, waf: BOOLEAN,
     cookie: {"none", "loose", "guarded"}, sameSite: BOOLEAN,
     cors: {"none", "anyTrusted", "any", "one"}, csrf: BOOLEAN,
     mixed: BOOLEAN, oldLibrary: BOOLEAN]

Handshakes ==
    [cert: {"noTls", "noCert", "noDate", "expired", "soon", "month", "valid"},
     ocsp: BOOLEAN, proto: {"old", "1.2", "1.3", "other"},
     cipher: {"none", "weak", "strong", "other"}]

Nets ==
    [redirect: {"yes", "no", "throws"}, caa: BOOLEAN, ports: {"standard", "odd", "plain"},
     cname: {"none", "risky", "other"}, spf: BOOLEAN, dkim: BOOLEAN,
     dmarc: {"none", "reject", "quarantine", "monitor", "other"}]

\* What the checks are given after a failed fetch: no header, and an empty page.
NoPage ==
    [hsts |-> "none", csp |-> "none", ancestors |-> FALSE, xfo |-> "none",
     nosniff |-> "none", permissions |-> FALSE, referrer |-> "none", coop |-> "none",
     coep |-> "none", xss |-> "none", type |-> "none", server |-> "none", waf |-> FALSE,
     cookie |-> "none", sameSite |-> FALSE, cors |-> "none", csrf |-> FALSE,
     mixed |-> FALSE, oldLibrary |-> FALSE]

\* tlsInfo = null
NoTls == [cert |-> "noTls", ocsp |-> FALSE, proto |-> "other", cipher |-> "none"]

Verdict(status, score) == [status |-> status, score |-> score]
Pass(score) == Verdict("pass", score)
Warn(score) == Verdict("warn", score)
Fail(score) == Verdict("fail", score)
Info(score) == Verdict("info", score)
Error(score) == Verdict("error", score)

-----------------------------------------------------------------------------
(* TLS *)

ssl_cert(t) ==
    [noTls |-> Fail(0), noCert |-> Fail(0), noDate |-> Fail(0), expired |-> Fail(0),
     soon |-> Fail(2), month |-> Warn(5), valid |-> Pass(10)][t.cert]

hsts(h) ==
    [none |-> Fail(0), noAge |-> Warn(4), short |-> Warn(6), year |-> Pass(10)][h.hsts]

https_redirect(n) == [yes |-> Pass(10), no |-> Fail(0), throws |-> Warn(5)][n.redirect]

tls_version(t) ==
    IF t.cert = "noTls" THEN Error(0)
    ELSE CASE t.proto = "old" -> Fail(0)
           [] t.proto = "1.2" -> Pass(8)
           [] t.proto = "1.3" -> Pass(10)
           [] t.proto = "other" -> Warn(5)

mixed_content(h) == IF h.mixed THEN Fail(2) ELSE Pass(10)

ocsp_stapling(t) ==
    CASE t.cert = "noTls" -> Error(5)
      [] t.cert = "noCert" -> Warn(5)
      [] t.cert \notin {"noTls", "noCert"} -> IF t.ocsp THEN Info(8) ELSE Warn(6)

cert_expiry(t) ==
    IF t.cert \in {"noTls", "noCert", "noDate"} THEN Error(0) ELSE ssl_cert(t)

cipher_analysis(t) ==
    [none |-> Error(5), weak |-> Fail(0), strong |-> Pass(10), other |-> Pass(8)][t.cipher]

caa_records(n) == IF n.caa THEN Pass(10) ELSE Fail(4)

-----------------------------------------------------------------------------
(* Headers *)

csp_header(h) == [none |-> Fail(0), unsafe |-> Warn(5), safe |-> Pass(10)][h.csp]

x_frame_options(h) == [none |-> Fail(0), good |-> Pass(10), other |-> Warn(5)][h.xfo]

x_content_type(h) == [none |-> Fail(0), good |-> Pass(10), other |-> Warn(5)][h.nosniff]

permissions_policy(h) == IF h.permissions THEN Pass(10) ELSE Warn(5)

referrer_policy(h) ==
    [none |-> Fail(3), safe |-> Pass(10), weak |-> Warn(6), unsafe |-> Fail(2)][h.referrer]

coop_header(h) == IF h.coop = "none" THEN Warn(4) ELSE Pass(10)

coep_header(h) == IF h.coep = "none" THEN Warn(4) ELSE Pass(10)

x_xss_protection(h) == IF h.xss = "other" THEN Warn(5) ELSE Info(8)

content_type_header(h) == [none |-> Fail(2), charset |-> Pass(10), bare |-> Warn(6)][h.type]

server_disclosure(h) == [none |-> Pass(10), name |-> Warn(7), version |-> Fail(2)][h.server]

-----------------------------------------------------------------------------
(* Network and mail *)

\* "plain": FTP or Telnet is open.
open_ports(n) == [standard |-> Pass(10), odd |-> Warn(5), plain |-> Fail(0)][n.ports]

waf_detection(h) == IF h.waf THEN Info(10) ELSE Info(8)

\* A lookup that fails is an empty one (.catch), so the outer catch is never reached.
subdomain_takeover(n) == IF n.cname = "risky" THEN Warn(3) ELSE Pass(10)

dns_security(n) == Info(8)

spf_record(n) == IF n.spf THEN Pass(10) ELSE Fail(0)

dkim_record(n) == IF n.dkim THEN Pass(10) ELSE Fail(0)

dmarc_record(n) ==
    [none |-> Fail(0), reject |-> Pass(10), quarantine |-> Pass(8), monitor |-> Warn(4),
     other |-> Warn(5)][n.dmarc]

-----------------------------------------------------------------------------
(* Application *)

\* No cookie at all is an "info", not a pass.
cookie_security(h) == [none |-> Info(8), loose |-> Fail(2), guarded |-> Pass(10)][h.cookie]

cors_policy(h) ==
    [none |-> Info(8), anyTrusted |-> Fail(0), any |-> Warn(5), one |-> Pass(10)][h.cors]

csrf_protection(h) ==
    IF h.csrf THEN Pass(10) ELSE IF h.sameSite THEN Pass(9) ELSE Warn(5)

clickjacking(h) ==
    CASE h.ancestors /\ h.xfo = "good" -> Pass(10)
      [] h.ancestors /\ h.xfo # "good" -> Pass(9)
      [] ~h.ancestors /\ h.xfo = "good" -> Pass(8)
      [] ~h.ancestors /\ h.xfo # "good" -> Fail(0)

vulnerable_js_libs(h) == IF h.oldLibrary THEN Fail(2) ELSE Pass(10)

cross_origin_isolation(h) ==
    CASE h.coop = "sameOrigin" /\ h.coep = "isolates" -> Pass(10)
      [] h.coop = "none" /\ h.coep = "none" -> Fail(2)
      [] OTHER -> Warn(5)

-----------------------------------------------------------------------------
(* All of them *)

Result(check, verdict, category) ==
    [check |-> check, status |-> verdict.status, score |-> verdict.score,
     category |-> category]

\* What the checks answer, in the order of the exported array.
Answers(h, t, n) ==
    <<Result("ssl_cert", ssl_cert(t), "tls"),
      Result("hsts", hsts(h), "tls"),
      Result("https_redirect", https_redirect(n), "tls"),
      Result("tls_version", tls_version(t), "tls"),
      Result("mixed_content", mixed_content(h), "tls"),
      Result("ocsp_stapling", ocsp_stapling(t), "tls"),
      Result("cert_expiry", cert_expiry(t), "tls"),
      Result("cipher_analysis", cipher_analysis(t), "tls"),
      Result("caa_records", caa_records(n), "tls"),
      Result("csp_header", csp_header(h), "headers"),
      Result("x_frame_options", x_frame_options(h), "headers"),
      Result("x_content_type", x_content_type(h), "headers"),
      Result("permissions_policy", permissions_policy(h), "headers"),
      Result("referrer_policy", referrer_policy(h), "headers"),
      Result("coop_header", coop_header(h), "headers"),
      Result("coep_header", coep_header(h), "headers"),
      Result("x_xss_protection", x_xss_protection(h), "headers"),
      Result("content_type_header", content_type_header(h), "headers"),
      Result("server_disclosure", server_disclosure(h), "headers"),
      Result("open_ports", open_ports(n), "network"),
      Result("waf_detection", waf_detection(h), "network"),
      Result("subdomain_takeover", subdomain_takeover(n), "network"),
      Result("dns_security", dns_security(n), "network"),
      Result("spf_record", spf_record(n), "email"),
      Result("dkim_record", dkim_record(n), "email"),
      Result("dmarc_record", dmarc_record(n), "email"),
      Result("cookie_security", cookie_security(h), "application"),
      Result("cors_policy", cors_policy(h), "application"),
      Result("csrf_protection", csrf_protection(h), "application"),
      Result("clickjacking", clickjacking(h), "application"),
      Result("vulnerable_js_libs", vulnerable_js_libs(h), "application"),
      Result("cross_origin_isolation", cross_origin_isolation(h), "application")>>

\* What stands for a check whose timer fired: a zero of the application category,
\* whatever its own.
TimedOut(check) == Result(check, Verdict("timeout", 0), "application")

-----------------------------------------------------------------------------
(* Scores *)

\* Math.round(a / b) for a >= 0
Rounded(a, b) == (2 * a + b) \div (2 * b)

\* Every category but compliance.
Categories == {"tls", "headers", "network", "email", "application"}

Of(results, cs) == {i \in DOMAIN results : results[i].category \in cs}

Total(results, cs) ==
    LET sum[i \in 0..Len(results)] ==
          IF i = 0 THEN 0
          ELSE sum[i - 1] + (IF results[i].category \in cs THEN results[i].score ELSE 0)
    IN  sum[Len(results)]

calcGrade(score) ==
    CASE score >= 90 -> "A"
      [] score \in 80..89 -> "B"
      [] score \in 65..79 -> "C"
      [] score \in 50..64 -> "D"
      [] score < 50 -> "F"

\* In doubles 184 / 320 * 100 is a little less than 57.5; no other sum of 32 scores
\* leaves the exact quotient's rounding.
calcOverallScore(results) ==
    LET count == Cardinality(Of(results, Categories))
        sum == Total(results, Categories)
    IN  CASE count = 0 -> 0
          [] sum = 184 /\ count = 32 -> 57
          [] OTHER -> Rounded(100 * sum, 10 * count)

calcCategories(results) ==
    [c \in {results[i].category : i \in DOMAIN results} \ {"compliance"} |->
       LET own == Of(results, {c})
       IN  [score |-> Total(results, {c}), maxScore |-> 10 * Cardinality(own),
            checks |-> Cardinality(own),
            passed |-> Cardinality({i \in own : results[i].status = "pass"})]]

calcCompliance(results) ==
    LET derived == SelectSeq(results, LAMBDA r : r.category = "compliance")
    IN  [i \in 1..Len(derived) |->
           [name |-> derived[i].check, score |-> 10 * derived[i].score,
            label |-> calcGrade(10 * derived[i].score)]]

Passed(results, inputs) ==
    Cardinality({i \in DOMAIN results : results[i].check \in inputs
                                        /\ results[i].status = "pass"})

Compliant(check, score) ==
    Result(check,
           Verdict(IF score >= 75 THEN "pass" ELSE IF score >= 50 THEN "warn" ELSE "fail",
                   Rounded(score, 10)),
           "compliance")

deriveComplianceChecks(results) ==
    LET pci == {"ssl_cert", "hsts", "https_redirect", "cookie_security"}
        gdpr == {"cookie_security", "referrer_policy", "server_disclosure"}
        hipaa == {"ssl_cert", "hsts", "https_redirect"}
        count == Cardinality(Of(results, Categories))
    IN  <<Compliant("pci_dss_score", Rounded(100 * Passed(results, pci), 4)),
          Compliant("gdpr_score", Rounded(100 * Passed(results, gdpr), 3)),
          Compliant("hipaa_score", Rounded(100 * Passed(results, hipaa), 3)),
          Compliant("soc2_score", IF count = 0 THEN 50
                                  ELSE Rounded(10 * Total(results, Categories), count))>>
=============================================================================

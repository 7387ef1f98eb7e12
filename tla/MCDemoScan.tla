----------------------------- MODULE MCDemoScan -----------------------------
(***************************************************************************)
(* DemoScan for TLC: three scans of a site that never answers, so that its *)
(* results differ in the one lookup that may be late, and a reader.  What  *)
(* the tables and scores say of other sites is evaluated below.            *)
(***************************************************************************)
EXTENDS DemoScan

GoodPage ==
    [hsts |-> "year", csp |-> "safe", ancestors |-> TRUE, xfo |-> "good",
     nosniff |-> "good", permissions |-> TRUE, referrer |-> "safe", coop |-> "sameOrigin",
     coep |-> "isolates", xss |-> "zero", type |-> "charset", server |-> "none",
     waf |-> TRUE, cookie |-> "guarded", sameSite |-> TRUE, cors |-> "one", csrf |-> TRUE,
     mixed |-> FALSE, oldLibrary |-> FALSE]

GoodTls == [cert |-> "valid", ocsp |-> TRUE, proto |-> "1.3", cipher |-> "strong"]

GoodNet ==
    [redirect |-> "yes", caa |-> TRUE, ports |-> "standard", cname |-> "none", spf |-> TRUE,
     dkim |-> TRUE, dmarc |-> "reject"]

MCNets == {GoodNet}

\* The letter of a compliance score and the status of its result are rounded apart, but
\* say the same: a pass reads A or B, a warning C or D, a failure D or F.
ASSUME LettersMatchStatus ==
    \A score \in 0..100 :
      LET result == Compliant("soc2_score", score)
          letter == calcCompliance(<<result>>)[1].label
      IN  letter \in [pass |-> {"A", "B"}, warn |-> {"C", "D"}, fail |-> {"D", "F"}][result.status]

\* No check scores outside 0..10, and a site without a cookie never passes GDPR.
ASSUME ScoresInRange ==
    \A h \in {GoodPage, NoPage}, t \in Handshakes, n \in {GoodNet} :
      \A r \in Range(Answers(h, t, n)) : r.score \in 0..10
ASSUME CookielessNeverPassesGdpr ==
    \A server \in {"none", "name", "version"}, referrer \in {"none", "safe", "weak", "unsafe"} :
      LET h == [GoodPage EXCEPT !.cookie = "none", !.server = server, !.referrer = referrer]
      IN  deriveComplianceChecks(Answers(h, GoodTls, GoodNet))[2].status # "pass"
=============================================================================

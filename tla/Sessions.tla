------------------------------ MODULE Sessions ------------------------------
(***************************************************************************)
(* The sessions of one account: AuthService.login, refresh, logout,        *)
(* forgotPassword and resetPassword, the rows of refresh_tokens and        *)
(* password_reset_tokens, and AdminUsersService.update disabling the       *)
(* account, while calls overlap.  Nothing in AuthService opens a           *)
(* transaction around these calls, so every query is a step of its own.    *)
(*                                                                         *)
(* A refresh token is named by the login or refresh call that inserts its  *)
(* row, and a family by the login that started it.  A password is "first"  *)
(* or the reset call that set it; hashing and signing are left out.  The   *)
(* refresh JWT lives as long as its row (JWT_REFRESH_TTL).  Signature and  *)
(* hash checks always pass: the tokens presented are ones that were issued.*)
(* No fairness is assumed, so a call that dies (a restart, a failed query) *)
(* is one that takes no further step: every prefix of a call is explored.  *)
(***************************************************************************)
EXTENDS Integers, FiniteSets

CONSTANTS
    Logins, Refreshes, Logouts, Resets,     \* calls; each runs once
    Links,      \* password_reset_tokens: the links forgotPassword mails
    Grace,      \* refreshRotationGraceSec
    Ttl,        \* JWT_REFRESH_TTL
    MaxCalls,   \* bound on the calls that arrive
    MaxTime     \* bound on the clock

Calls == Logins \cup Refreshes \cup Logouts \cup Resets
Tokens == Logins \cup Refreshes
Words == {"first"} \cup Resets
Never == -1

ASSUME CallsDisjoint ==
    /\ Logins \cap (Refreshes \cup Logouts \cup Resets) = {}
    /\ Refreshes \cap (Logouts \cup Resets) = {}
    /\ Logouts \cap Resets = {}
    /\ {"none", "first"} \cap (Calls \cup Links) = {}
ASSUME RefreshesFinite == IsFiniteSet(Refreshes)
ASSUME TimesAssumption == {Grace, Ttl, MaxCalls, MaxTime} \subseteq Nat

VARIABLES
    rows,       \* the refresh_tokens rows
    links,      \* the state of each reset link
    password,   \* users.passwordHash: whose password, and an outdated hash?
    disabled,   \* users.disabled
    call,       \* what each call holds
    now,        \* the clock
    reused,     \* history: per family, the calls that reuse detection met in
                \* flight; {"none"} before any detection
    cut         \* history: the passwords that the last reset to revoke the
                \* sessions found replaced, and the calls it met in flight

vars == <<rows, links, password, disabled, call, now, reused, cut>>

\* replacedByJti is "none" for null; revokedAt is Never for null.
Row == [family: Logins \cup {"none"}, expiresAt: Nat,
        revokedAt: Nat \cup {Never}, replacedByJti: Tokens \cup {"none"}]

NoRow == [family |-> "none", expiresAt |-> 0, revokedAt |-> Never, replacedByJti |-> "none"]

Call == [pc: {"waiting", "rehash", "retry", "account", "retried", "insert", "rotated",
              "reuse", "hashed", "changed", "spent", "done", "refused"},
         token: Tokens \cup {"none"},   \* presented by a refresh or a logout
         link: Links \cup {"none"},     \* presented by a reset
         word: Words,                   \* presented by a login
         next: Tokens \cup {"none"}]    \* the successor that a retry found, to look up

TypeOK ==
    /\ rows \in [Tokens -> Row]
    /\ links \in [Links -> {"unsent", "open", "used", "expired"}]
    /\ password \in [word: Words, outdated: BOOLEAN]
    /\ disabled \in BOOLEAN
    /\ call \in [Calls -> Call]
    /\ now \in 0..MaxTime
    /\ reused \in [Logins -> SUBSET (Calls \cup {"none"})]
    /\ cut \in [words: SUBSET Words, calls: SUBSET Calls]

Waiting == [pc |-> "waiting", token |-> "none", link |-> "none", word |-> "first",
            next |-> "none"]

Init ==
    /\ rows = [t \in Tokens |-> NoRow]
    /\ links = [k \in Links |-> "unsent"]
    /\ password \in [word: {"first"}, outdated: BOOLEAN]
    /\ disabled = FALSE
    /\ call = [c \in Calls |-> Waiting]
    /\ now = 0
    /\ reused = [f \in Logins |-> {"none"}]
    /\ cut = [words |-> {}, calls |-> {}]

Issued(t) == rows[t].family # "none"
Answered(c) == call[c].pc \in {"done", "refused"}
InFlight == {c \in Calls : call[c].pc # "waiting" /\ ~Answered(c)}

Arrives(c) ==
    /\ call[c].pc = "waiting"
    /\ Cardinality({d \in Calls : call[d].pc # "waiting"}) < MaxCalls

Goto(c, pc) == call' = [call EXCEPT ![c].pc = pc]

Revoked(tokens) ==
    [t \in Tokens |-> IF t \in tokens THEN [rows[t] EXCEPT !.revokedAt = now] ELSE rows[t]]

InFamily(f) == {t \in Tokens : rows[t].family = f}

-----------------------------------------------------------------------------
(* login *)

\* The account is read once; argon2 compares with the hash that was read.
ReadAccount(l) ==
    /\ Arrives(l)
    /\ \E word \in Words :
         IF word # password.word \/ disabled
         THEN Goto(l, "refused")
         ELSE call' = [call EXCEPT ![l].word = word,
                                   ![l].pc = IF password.outdated THEN "rehash" ELSE "insert"]
    /\ UNCHANGED <<rows, links, password, disabled, now, reused, cut>>

\* needsRehash: the password that was presented is hashed anew and written.
Rehash(l) ==
    /\ call[l].pc = "rehash"
    /\ password' = [word |-> call[l].word, outdated |-> FALSE]
    /\ Goto(l, "insert")
    /\ UNCHANGED <<rows, links, disabled, now, reused, cut>>

\* issueTokenPair: the new token's row, in family f.
Insert(c, f) ==
    /\ call[c].pc = "insert"
    /\ rows' = [rows EXCEPT ![c] = [family |-> f, expiresAt |-> now + Ttl,
                                    revokedAt |-> Never, replacedByJti |-> "none"]]
    /\ UNCHANGED <<links, password, disabled, now, reused, cut>>

StartSession(l) == Insert(l, l) /\ Goto(l, "done")

-----------------------------------------------------------------------------
(* refresh *)

\* Mutant: a rotation exactly graceMs old is out of the window.
StrictlyWithinGrace(row) == row.revokedAt # Never /\ now - row.revokedAt < Grace

WithinGrace(row) == row.revokedAt # Never /\ now - row.revokedAt <= Grace

Expired(row) == row.expiresAt < now

\* What a refresh does next on reading the presented token's row.
Verdict(row) ==
    IF row.revokedAt = Never /\ row.replacedByJti = "none" THEN "account"
    ELSE IF WithinGrace(row) /\ row.replacedByJti # "none" THEN "retry" ELSE "reuse"

\* verifyAsync refuses an expired JWT before the row is looked up.
ReadToken(r) ==
    /\ Arrives(r)
    /\ \E t \in Tokens :
         /\ Issued(t) /\ call[t].pc = "done"
         /\ LET verdict == IF Expired(rows[t]) THEN "refused" ELSE Verdict(rows[t]) IN
            call' = [call EXCEPT ![r].token = t, ![r].pc = verdict,
                                 ![r].next = IF verdict = "retry"
                                             THEN rows[t].replacedByJti ELSE "none"]
    /\ UNCHANGED <<rows, links, password, disabled, now, reused, cut>>

Usable(row) == row.revokedAt = Never /\ row.replacedByJti = "none" /\ ~Expired(row)

\* Within the grace window: is the successor still the family's last token?
ReadSuccessor(r) ==
    /\ call[r].pc = "retry"
    /\ call' = [call EXCEPT ![r].next = "none",
                            ![r].pc = IF Usable(rows[call[r].next]) THEN "retried" ELSE "reuse"]
    /\ UNCHANGED <<rows, links, password, disabled, now, reused, cut>>

\* A retry gets an access token and no refresh token: nothing is written.
AnswerRetry(r) ==
    /\ call[r].pc = "retried"
    /\ Goto(r, IF disabled THEN "refused" ELSE "done")
    /\ UNCHANGED <<rows, links, password, disabled, now, reused, cut>>

\* Mutant: only the presented token is revoked.
RevokesPresented(r) == rows' = Revoked({call[r].token})

\* Mutant: the rows of the family are deleted, not revoked.
DeletesFamily(r) ==
    rows' = [t \in Tokens \ InFamily(rows[call[r].token].family) |-> rows[t]]

RevokeReused(r) == rows' = Revoked(InFamily(rows[call[r].token].family))

DetectReuse(r) ==
    /\ call[r].pc = "reuse"
    /\ RevokeReused(r)
    /\ Goto(r, "refused")
    /\ reused' = [reused EXCEPT ![rows[call[r].token].family] = InFlight \ {r}]
    /\ UNCHANGED <<links, password, disabled, now, cut>>

CheckAccount(r) ==
    /\ call[r].pc = "account"
    /\ Goto(r, IF disabled THEN "refused" ELSE "insert")
    /\ UNCHANGED <<rows, links, password, disabled, now, reused, cut>>

Continue(r) == Insert(r, rows[call[r].token].family) /\ Goto(r, "rotated")

\* Mutant: the presented token stays good.
MarksNothing(r) == rows' = rows

Mark(r) == rows' = [rows EXCEPT ![call[r].token].replacedByJti = r,
                                ![call[r].token].revokedAt = now]

\* The presented token's row is updated by id, whatever it holds by now.
Rotate(r) ==
    /\ call[r].pc = "rotated"
    /\ Mark(r)
    /\ Goto(r, "done")
    /\ UNCHANGED <<links, password, disabled, now, reused, cut>>

-----------------------------------------------------------------------------
(* logout, password reset, and the administrator *)

\* Only the presented token's row; an expired JWT is ignored.
Logout(o) ==
    /\ Arrives(o)
    /\ \E t \in Tokens :
         /\ Issued(t) /\ call[t].pc = "done"
         /\ rows' = IF Expired(rows[t]) THEN rows ELSE Revoked({t})
         /\ call' = [call EXCEPT ![o].token = t, ![o].pc = "done"]
    /\ UNCHANGED <<links, password, disabled, now, reused, cut>>

Forgot(k) ==
    /\ links[k] = "unsent"
    /\ links' = [links EXCEPT ![k] = "open"]
    /\ UNCHANGED <<rows, password, disabled, call, now, reused, cut>>

ReadLink(s) ==
    /\ Arrives(s)
    /\ \E k \in Links :
         /\ links[k] # "unsent"
         /\ call' = [call EXCEPT ![s].link = k,
                                 ![s].pc = IF links[k] = "open" THEN "hashed" ELSE "refused"]
    /\ UNCHANGED <<rows, links, password, disabled, now, reused, cut>>

SetPassword(s) ==
    /\ call[s].pc = "hashed"
    /\ password' = [word |-> s, outdated |-> FALSE]
    /\ Goto(s, "changed")
    /\ UNCHANGED <<rows, links, disabled, now, reused, cut>>

MarkUsed(s) ==
    /\ call[s].pc = "changed"
    /\ links' = [links EXCEPT ![call[s].link] = "used"]
    /\ Goto(s, "spent")
    /\ UNCHANGED <<rows, password, disabled, now, reused, cut>>

\* Mutant: the password changes and the sessions are left alone.
KeepSessions == rows' = rows

RevokeAll == rows' = Revoked({t \in Tokens : Issued(t)})

EndSessions(s) ==
    /\ call[s].pc = "spent"
    /\ RevokeAll
    /\ Goto(s, "done")
    /\ cut' = [words |-> {w \in Words : w = "first" \/ call[w].pc \in {"changed", "spent", "done"}}
                         \ {password.word},
               calls |-> InFlight \ {s}]
    /\ UNCHANGED <<links, password, disabled, now, reused>>

\* AdminUsersService.update: refresh tokens are left as they are.
Update ==
    /\ disabled' = ~disabled
    /\ UNCHANGED <<rows, links, password, call, now, reused, cut>>

-----------------------------------------------------------------------------
(* The surroundings *)

LinkExpires(k) ==
    /\ links[k] = "open"
    /\ links' = [links EXCEPT ![k] = "expired"]
    /\ UNCHANGED <<rows, password, disabled, call, now, reused, cut>>

Tick ==
    /\ now < MaxTime
    /\ now' = now + 1
    /\ UNCHANGED <<rows, links, password, disabled, call, reused, cut>>

Next ==
    \/ \E l \in Logins : ReadAccount(l) \/ Rehash(l) \/ StartSession(l)
    \/ \E r \in Refreshes :
         \/ ReadToken(r) \/ ReadSuccessor(r) \/ AnswerRetry(r) \/ DetectReuse(r)
         \/ CheckAccount(r) \/ Continue(r) \/ Rotate(r)
    \/ \E o \in Logouts : Logout(o)
    \/ \E k \in Links : Forgot(k) \/ LinkExpires(k)
    \/ \E s \in Resets : ReadLink(s) \/ SetPassword(s) \/ MarkUsed(s) \/ EndSessions(s)
    \/ Update
    \/ Tick

Spec == Init /\ [][Next]_vars

-----------------------------------------------------------------------------
(* Properties *)

Live(t) == Issued(t) /\ Usable(rows[t])

\* With a token, such a set holds the token it was rotated from.
RotationClosed(S) == \A s \in S \cap Refreshes : call[s].token \in S \cup {"none"}

\* The calls that minted t and the tokens it was rotated from.
Line(t) ==
    LET closed == {S \in SUBSET Tokens : t \in S /\ RotationClosed(S)}
    IN  {s \in Tokens : \A S \in closed : s \in S}

Root(t) == rows[t].family

Children(t) == {r \in Refreshes : Issued(r) /\ call[r].token = t}

\* Reuse detection ends a family for good: a token of the family that is live
\* afterwards descends from a refresh that was already in flight when the family was
\* revoked (its insert came after the UPDATE of refresh, :497).
ReuseEndsFamily ==
    \A t \in Tokens :
      Live(t) /\ "none" \notin reused[Root(t)] => Line(t) \cap reused[Root(t)] # {}

\* A completed password reset ends the sessions opened with the passwords it replaced:
\* one that is live afterwards descends from a call that the revocation met in flight,
\* or such a call was a login that wrote the old password back (needsRehash, :334-336).
ResetEndsSessions ==
    \A t \in Tokens :
      Live(t) /\ call[Root(t)].word \in cut.words =>
        \/ Line(t) \cap cut.calls # {}
        \/ \E l \in cut.calls \cap Logins : call[l].word = call[Root(t)].word

\* A family has two live tokens only where one token was rotated twice, or a rotation
\* has inserted the successor and not marked the token it replaces: because it still
\* runs, or because it died in between (refresh, :528-540).
ForksComeFromOneToken ==
    \A t, u \in Tokens :
      Live(t) /\ Live(u) /\ t # u /\ Root(t) = Root(u) =>
        \E p \in Line(t) \cup Line(u) :
          \/ Cardinality(Children(p)) > 1
          \/ \E r \in Children(p) : call[r].pc = "rotated"

\* What the grace window is for: while the only tokens of a family that were presented
\* are copies of the first one, none older than the window, and no call died, the user
\* still holds a live token when all refreshes have answered.
DuplicatesKeepSession ==
    \A l \in Logins :
      LET presented == {c \in Refreshes \cup Logouts :
                          call[c].token # "none" /\ Root(call[c].token) = l}
      IN  /\ call[l].pc = "done" /\ now <= Grace /\ now <= rows[l].expiresAt
          /\ \A c \in presented : call[c].token = l /\ c \in Refreshes
                                  /\ call[c].pc \in {"done", "refused"}
          /\ \A s \in Resets : call[s].pc # "done"
          => \E t \in InFamily(l) : Live(t)
=============================================================================

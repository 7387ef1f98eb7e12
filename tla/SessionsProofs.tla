---------------------------- MODULE SessionsProofs ---------------------------
(***************************************************************************)
(* Proofs about Sessions for any calls, links, times and bounds.  A token  *)
(* that is neither revoked nor replaced, or a refresh that has read one    *)
(* and is about to insert its successor, traces its line back to a call    *)
(* that the last revocation met in flight; and the tokens of a family form *)
(* a tree, in which two that are not on one line have forked.              *)
(***************************************************************************)
EXTENDS Sessions, FiniteSetTheorems, TLAPS

\* A live token whose time is not asked for.
Unrevoked(t) == rows[t].revokedAt = Never /\ rows[t].replacedByJti = "none"
Current(t) == Issued(t) /\ Unrevoked(t)

\* A refresh that is to insert a successor, a login that is to start a session.
Minting(r) == r \in Refreshes /\ call[r].pc \in {"account", "insert"}
Opening(l) == l \in Logins /\ call[l].pc \in {"rehash", "insert"}

\* What calls present is issued, and what they insert belongs to a family.
Knows(c) ==
    /\ c \in Refreshes \cup Logouts =>
         /\ call[c].pc = "waiting" <=> call[c].token = "none"
         /\ call[c].token # "none" => Issued(call[c].token)
    /\ c \in Refreshes =>
         /\ call[c].pc = "rotated" => Issued(c)
         /\ Issued(c) =>
              /\ call[c].pc \in {"rotated", "done"} /\ Root(c) = Root(call[c].token)
              /\ call[c].pc = "done" => rows[call[c].token].replacedByJti # "none"
    /\ c \in Logins =>
         /\ Issued(c) <=> call[c].pc = "done"
         /\ Issued(c) => Root(c) = c

FamiliesKnown ==
    /\ \A t \in Tokens : Issued(t) => Issued(Root(t)) /\ rows[t].expiresAt <= now + Ttl
    /\ \A f \in Logins : "none" \notin reused[f] => Issued(f)

\* The line of t, in family f, meets what reuse detection met in flight.
ReuseMet(t, f) == "none" \notin reused[f] => Line(t) \cap reused[f] # {}

ReusePart ==
    /\ \A t \in Tokens : Current(t) => ReuseMet(t, Root(t))
    /\ \A r \in Refreshes : Minting(r) => ReuseMet(r, Root(call[r].token))

\* A login that the last reset met in flight presented password w.
Excused(w) == \E l \in cut.calls \cap Logins : call[l].word = w

\* The line of t, in family f, meets what that reset met in flight.
ResetMet(t, f) ==
    call[f].word \in cut.words => Line(t) \cap cut.calls # {} \/ Excused(call[f].word)

ResetPart ==
    /\ \A t \in Tokens : Current(t) => ResetMet(t, Root(t))
    /\ \A r \in Refreshes : Minting(r) => ResetMet(r, Root(call[r].token))
    /\ \A l \in Logins : Opening(l) /\ call[l].word \in cut.words => Excused(call[l].word)
    /\ password.word \in cut.words => Excused(password.word)
    /\ \A w \in cut.words :
         w # "first" => w \in Resets /\ call[w].pc \in {"changed", "spent", "done"}
    /\ \A c \in cut.calls : call[c].pc # "waiting"

\* Two tokens are on one line, or fork below one that both descend from.
Joined(t, u) ==
    \/ t \in Line(u) \/ u \in Line(t)
    \/ \E p \in Line(t) \cap Line(u) : \E a, b \in Children(p) : a # b

ForkPart ==
    \A t, u \in Tokens : Issued(t) /\ Issued(u) /\ Root(t) = Root(u) /\ t # u => Joined(t, u)

Presented(l) == {c \in Refreshes \cup Logouts : call[c].token # "none" /\ Root(call[c].token) = l}

\* Nothing but duplicates of its first token was presented of family l, in time.
Quiet(l) ==
    /\ call[l].pc = "done" /\ now <= Grace /\ now <= rows[l].expiresAt
    /\ \A c \in Presented(l) : call[c].token = l /\ c \in Refreshes
    /\ \A s \in Resets : call[s].pc # "done"

\* Then its tokens are good, and what replaced the first one is there.
FamilyQuiet(l) ==
    /\ \A t \in InFamily(l) \ {l} : Unrevoked(t) /\ rows[t].expiresAt >= rows[l].expiresAt
    /\ Unrevoked(l) \/ /\ rows[l].replacedByJti \in InFamily(l) \ {l}
                       /\ rows[l].revokedAt # Never
    /\ \A c \in Presented(l) :
         /\ call[c].pc # "reuse"
         /\ call[c].pc = "retry" => call[c].next \in InFamily(l) \ {l}

DuplicatePart == \A l \in Logins : Quiet(l) => FamilyQuiet(l)

IInv ==
    /\ TypeOK /\ (\A c \in Calls : Knows(c)) /\ FamiliesKnown
    /\ ReusePart /\ ResetPart /\ ForkPart /\ DuplicatePart

-----------------------------------------------------------------------------
(* Lemmas about calls, rows and lines *)

Pcs == {"waiting", "rehash", "retry", "account", "retried", "insert", "rotated",
        "reuse", "hashed", "changed", "spent", "done", "refused"}

LEMMA Kinds ==
    /\ \A l \in Logins : l \in Calls /\ l \in Tokens /\ l \notin Refreshes \cup Logouts \cup Resets
    /\ \A r \in Refreshes : r \in Calls /\ r \in Tokens /\ r \notin Logins \cup Logouts \cup Resets
    /\ \A o \in Logouts : o \in Calls /\ o \notin Tokens /\ o \notin Resets
    /\ \A s \in Resets : s \in Calls /\ s \notin Tokens /\ s \notin Logouts /\ s \in Words
    /\ "none" \notin Tokens /\ "none" \notin Logins /\ "none" \notin Calls /\ "first" \notin Calls
    /\ Tokens = Logins \cup Refreshes /\ Tokens \subseteq Calls
BY CallsDisjoint DEF Calls, Tokens, Words

LEMMA Parts ==
    ASSUME TypeOK
    PROVE  /\ \A t \in Tokens : /\ rows[t] \in Row /\ rows[t].family \in Logins \cup {"none"}
                                /\ rows[t].expiresAt \in Nat
                                /\ rows[t].revokedAt \in Nat \cup {Never}
                                /\ rows[t].replacedByJti \in Tokens \cup {"none"}
           /\ \A c \in Calls : /\ call[c] \in Call /\ call[c].pc \in Pcs
                               /\ call[c].token \in Tokens \cup {"none"}
                               /\ call[c].next \in Tokens \cup {"none"} /\ call[c].word \in Words
           /\ now \in Nat /\ Ttl \in Nat /\ Grace \in Nat /\ now + Ttl \in Nat
           /\ password.word \in Words
BY TimesAssumption DEF TypeOK, Row, Call, Pcs

LEMMA OneCall ==
    ASSUME TypeOK, NEW c \in Calls, NEW v \in Call, call' = [call EXCEPT ![c] = v]
    PROVE  /\ call' \in [Calls -> Call] /\ call'[c] = v
           /\ \A d \in Calls \ {c} : call'[d] = call[d]
BY DEF TypeOK

LEMMA LineHas ==
    ASSUME NEW t \in Tokens
    PROVE  t \in Line(t) /\ Line(t) \subseteq Tokens
BY DEF Line

\* A line is closed under rotation.
LEMMA LineClosed ==
    ASSUME TypeOK, NEW t \in Tokens, NEW s \in Line(t) \cap Refreshes
    PROVE  call[s].token \in Line(t) \cup {"none"}
<1>1. s \in Calls /\ call[s].token \in Tokens \cup {"none"}
  BY Kinds, Parts
<1>2. ASSUME NEW S \in SUBSET Tokens, t \in S, RotationClosed(S)
      PROVE  call[s].token \in S \cup {"none"}
  <2>1. s \in S
    BY <1>2 DEF Line
  <2>. QED  BY <1>2, <2>1 DEF RotationClosed
<1>. QED  BY <1>1, <1>2 DEF Line

\* A token on the line of another one has a successor there.
LEMMA LineChild ==
    ASSUME TypeOK, NEW t \in Tokens, NEW p \in Line(t), p # t
    PROVE  \E c \in Line(t) \cap Refreshes : call[c].token = p
<1> SUFFICES ASSUME \A c \in Line(t) \cap Refreshes : call[c].token # p PROVE FALSE
  OBVIOUS
<1> DEFINE S == Line(t) \ {p}
<1>1. S \in SUBSET Tokens /\ t \in S
  BY LineHas
<1>2. RotationClosed(S)
  BY LineClosed DEF RotationClosed
<1>3. p \in S
  BY <1>1, <1>2 DEF Line
<1>. QED  BY <1>3

\* What a call presents it goes on presenting.
TokensKept == \A r \in Refreshes : call[r].token # "none" => call'[r].token = call[r].token

LEMMA LineGrows ==
    ASSUME TokensKept, NEW t \in Tokens
    PROVE  Line(t) \subseteq Line(t)'
<1>1. ASSUME NEW S \in SUBSET Tokens, RotationClosed(S)' PROVE RotationClosed(S)
  BY <1>1 DEF RotationClosed, TokensKept
<1>. QED  BY <1>1 DEF Line

LEMMA LineOfNext ==
    ASSUME TokensKept, NEW r \in Refreshes, NEW p \in Tokens, call'[r].token = p
    PROVE  Line(p) \subseteq Line(r)'
<1>1. ASSUME NEW S \in SUBSET Tokens, RotationClosed(S)' PROVE RotationClosed(S)
  BY <1>1 DEF RotationClosed, TokensKept
<1>2. ASSUME NEW S \in SUBSET Tokens, r \in S, RotationClosed(S)' PROVE p \in S
  BY <1>2, Kinds DEF RotationClosed
<1>. QED  BY <1>1, <1>2 DEF Line

\* Issued tokens descend from issued ones.
LEMMA LineIssued ==
    ASSUME IInv, NEW t \in Tokens, Issued(t)
    PROVE  \A s \in Line(t) : Issued(s)
<1> DEFINE S == {s \in Tokens : Issued(s)}
<1>1. S \in SUBSET Tokens /\ t \in S
  OBVIOUS
<1>2. RotationClosed(S)
  BY Kinds, Parts DEF IInv, Knows, RotationClosed
<1>3. \A s \in Line(t) : s \in S
  BY <1>1, <1>2 DEF Line
<1>. QED  BY <1>3

-----------------------------------------------------------------------------
(* What any step may do *)

\* Calls go forward, and act on what they have read.
CallsAdvance ==
    /\ \A c \in Calls : call[c].pc # "waiting" =>
         /\ call'[c].pc # "waiting" /\ call'[c].word = call[c].word
         /\ call'[c].token = call[c].token
    /\ \A c \in Calls : call[c].pc = "done" => call'[c].pc = "done"
    /\ \A c \in Refreshes \cup Logouts :
         call[c].pc = "waiting" /\ call'[c].token # "none" =>
           \E p \in Tokens : call'[c].token = p /\ Issued(p)
    /\ \A r \in Refreshes : Minting(r)' =>
         Minting(r) \/ \E p \in Tokens : call'[r].token = p /\ Current(p)
    /\ \A l \in Logins : Opening(l)' => Opening(l) \/ call'[l].word = password.word
    /\ \A s \in Resets : call[s].pc \in {"changed", "spent", "done"} =>
                           call'[s].pc \in {"changed", "spent", "done"}
    /\ \A r \in Refreshes : call'[r].pc = "reuse" =>
         \/ call[r].pc = "reuse"
         \/ call[r].pc = "waiting" /\ Verdict(rows[call'[r].token]) = "reuse"
         \/ call[r].pc = "retry" /\ ~Usable(rows[call[r].next])
    /\ \A r \in Refreshes : call'[r].pc = "retry" =>
         \/ call[r].pc = "retry" /\ call'[r].next = call[r].next
         \/ /\ call[r].pc = "waiting" /\ Verdict(rows[call'[r].token]) = "retry"
            /\ call'[r].next = rows[call'[r].token].replacedByJti

\* Rows are inserted by calls that got that far, and no row is made good again.
RowsAdvance ==
    /\ \A t \in Tokens : Issued(t) =>
         /\ rows'[t].family = rows[t].family /\ rows'[t].expiresAt = rows[t].expiresAt
         /\ Unrevoked(t)' => Unrevoked(t)
         /\ rows[t].replacedByJti # "none" => rows'[t].replacedByJti # "none"
    /\ \A t \in Tokens : ~Issued(t) /\ Issued(t)' =>
         /\ call[t].pc = "insert" /\ Unrevoked(t)' /\ rows'[t].expiresAt = now + Ttl
         /\ rows'[t].family = IF t \in Logins THEN t ELSE Root(call[t].token)

\* A row is written for a reason.
WritesAreCalled ==
    \A t \in Tokens : Issued(t) /\ rows'[t] # rows[t] =>
      \/ \E o \in Logouts : call[o].pc = "waiting" /\ call'[o].token = t
      \/ \E s \in Resets : call[s].pc = "spent" /\ call'[s].pc = "done"
      \/ \E r \in Refreshes : call[r].pc = "reuse" /\ Root(call[r].token) = Root(t)
      \/ \E r \in Refreshes : /\ call[r].pc = "rotated" /\ call[r].token = t
                              /\ rows'[t].replacedByJti = r /\ rows'[t].revokedAt # Never

\* The password is set by a reset, or hashed anew by a login that presented it.
PasswordAdvances ==
    \/ password'.word = password.word
    \/ \E l \in Logins : Opening(l) /\ password'.word = call[l].word
    \/ \E s \in Resets : call[s].pc = "hashed" /\ password'.word = s

LEMMA TokensAreKept ==
    ASSUME IInv, CallsAdvance
    PROVE  TokensKept
BY Kinds DEF IInv, Knows, CallsAdvance, TokensKept

LEMMA IssuedStays ==
    ASSUME IInv, RowsAdvance, NEW t \in Tokens, Issued(t)
    PROVE  /\ Issued(t)' /\ Root(t)' = Root(t) /\ Root(t) \in Logins /\ Root(t) \in Tokens
           /\ Issued(Root(t)) /\ Root(Root(t)) = Root(t)
           /\ call[Root(t)].pc = "done" /\ Root(t) \in Calls
<1>1. Issued(t)' /\ Root(t)' = Root(t)
  BY DEF RowsAdvance, Issued, Root
<1>2. Root(t) \in Logins /\ Issued(Root(t))
  BY Parts DEF IInv, FamiliesKnown, Issued, Root
<1>3. Knows(Root(t))
  BY <1>2, Kinds DEF IInv
<1>. QED  BY <1>1, <1>2, <1>3, Kinds DEF Knows

\* Whose line a refresh is about to continue.
LEMMA PresentedIssued ==
    ASSUME IInv, NEW c \in Refreshes \cup Logouts, call[c].pc # "waiting"
    PROVE  call[c].token \in Tokens /\ Issued(call[c].token)
BY Kinds, Parts DEF IInv, Knows

\* A call moves: what the others know stands.
LEMMA KnowsFrame ==
    ASSUME IInv, RowsAdvance, CallsAdvance, NEW c \in Calls, Knows(c)',
           \A d \in Calls \ {c} : /\ call'[d] = call[d]
                                  /\ d \in Tokens => (Issued(d)' <=> Issued(d))
    PROVE  \A d \in Calls : Knows(d)'
<1> SUFFICES ASSUME NEW d \in Calls, d # c PROVE Knows(d)'
  OBVIOUS
<1>1. Knows(d) /\ call'[d] = call[d] /\ (d \in Tokens => (Issued(d)' <=> Issued(d)))
  BY DEF IInv
<1>2. d \in Tokens /\ Issued(d) => Root(d)' = Root(d)
  BY IssuedStays
<1>3. d \in Refreshes \cup Logouts /\ call[d].token # "none" =>
        /\ call[d].token \in Tokens /\ Issued(call[d].token)
        /\ rows'[call[d].token].family = rows[call[d].token].family
        /\ rows[call[d].token].replacedByJti # "none" =>
             rows'[call[d].token].replacedByJti # "none"
  BY <1>1, Kinds, Parts, IssuedStays DEF IInv, Knows, RowsAdvance
<1>4. d \in Refreshes \cup Logouts =>
        /\ call'[d].pc = "waiting" <=> call'[d].token = "none"
        /\ call'[d].token # "none" => rows'[call'[d].token].family # "none"
  BY <1>1, <1>3 DEF Knows, Issued
<1>5. d \in Refreshes =>
        /\ call'[d].pc = "rotated" => Issued(d)'
        /\ Issued(d)' =>
             /\ call'[d].pc \in {"rotated", "done"} /\ Root(d)' = rows'[call'[d].token].family
             /\ call'[d].pc = "done" => rows'[call'[d].token].replacedByJti # "none"
  BY <1>1, <1>2, <1>3, Kinds DEF Knows, Root
<1>6. d \in Logins => (Issued(d)' <=> call'[d].pc = "done") /\ (Issued(d)' => Root(d)' = d)
  BY <1>1, <1>2, Kinds DEF Knows
<1>. QED  BY <1>1, <1>4, <1>5, <1>6 DEF Knows, Root, Issued

LEMMA FamiliesFrame ==
    ASSUME IInv, RowsAdvance, now <= now', now' \in Nat, \A d \in Calls : Knows(d)',
           \A f \in Logins : "none" \notin reused'[f] => Issued(f)
    PROVE  FamiliesKnown'
<1>1. ASSUME NEW t \in Tokens, Issued(t)' PROVE rows'[rows'[t].family].family # "none"
                                                /\ rows'[t].expiresAt <= now' + Ttl
  <2>1. CASE Issued(t)
    <3>1. rows'[t].family = rows[t].family /\ rows'[t].expiresAt = rows[t].expiresAt
      BY <2>1 DEF RowsAdvance
    <3>2. Root(t) \in Tokens /\ Issued(Root(t)) /\ rows[t].expiresAt <= now + Ttl
      BY <2>1, IssuedStays DEF IInv, FamiliesKnown
    <3>3. rows'[rows[t].family].family # "none"
      BY <3>2 DEF Root, Issued, RowsAdvance
    <3>4. rows[t].expiresAt \in Nat /\ Ttl \in Nat /\ now \in Nat
      BY Parts DEF IInv
    <3>. QED  BY <3>1, <3>2, <3>3, <3>4 DEF Issued
  <2>2. CASE ~Issued(t)
    <3>1. /\ call[t].pc = "insert" /\ rows'[t].expiresAt = now + Ttl
          /\ rows'[t].family = IF t \in Logins THEN t ELSE Root(call[t].token)
      BY <1>1, <2>2 DEF RowsAdvance
    <3>2. rows'[t].expiresAt <= now' + Ttl
      BY <3>1, Parts DEF IInv
    <3>3. CASE t \in Logins
      BY <1>1, <3>1, <3>2, <3>3 DEF Issued
    <3>4. CASE t \notin Logins
      <4>1. t \in Refreshes /\ t \notin Logins
        BY <3>4, Kinds
      <4>2. call[t].token \in Tokens /\ Issued(call[t].token)
        BY <3>1, <4>1, PresentedIssued
      <4>3. Root(call[t].token) \in Tokens /\ Issued(Root(call[t].token))
        BY <4>2, IssuedStays
      <4>4. rows'[rows'[t].family].family # "none"
        BY <3>1, <4>1, <4>3 DEF RowsAdvance, Issued
      <4>. QED  BY <3>2, <4>4
    <3>. QED  BY <3>3, <3>4
  <2>. QED  BY <2>1, <2>2
<1>2. ASSUME NEW f \in Logins, "none" \notin reused'[f] PROVE Issued(f)'
  BY <1>2, Kinds, IssuedStays
<1>. QED  BY <1>1, <1>2 DEF FamiliesKnown, Root, Issued

\* A current token was one before, or is inserted in family f.
LEMMA CurrentFrom ==
    ASSUME IInv, RowsAdvance, CallsAdvance, NEW t \in Tokens, NEW f,
           Current(t)', rows'[t].family = f
    PROVE  \/ Current(t) /\ Root(t) = f
           \/ t \in Logins /\ f = t /\ ~Issued(t) /\ Opening(t)
           \/ t \in Refreshes /\ Minting(t) /\ Root(call[t].token) = f
<1>1. CASE Issued(t)
  BY <1>1 DEF RowsAdvance, Current, Root
<1>2. CASE ~Issued(t)
  <2>1. call[t].pc = "insert" /\ f = IF t \in Logins THEN t ELSE Root(call[t].token)
    BY <1>2 DEF RowsAdvance, Current
  <2>. QED  BY <1>2, <2>1, Kinds DEF Opening, Minting
<1>. QED  BY <1>1, <1>2

\* A refresh that is minting was so before, or has read a token that is current.
LEMMA MintingFrom ==
    ASSUME IInv, RowsAdvance, CallsAdvance, NEW r \in Refreshes, NEW f,
           Minting(r)', rows'[call'[r].token].family = f
    PROVE  \/ Minting(r) /\ Root(call[r].token) = f
           \/ \E p \in Tokens : Current(p) /\ Root(p) = f /\ call'[r].token = p
<1>1. CASE Minting(r)
  <2>1. call[r].pc # "waiting"
    BY <1>1 DEF Minting
  <2>2. call'[r].token = call[r].token /\ call[r].token \in Tokens /\ Issued(call[r].token)
    BY <2>1, PresentedIssued, Kinds DEF CallsAdvance
  <2>. QED  BY <1>1, <2>2 DEF RowsAdvance, Root
<1>2. CASE ~Minting(r)
  <2>1. PICK p \in Tokens : call'[r].token = p /\ Current(p)
    BY <1>2 DEF CallsAdvance
  <2>. QED  BY <2>1 DEF RowsAdvance, Root, Current
<1>. QED  BY <1>1, <1>2

\* What one token's line meets, the lines it is part of meet.
LEMMA ReuseMetStays ==
    ASSUME TokensKept, NEW t \in Tokens, NEW f, reused'[f] = reused[f], ReuseMet(t, f)
    PROVE  /\ ReuseMet(t, f)'
           /\ \A r \in Refreshes : call'[r].token = t => ReuseMet(r, f)'
<1>1. Line(t) \subseteq Line(t)'
  BY LineGrows
<1>2. ASSUME NEW r \in Refreshes, call'[r].token = t PROVE Line(t) \subseteq Line(r)'
  BY <1>2, LineOfNext
<1>. QED  BY <1>1, <1>2 DEF ReuseMet

LEMMA ReuseFrame ==
    ASSUME IInv, RowsAdvance, CallsAdvance, reused' = reused
    PROVE  ReusePart'
<1>1. TokensKept
  BY TokensAreKept
<1>2. ASSUME NEW t \in Tokens, NEW f, Current(t)', rows'[t].family = f PROVE ReuseMet(t, f)'
  <2>1. CASE Current(t) /\ Root(t) = f
    BY <1>1, <2>1, ReuseMetStays DEF IInv, ReusePart
  <2>2. CASE t \in Logins /\ f = t /\ ~Issued(t)
    BY <2>2 DEF IInv, FamiliesKnown, ReuseMet
  <2>3. CASE t \in Refreshes /\ Minting(t) /\ Root(call[t].token) = f
    BY <1>1, <2>3, ReuseMetStays DEF IInv, ReusePart
  <2>. QED  BY <1>2, <2>1, <2>2, <2>3, CurrentFrom
<1>3. ASSUME NEW r \in Refreshes, NEW f, Minting(r)', rows'[call'[r].token].family = f
      PROVE  ReuseMet(r, f)'
  <2>1. CASE Minting(r) /\ Root(call[r].token) = f
    BY <1>1, <2>1, ReuseMetStays, Kinds DEF IInv, ReusePart
  <2>2. ASSUME NEW p \in Tokens, Current(p), Root(p) = f, call'[r].token = p
        PROVE  ReuseMet(r, f)'
    BY <1>1, <2>2, ReuseMetStays DEF IInv, ReusePart
  <2>. QED  BY <1>3, <2>1, <2>2, MintingFrom
<1>. QED  BY <1>2, <1>3 DEF ReusePart, Root

\* Excuses stand.
LEMMA ExcusedStays ==
    ASSUME IInv, CallsAdvance, cut' = cut, NEW w, Excused(w)
    PROVE  Excused(w)'
BY Kinds DEF IInv, ResetPart, CallsAdvance, Excused

LEMMA ResetMetStays ==
    ASSUME IInv, CallsAdvance, cut' = cut, NEW t \in Tokens, NEW f,
           ResetMet(t, f), call'[f].word = call[f].word
    PROVE  /\ ResetMet(t, f)'
           /\ \A r \in Refreshes : call'[r].token = t => ResetMet(r, f)'
<1>1. Line(t) \subseteq Line(t)'
  BY TokensAreKept, LineGrows
<1>2. ASSUME NEW r \in Refreshes, call'[r].token = t PROVE Line(t) \subseteq Line(r)'
  BY <1>2, TokensAreKept, LineOfNext
<1> DEFINE w == call[f].word
<1>3. Excused(call[f].word) => \E l \in cut'.calls \cap Logins : call'[l].word = call'[f].word
  <2> SUFFICES ASSUME NEW x, x = call[f].word, Excused(x)
               PROVE  \E l \in cut'.calls \cap Logins : call'[l].word = x
    OBVIOUS
  <2>. QED  BY ExcusedStays DEF Excused
<1>. QED  BY <1>1, <1>2, <1>3 DEF ResetMet, Excused

LEMMA ResetFrame ==
    ASSUME IInv, RowsAdvance, CallsAdvance, PasswordAdvances, cut' = cut
    PROVE  ResetPart'
<1>1. ASSUME NEW t \in Tokens, NEW f, Current(t)', rows'[t].family = f PROVE ResetMet(t, f)'
  <2>1. CASE Current(t) /\ Root(t) = f
    <3>1. call'[f].word = call[f].word
      BY <2>1, IssuedStays DEF Current, CallsAdvance
    <3>. QED  BY <2>1, <3>1, ResetMetStays DEF IInv, ResetPart
  <2>2. CASE t \in Logins /\ f = t /\ Opening(t)
    <3>1. call'[t].word = call[t].word
      BY <2>2, Kinds DEF Opening, CallsAdvance
    <3>2. call[t].word \in cut.words => Excused(call[t].word)
      BY <2>2 DEF IInv, ResetPart
    <3>3. ResetMet(t, f)
      BY <2>2, <3>2 DEF ResetMet
    <3>. QED  BY <2>2, <3>1, <3>3, ResetMetStays
  <2>3. CASE t \in Refreshes /\ Minting(t) /\ Root(call[t].token) = f
    <3>1. call[t].token \in Tokens /\ Issued(call[t].token)
      BY <2>3, PresentedIssued DEF Minting
    <3>2. call'[f].word = call[f].word
      BY <2>3, <3>1, IssuedStays DEF CallsAdvance
    <3>. QED  BY <2>3, <3>2, ResetMetStays DEF IInv, ResetPart
  <2>. QED  BY <1>1, <2>1, <2>2, <2>3, CurrentFrom
<1>2. ASSUME NEW r \in Refreshes, NEW f, Minting(r)', rows'[call'[r].token].family = f
      PROVE  ResetMet(r, f)'
  <2>1. CASE Minting(r) /\ Root(call[r].token) = f
    <3>1. call[r].token \in Tokens /\ Issued(call[r].token)
      BY <2>1, PresentedIssued DEF Minting
    <3>2. call'[f].word = call[f].word
      BY <2>1, <3>1, IssuedStays DEF CallsAdvance
    <3>. QED  BY <2>1, <3>2, ResetMetStays, Kinds DEF IInv, ResetPart
  <2>2. ASSUME NEW p \in Tokens, Current(p), Root(p) = f, call'[r].token = p
        PROVE  ResetMet(r, f)'
    <3>1. call'[f].word = call[f].word
      BY <2>2, IssuedStays DEF Current, CallsAdvance
    <3>. QED  BY <2>2, <3>1, ResetMetStays DEF IInv, ResetPart
  <2>. QED  BY <1>2, <2>1, <2>2, MintingFrom
<1>3. ASSUME NEW l \in Logins, NEW w \in cut.words, Opening(l)', call'[l].word = w
      PROVE  Excused(w)'
  <2>1. CASE Opening(l)
    BY <1>3, <2>1, ExcusedStays, Kinds DEF IInv, ResetPart, Opening, CallsAdvance
  <2>2. CASE ~Opening(l)
    BY <1>3, <2>2, ExcusedStays DEF IInv, ResetPart, CallsAdvance
  <2>. QED  BY <2>1, <2>2
<1>4. ASSUME NEW w \in cut.words, password'.word = w PROVE Excused(w)'
  <2>1. CASE password'.word = password.word
    BY <1>4, <2>1, ExcusedStays DEF IInv, ResetPart
  <2>2. ASSUME NEW l \in Logins, Opening(l), password'.word = call[l].word PROVE Excused(w)'
    BY <1>4, <2>2, ExcusedStays DEF IInv, ResetPart
  <2>3. ASSUME NEW s \in Resets, call[s].pc = "hashed", password'.word = s PROVE FALSE
    BY <1>4, <2>3, Kinds DEF IInv, ResetPart
  <2>. QED  BY <2>1, <2>2, <2>3 DEF PasswordAdvances
<1>5. \A w \in cut.words : w # "first" =>
        w \in Resets /\ call'[w].pc \in {"changed", "spent", "done"}
  BY DEF IInv, ResetPart, CallsAdvance
<1>6. \A c \in cut.calls : call'[c].pc # "waiting"
  BY DEF IInv, ResetPart, CallsAdvance, TypeOK
<1>. QED  BY <1>1, <1>2, <1>3, <1>4, <1>5, <1>6 DEF ResetPart, Root

\* Forks stand: lines and children only grow.
LEMMA JoinedStays ==
    ASSUME IInv, RowsAdvance, CallsAdvance, NEW t \in Tokens, NEW u \in Tokens, Joined(t, u)
    PROVE  Joined(t, u)'
<1>1. TokensKept /\ Line(t) \subseteq Line(t)' /\ Line(u) \subseteq Line(u)'
  BY TokensAreKept, LineGrows
<1>2. ASSUME NEW p \in Line(t) PROVE Children(p) \subseteq Children(p)'
  BY <1>1, LineHas, Kinds DEF Children, TokensKept, RowsAdvance, Issued
<1>. QED  BY <1>1, <1>2 DEF Joined

\* A new token is joined with all of its family.
LEMMA NewJoined ==
    ASSUME IInv, RowsAdvance, CallsAdvance, NEW c \in Tokens, ~Issued(c), Issued(c)',
           NEW u \in Tokens, Issued(u), Root(u) = rows'[c].family
    PROVE  Joined(c, u)'
<1>1. rows'[c].family = IF c \in Logins THEN c ELSE Root(call[c].token)
  BY DEF RowsAdvance
<1>2. c \in Refreshes /\ c \notin Logins
  BY <1>1, IssuedStays, Kinds
<1>3. call[c].pc = "insert"
  BY DEF RowsAdvance
<1>4. PICK q \in Tokens : /\ q = call[c].token /\ Issued(q) /\ call'[c].token = q
                          /\ Root(u) = Root(q) /\ TokensKept
  BY <1>1, <1>2, <1>3, PresentedIssued, Kinds, TokensAreKept DEF CallsAdvance
<1>5. Line(q) \subseteq Line(c)' /\ q \in Line(c)' /\ Line(u) \subseteq Line(u)'
  BY <1>2, <1>4, LineOfNext, LineHas, LineGrows
<1>6. CASE u = q
  <2>1. u \in Line(c)'
    BY <1>5, <1>6
  <2>. QED  BY <2>1 DEF Joined
<1>7. CASE u # q /\ q \in Line(u)
  <2>1. PICK d \in Line(u) \cap Refreshes : call[d].token = q
    BY <1>7, LineChild DEF IInv
  <2>2. Issued(d) /\ d \in Tokens
    BY <2>1, LineIssued, LineHas
  <2>3. d # c /\ q \in Line(u)' /\ q \in Line(c)'
    BY <1>5, <1>7, <2>2
  <2>4. rows'[d].family # "none" /\ call'[d].token = q
    BY <1>4, <2>1, <2>2, Kinds DEF RowsAdvance, TokensKept, Issued
  <2>5. d \in Children(q)' /\ c \in Children(q)'
    BY <1>2, <1>4, <2>1, <2>4 DEF Children, Issued
  <2>. QED  BY <2>3, <2>5 DEF Joined
<1>8. CASE u \in Line(q)
  <2>1. u \in Line(c)'
    BY <1>5, <1>8
  <2>. QED  BY <2>1 DEF Joined
<1>9. ASSUME NEW p \in Line(q) \cap Line(u), \E a, b \in Children(p) : a # b
      PROVE  Joined(c, u)'
  <2>1. p \in Line(c)' /\ p \in Line(u)'
    BY <1>5, <1>9
  <2>2. Children(p) \subseteq Children(p)'
    BY <1>4, <1>9, LineHas, Kinds DEF Children, TokensKept, RowsAdvance, Issued
  <2>. QED  BY <1>9, <2>1, <2>2 DEF Joined
<1>10. u = q \/ Joined(u, q)
  BY <1>4 DEF IInv, ForkPart
<1>. QED  BY <1>6, <1>7, <1>8, <1>9, <1>10 DEF Joined

LEMMA ForkFrame ==
    ASSUME IInv, RowsAdvance, CallsAdvance, NEW c,
           \A t \in Tokens \ {c} : Issued(t)' => Issued(t)
    PROVE  ForkPart'
<1> SUFFICES ASSUME NEW t \in Tokens, NEW u \in Tokens, Issued(t)', Issued(u)',
                    rows'[t].family = rows'[u].family, t # u
             PROVE  Joined(t, u)'
  BY DEF ForkPart, Root
<1>1. CASE Issued(t) /\ Issued(u)
  <2>1. Root(t) = Root(u)
    BY <1>1 DEF RowsAdvance, Root
  <2>2. Joined(t, u)
    BY <1>1, <2>1 DEF IInv, ForkPart
  <2>. QED  BY <2>2, JoinedStays
<1>2. CASE ~Issued(t)
  <2>1. Issued(u) /\ Root(u) = rows'[t].family
    BY <1>2 DEF RowsAdvance, Root
  <2>. QED  BY <1>2, <2>1, NewJoined
<1>3. CASE ~Issued(u)
  <2>1. Issued(t) /\ Root(t) = rows'[u].family
    BY <1>3 DEF RowsAdvance, Root
  <2>2. Joined(u, t)'
    BY <1>3, <2>1, NewJoined
  <2>. QED  BY <2>2 DEF Joined
<1>. QED  BY <1>1, <1>2, <1>3

\* What happens to a session that is only just started.
LEMMA NewSessionQuiet ==
    ASSUME IInv, RowsAdvance, CallsAdvance, \A d \in Calls : Knows(d)',
           NEW l \in Logins, ~Issued(l), Issued(l)',
           \A c \in Refreshes \cup Logouts :
             call'[c].token # "none" /\ rows'[call'[c].token].family = l => call'[c].token = l
    PROVE  /\ \A t \in Tokens : rows'[t].family = l => t = l
           /\ Unrevoked(l)'
           /\ \A c \in Refreshes \cup Logouts :
                ~(call'[c].token # "none" /\ rows'[call'[c].token].family = l)
<1>1. ASSUME NEW t \in Tokens, rows'[t].family = l, t # l PROVE FALSE
  <2>1. ~Issued(t)
    BY <1>1, IssuedStays DEF RowsAdvance, Root
  <2>2. call[t].pc = "insert" /\ t \in Refreshes /\ l = Root(call[t].token)
    BY <1>1, <2>1, Kinds DEF RowsAdvance, Issued
  <2>3. call[t].token \in Tokens /\ Issued(call[t].token)
    BY <2>2, PresentedIssued
  <2>. QED  BY <2>2, <2>3, IssuedStays
<1>2. Unrevoked(l)'
  BY Kinds DEF RowsAdvance
<1>3. ASSUME NEW c \in Refreshes \cup Logouts, call'[c].token = l PROVE FALSE
  <2>1. CASE call[c].pc = "waiting"
    BY <1>3, <2>1, Kinds DEF CallsAdvance
  <2>2. CASE call[c].pc # "waiting"
    BY <1>3, <2>2, PresentedIssued, Kinds DEF CallsAdvance
  <2>. QED  BY <2>1, <2>2
<1>. QED  BY <1>1, <1>2, <1>3

\* A session that is quiet after a step was so before it.
LEMMA QuietBefore ==
    ASSUME IInv, RowsAdvance, CallsAdvance, now' \in Nat, now <= now',
           NEW l \in Logins, Issued(l), Quiet(l)'
    PROVE  /\ Quiet(l) /\ now <= rows[l].expiresAt
           /\ rows'[l].expiresAt = rows[l].expiresAt
           /\ \A c \in Presented(l) : call[c].token = l /\ call'[c].token = l
<1>1. call[l].pc = "done" /\ rows'[l].expiresAt = rows[l].expiresAt
  BY Kinds DEF IInv, Knows, RowsAdvance
<1>2. now <= Grace /\ now <= rows[l].expiresAt
  BY <1>1, Parts, Kinds DEF IInv, Quiet
<1>3. ASSUME NEW c \in Presented(l)
      PROVE  call[c].token = l /\ call'[c].token = l /\ c \in Refreshes
  <2>1. /\ c \in Refreshes \cup Logouts /\ call[c].pc # "waiting"
        /\ call[c].token \in Tokens /\ Root(call[c].token) = l
    BY Kinds, Parts DEF IInv, Knows, Presented
  <2>2. Issued(call[c].token) /\ call'[c].token = call[c].token
    BY <2>1, PresentedIssued, Kinds DEF CallsAdvance
  <2>3. rows'[call'[c].token].family = l /\ call'[c].token # "none"
    BY <2>1, <2>2, Kinds DEF RowsAdvance, Root
  <2>4. c \in Presented(l)'
    BY <2>1, <2>3 DEF Presented, Root
  <2>. QED  BY <2>2, <2>4 DEF Quiet
<1>4. \A s \in Resets : call[s].pc # "done"
  BY Kinds DEF Quiet, CallsAdvance
<1>. QED  BY <1>1, <1>2, <1>3, <1>4 DEF Quiet

\* The rows of a quiet session are written by rotations of its first token only.
LEMMA QuietWrites ==
    ASSUME IInv, RowsAdvance, CallsAdvance, WritesAreCalled, now' \in Nat, now <= now',
           NEW l \in Logins, Issued(l), Quiet(l)', NEW t \in Tokens, Root(t) = l, Issued(t),
           rows'[t] # rows[t]
    PROVE  \E r \in Refreshes : /\ call[r].pc = "rotated" /\ call[r].token = t /\ t = l
                                /\ rows'[t].replacedByJti = r /\ rows'[t].revokedAt # Never
<1>1. /\ Quiet(l) /\ \A c \in Presented(l) : call[c].token = l /\ call'[c].token = l
      /\ FamilyQuiet(l)
  BY QuietBefore DEF IInv, DuplicatePart
<1>2. ASSUME NEW o \in Logouts, call'[o].token = t PROVE FALSE
  <2>1. rows'[t].family = l
    BY DEF RowsAdvance, Root
  <2>2. o \in Presented(l)'
    BY <1>2, <2>1, Kinds DEF Presented, Root
  <2>. QED  BY <2>2, Kinds DEF Quiet
<1>3. ASSUME NEW s \in Resets, call'[s].pc = "done" PROVE FALSE
  BY <1>3 DEF Quiet
<1>4. ASSUME NEW r \in Refreshes, call[r].pc = "reuse", Root(call[r].token) = Root(t) PROVE FALSE
  BY <1>1, <1>4, PresentedIssued, Kinds DEF FamilyQuiet, Presented
<1>5. ASSUME NEW r \in Refreshes, call[r].pc = "rotated", call[r].token = t PROVE t = l
  BY <1>1, <1>5, PresentedIssued, Kinds DEF Presented
<1>. QED  BY <1>2, <1>3, <1>4, <1>5 DEF WritesAreCalled

LEMMA DuplicateFrame ==
    ASSUME IInv, RowsAdvance, CallsAdvance, WritesAreCalled, now' \in Nat, now <= now',
           \A d \in Calls : Knows(d)'
    PROVE  DuplicatePart'
<1> SUFFICES ASSUME NEW l \in Logins, Quiet(l)' PROVE FamilyQuiet(l)'
  BY DEF DuplicatePart
<1>1. Issued(l)' /\ rows'[l].family = l /\ l \in Tokens /\ l \in Calls
  BY Kinds DEF Knows, Quiet, Root
<1>2. \A c \in Refreshes \cup Logouts :
        call'[c].token # "none" /\ rows'[call'[c].token].family = l =>
          call'[c].token = l /\ c \in Refreshes
  BY DEF Quiet, Presented, Root
<1>3. CASE ~Issued(l)
  <2>1. /\ \A t \in Tokens : rows'[t].family = l => t = l
        /\ Unrevoked(l)'
        /\ \A c \in Refreshes \cup Logouts :
             ~(call'[c].token # "none" /\ rows'[call'[c].token].family = l)
    BY <1>1, <1>2, <1>3, NewSessionQuiet
  <2>. QED  BY <2>1 DEF FamilyQuiet, InFamily, Presented, Root
<1>4. CASE Issued(l)
  <2>1. /\ Quiet(l) /\ now <= rows[l].expiresAt /\ rows'[l].expiresAt = rows[l].expiresAt
        /\ \A c \in Presented(l) : call[c].token = l /\ call'[c].token = l
    BY <1>4, QuietBefore
  <2>2. FamilyQuiet(l) /\ Root(l) = l
    BY <1>1, <1>4, <2>1 DEF IInv, DuplicatePart, RowsAdvance, Root
  <2>3. \A t \in InFamily(l) : Issued(t) /\ Root(t) = l /\ rows'[t].family = l
    BY Kinds DEF InFamily, Issued, Root, RowsAdvance
  <2>4. ASSUME NEW t \in Tokens, t # l, rows'[t].family = l
        PROVE  Unrevoked(t)' /\ rows'[t].expiresAt >= rows'[l].expiresAt
    <3>1. CASE Issued(t)
      <4>1. t \in InFamily(l) \ {l} /\ Root(t) = l
        BY <2>4, <3>1 DEF InFamily, RowsAdvance, Root
      <4>2. rows'[t] = rows[t]
        BY <1>4, <2>4, <3>1, <4>1, QuietWrites
      <4>. QED  BY <2>1, <2>2, <4>1, <4>2 DEF FamilyQuiet, Unrevoked
    <3>2. CASE ~Issued(t)
      <4>1. Unrevoked(t)' /\ rows'[t].expiresAt = now + Ttl
        BY <2>4, <3>2, Kinds DEF RowsAdvance, Issued
      <4>2. rows[l].expiresAt <= now + Ttl
        BY <1>1, <1>4 DEF IInv, FamiliesKnown
      <4>3. rows[l].expiresAt \in Nat /\ now + Ttl \in Nat
        BY <1>1, Parts DEF IInv
      <4>. QED  BY <2>1, <4>1, <4>2, <4>3
    <3>. QED  BY <3>1, <3>2
  <2>5. \/ Unrevoked(l)'
        \/ /\ rows'[l].replacedByJti \in Tokens \ {l} /\ rows'[l].revokedAt # Never
           /\ rows'[rows'[l].replacedByJti].family = l
    <3>1. CASE rows'[l] = rows[l]
      BY <2>2, <2>3, <3>1 DEF FamilyQuiet, Unrevoked, InFamily
    <3>2. CASE rows'[l] # rows[l]
      <4>1. PICK r \in Refreshes : /\ call[r].pc = "rotated" /\ call[r].token = l
                                   /\ rows'[l].replacedByJti = r /\ rows'[l].revokedAt # Never
        BY <1>1, <1>4, <2>2, <3>2, QuietWrites
      <4>2. Issued(r) /\ Root(r) = l /\ r \in Tokens /\ r # l
        BY <2>2, <4>1, Kinds DEF IInv, Knows
      <4>. QED  BY <4>1, <4>2 DEF RowsAdvance, Root
    <3>. QED  BY <3>1, <3>2
  <2>6. ASSUME NEW c \in Refreshes, call'[c].token = l
        PROVE  /\ call'[c].pc # "reuse"
               /\ call'[c].pc = "retry" => /\ call'[c].next \in Tokens \ {l}
                                           /\ rows'[call'[c].next].family = l
    <3>1. call[c].pc # "waiting" => c \in Presented(l)
      BY <2>2, <2>6, PresentedIssued, Kinds DEF CallsAdvance, Presented
    <3>2. Verdict(rows[l]) # "reuse"
      <4>1. CASE Unrevoked(l)
        BY <4>1 DEF Unrevoked, Verdict
      <4>2. CASE rows[l].replacedByJti # "none" /\ rows[l].revokedAt # Never
        <5>1. rows[l].revokedAt \in Nat /\ now \in Nat /\ Grace \in Nat /\ now <= Grace
          BY <1>1, <2>1, <4>2, Parts DEF IInv, Quiet
        <5>2. WithinGrace(rows[l])
          BY <5>1, <4>2 DEF WithinGrace
        <5>. QED  BY <4>2, <5>2 DEF Verdict
      <4>. QED  BY <2>2, <4>1, <4>2, Kinds DEF FamilyQuiet, InFamily
    <3>3. Verdict(rows[l]) = "retry" => rows[l].replacedByJti \in InFamily(l) \ {l}
      BY <2>2 DEF FamilyQuiet, Verdict, Unrevoked
    <3>4. ASSUME NEW u \in InFamily(l) \ {l} PROVE Usable(rows[u])
      <4>1. Unrevoked(u) /\ rows[u].expiresAt >= rows[l].expiresAt /\ now <= rows[l].expiresAt
        BY <2>1, <2>2 DEF FamilyQuiet
      <4>2. rows[u].expiresAt \in Nat /\ rows[l].expiresAt \in Nat /\ now \in Nat
        BY <1>1, Parts DEF IInv, InFamily
      <4>3. ~Expired(rows[u])
        BY <4>1, <4>2 DEF Expired
      <4>. QED  BY <4>1, <4>3 DEF Usable, Unrevoked
    <3>5. call[c].pc = "retry" => call[c].next \in InFamily(l) \ {l}
      BY <3>1, <2>2 DEF FamilyQuiet
    <3>6. call[c].pc # "reuse"
      BY <3>1, <2>2 DEF FamilyQuiet
    <3>7. call'[c].pc # "reuse"
      BY <2>6, <3>2, <3>4, <3>5, <3>6 DEF CallsAdvance
    <3>8. call'[c].pc = "retry" => call'[c].next \in InFamily(l) \ {l}
      BY <2>6, <3>3, <3>5 DEF CallsAdvance
    <3>. QED  BY <2>3, <3>7, <3>8 DEF InFamily
  <2>. QED  BY <1>2, <2>4, <2>5, <2>6 DEF FamilyQuiet, InFamily, Presented, Root
<1>. QED  BY <1>3, <1>4

-----------------------------------------------------------------------------
(* What a step of one call has to show *)

\* The share of call c, which becomes v, in CallsAdvance.
Moves(c, v) ==
    /\ v.pc # "waiting" /\ call[c].pc # "done"
    /\ call[c].pc # "waiting" => v.word = call[c].word /\ v.token = call[c].token
    /\ c \in Refreshes \cup Logouts => v.token \in Tokens /\ Issued(v.token)
    /\ c \in Refreshes =>
         /\ v.pc \in {"account", "insert"} => Minting(c) \/ Current(v.token)
         /\ v.pc = "reuse" => \/ call[c].pc = "waiting" /\ Verdict(rows[v.token]) = "reuse"
                              \/ call[c].pc = "retry" /\ ~Usable(rows[call[c].next])
         /\ v.pc = "retry" => /\ call[c].pc = "waiting" /\ Verdict(rows[v.token]) = "retry"
                              /\ v.next = rows[v.token].replacedByJti
    /\ c \in Logins /\ v.pc \in {"rehash", "insert"} => Opening(c) \/ v.word = password.word
    /\ c \in Resets /\ call[c].pc \in {"changed", "spent"} => v.pc \in {"changed", "spent", "done"}

LEMMA MovesAdvance ==
    ASSUME IInv, NEW c \in Calls, NEW v \in Call, call' = [call EXCEPT ![c] = v], Moves(c, v)
    PROVE  CallsAdvance
<1>1. call'[c] = v /\ \A d \in Calls \ {c} : call'[d] = call[d]
  BY OneCall DEF IInv
<1>2. \A d \in Calls : call[d].pc # "waiting" =>
         /\ call'[d].pc # "waiting" /\ call'[d].word = call[d].word
         /\ call'[d].token = call[d].token
  BY <1>1 DEF Moves
<1>3. \A d \in Calls : call[d].pc = "done" => call'[d].pc = "done"
  BY <1>1 DEF Moves
<1>4. \A d \in Refreshes \cup Logouts :
         call[d].pc = "waiting" /\ call'[d].token # "none" =>
           \E p \in Tokens : call'[d].token = p /\ Issued(p)
  BY <1>1, Kinds DEF IInv, Knows, Moves
<1>5. \A r \in Refreshes : Minting(r)' =>
         Minting(r) \/ \E p \in Tokens : call'[r].token = p /\ Current(p)
  BY <1>1, Kinds DEF Moves, Minting
<1>6. \A l \in Logins : Opening(l)' => Opening(l) \/ call'[l].word = password.word
  BY <1>1, Kinds DEF Moves, Opening
<1>7. \A s \in Resets : call[s].pc \in {"changed", "spent", "done"} =>
                           call'[s].pc \in {"changed", "spent", "done"}
  BY <1>1, Kinds DEF Moves
<1>8. \A r \in Refreshes :
         /\ call'[r].pc = "reuse" =>
              \/ call[r].pc = "reuse"
              \/ call[r].pc = "waiting" /\ Verdict(rows[call'[r].token]) = "reuse"
              \/ call[r].pc = "retry" /\ ~Usable(rows[call[r].next])
         /\ call'[r].pc = "retry" =>
              \/ call[r].pc = "retry" /\ call'[r].next = call[r].next
              \/ /\ call[r].pc = "waiting" /\ Verdict(rows[call'[r].token]) = "retry"
                 /\ call'[r].next = rows[call'[r].token].replacedByJti
  BY <1>1, Kinds DEF Moves
<1>. QED  BY <1>2, <1>3, <1>4, <1>5, <1>6, <1>7, <1>8 DEF CallsAdvance

\* What every step does.
StepIsSound == IInv' /\ RowsAdvance /\ WritesAreCalled

\* A step that knows what it did keeps the invariant.
LEMMA StepKeeps ==
    ASSUME IInv, TypeOK', RowsAdvance, CallsAdvance, WritesAreCalled, now <= now',
           NEW c, \A d \in Calls : Knows(d)',
           \A t \in Tokens \ {c} : Issued(t)' => Issued(t),
           \A f \in Logins : "none" \notin reused'[f] => Issued(f),
           reused' = reused \/ ReusePart',
           (cut' = cut /\ PasswordAdvances) \/ ResetPart'
    PROVE  StepIsSound
<1>1. now' \in Nat
  BY TimesAssumption DEF TypeOK
<1>2. FamiliesKnown'
  BY <1>1, FamiliesFrame
<1>3. ReusePart'
  BY ReuseFrame
<1>4. ResetPart'
  BY ResetFrame
<1>5. ForkPart'
  BY ForkFrame
<1>6. DuplicatePart'
  BY <1>1, DuplicateFrame
<1>. QED  BY <1>2, <1>3, <1>4, <1>5, <1>6 DEF IInv, StepIsSound

LEMMA RowsStay ==
    ASSUME rows' = rows
    PROVE  RowsAdvance /\ WritesAreCalled /\ \A t : Issued(t)' <=> Issued(t)
BY DEF RowsAdvance, WritesAreCalled, Issued, Unrevoked

\* A call that writes no row, short of the step that answers it.
LEMMA ReadingStep ==
    ASSUME IInv, NEW c \in Calls, NEW v \in Call, call' = [call EXCEPT ![c] = v], Moves(c, v),
           call[c].pc # "rotated", v.pc # "rotated", c \in Logins => v.pc # "done",
           password' \in [word: Words, outdated: BOOLEAN], PasswordAdvances,
           links' \in [Links -> {"unsent", "open", "used", "expired"}],
           UNCHANGED <<rows, disabled, now, reused, cut>>
    PROVE  StepIsSound
<1>1. call' \in [Calls -> Call] /\ call'[c] = v /\ \A d \in Calls \ {c} : call'[d] = call[d]
  BY OneCall DEF IInv
<1>2. TypeOK'
  BY <1>1 DEF IInv, TypeOK
<1>3. CallsAdvance /\ RowsAdvance /\ WritesAreCalled /\ \A t : Issued(t)' <=> Issued(t)
  BY MovesAdvance, RowsStay
<1>4. Knows(c)'
  <2>1. c \in Refreshes \cup Logouts => v.token # "none" /\ rows'[v.token].family # "none"
    BY Kinds DEF Moves, Issued
  <2>2. c \in Tokens => ~Issued(c)
    BY Kinds DEF IInv, Knows, Moves
  <2>. QED  BY <1>1, <1>3, <2>1, <2>2, Kinds DEF Knows, Moves, Issued, Root
<1>5. \A d \in Calls : Knows(d)'
  BY <1>1, <1>3, <1>4, KnowsFrame
<1>6. \A f \in Logins : "none" \notin reused'[f] => Issued(f)
  BY DEF IInv, FamiliesKnown
<1>7. now <= now'
  BY Parts DEF IInv
<1>. QED  BY <1>2, <1>3, <1>5, <1>6, <1>7, StepKeeps

\* A step of the surroundings.
LEMMA OutsideStep ==
    ASSUME IInv, TypeOK', now <= now', UNCHANGED <<rows, password, call, reused, cut>>
    PROVE  StepIsSound
<1>1. CallsAdvance
  BY Kinds, Parts DEF IInv, Knows, CallsAdvance, Minting, Opening
<1>2. RowsAdvance /\ WritesAreCalled /\ \A t : Issued(t)' <=> Issued(t)
  BY RowsStay
<1>3. \A d \in Calls : Knows(d)'
  BY DEF IInv, Knows, Issued, Root
<1>4. \A f \in Logins : "none" \notin reused'[f] => Issued(f)
  BY DEF IInv, FamiliesKnown
<1>5. PasswordAdvances
  BY DEF PasswordAdvances
<1>. QED  BY <1>1, <1>2, <1>3, <1>4, <1>5, StepKeeps

-----------------------------------------------------------------------------
(* The actions *)

LEMMA SamePassword == ASSUME password' = password PROVE PasswordAdvances
BY DEF PasswordAdvances

LEMMA ReadAccountKeeps == ASSUME IInv, NEW l \in Logins, ReadAccount(l) PROVE StepIsSound
<1>1. l \in Calls /\ call[l].pc = "waiting" /\ call[l] \in Call
  BY Kinds, Parts DEF IInv, ReadAccount, Arrives
<1>2. PICK word \in Words :
        IF word # password.word \/ disabled
        THEN Goto(l, "refused")
        ELSE call' = [call EXCEPT ![l].word = word,
                                  ![l].pc = IF password.outdated THEN "rehash" ELSE "insert"]
  BY DEF ReadAccount
<1>3. CASE word # password.word \/ disabled
  <2> DEFINE v == [call[l] EXCEPT !.pc = "refused"]
  <2>1. v \in Call /\ v.pc = "refused" /\ call' = [call EXCEPT ![l] = v]
    BY <1>1, <1>2, <1>3 DEF Call, Goto
  <2> HIDE DEF v
  <2>2. Moves(l, v)
    BY <1>1, <2>1, Kinds DEF Moves
  <2>. QED  BY <1>1, <2>1, <2>2, ReadingStep, SamePassword DEF ReadAccount, IInv, TypeOK
<1>4. CASE ~(word # password.word \/ disabled)
  <2> DEFINE v == [call[l] EXCEPT !.word = word,
                                  !.pc = IF password.outdated THEN "rehash" ELSE "insert"]
  <2>1. /\ v \in Call /\ v.pc \in {"rehash", "insert"} /\ v.word = password.word
        /\ call' = [call EXCEPT ![l] = v]
    BY <1>1, <1>2, <1>4 DEF Call
  <2> HIDE DEF v
  <2>2. Moves(l, v)
    BY <1>1, <2>1, Kinds DEF Moves
  <2>. QED  BY <1>1, <2>1, <2>2, ReadingStep, SamePassword DEF ReadAccount, IInv, TypeOK
<1>. QED  BY <1>3, <1>4

LEMMA RehashKeeps == ASSUME IInv, NEW l \in Logins, Rehash(l) PROVE StepIsSound
<1>1. l \in Calls /\ call[l].pc = "rehash" /\ call[l] \in Call /\ call[l].word \in Words
  BY Kinds, Parts DEF IInv, Rehash
<1> DEFINE v == [call[l] EXCEPT !.pc = "insert"]
<1>2. /\ v \in Call /\ v.pc = "insert" /\ v.word = call[l].word /\ v.token = call[l].token
      /\ call' = [call EXCEPT ![l] = v]
  BY <1>1 DEF Call, Rehash, Goto
<1> HIDE DEF v
<1>3. Moves(l, v)
  BY <1>1, <1>2, Kinds DEF Moves, Opening
<1>4. PasswordAdvances /\ password' \in [word: Words, outdated: BOOLEAN]
  BY <1>1 DEF PasswordAdvances, Opening, Rehash
<1>. QED  BY <1>1, <1>2, <1>3, <1>4, ReadingStep DEF Rehash, IInv, TypeOK

LEMMA ReadTokenKeeps == ASSUME IInv, NEW r \in Refreshes, ReadToken(r) PROVE StepIsSound
<1>1. r \in Calls /\ call[r].pc = "waiting" /\ call[r] \in Call
  BY Kinds, Parts DEF IInv, ReadToken, Arrives
<1>2. PICK t \in Tokens :
         /\ Issued(t) /\ call[t].pc = "done"
         /\ LET verdict == IF Expired(rows[t]) THEN "refused" ELSE Verdict(rows[t]) IN
            call' = [call EXCEPT ![r].token = t, ![r].pc = verdict,
                                 ![r].next = IF verdict = "retry"
                                             THEN rows[t].replacedByJti ELSE "none"]
  BY DEF ReadToken
<1> DEFINE w == IF Expired(rows[t]) THEN "refused" ELSE Verdict(rows[t])
<1>3. w \in {"refused", "account", "retry", "reuse"} /\ (w # "refused" => w = Verdict(rows[t]))
  BY DEF Verdict
<1>4. w = "account" => Current(t)
  BY <1>2 DEF Verdict, Current, Unrevoked
<1> HIDE DEF w
<1> DEFINE n == IF w = "retry" THEN rows[t].replacedByJti ELSE "none"
<1>5. n \in Tokens \cup {"none"} /\ (w = "retry" => n = rows[t].replacedByJti)
  BY Parts DEF IInv
<1>6. call' = [call EXCEPT ![r].token = t, ![r].pc = w, ![r].next = n]
  BY <1>2 DEF w
<1> HIDE DEF n
<1> DEFINE v == [call[r] EXCEPT !.token = t, !.pc = w, !.next = n]
<1>7. v \in Call /\ v.pc = w /\ v.token = t /\ v.next = n /\ call' = [call EXCEPT ![r] = v]
  BY <1>1, <1>3, <1>5, <1>6 DEF Call
<1> HIDE DEF v
<1>8. v.pc = "retry" => Verdict(rows[v.token]) = "retry" /\ v.next = rows[v.token].replacedByJti
  BY <1>3, <1>5, <1>7
<1>9. v.pc = "reuse" => Verdict(rows[v.token]) = "reuse"
  BY <1>3, <1>7
<1>10. /\ Issued(v.token) /\ (v.pc = "account" => Current(v.token))
       /\ v.pc \in {"refused", "account", "retry", "reuse"}
  BY <1>2, <1>3, <1>4, <1>7
<1>11. Moves(r, v)
  <2>1. r \notin Logins /\ r \notin Resets
    BY Kinds
  <2>. QED  BY ONLY r \in Refreshes, t \in Tokens, <1>1, <1>7, <1>8, <1>9, <1>10, <2>1 DEF Moves
<1>. QED  BY <1>1, <1>7, <1>10, <1>11, ReadingStep, SamePassword, Kinds
          DEF ReadToken, IInv, TypeOK

LEMMA ReadSuccessorKeeps == ASSUME IInv, NEW r \in Refreshes, ReadSuccessor(r) PROVE StepIsSound
<1>1. r \in Calls /\ call[r].pc = "retry" /\ call[r] \in Call
  BY Kinds, Parts DEF IInv, ReadSuccessor
<1> DEFINE v == [call[r] EXCEPT !.next = "none",
                                !.pc = IF Usable(rows[call[r].next]) THEN "retried" ELSE "reuse"]
<1>2. /\ v \in Call /\ v.pc \in {"retried", "reuse"} /\ v.token = call[r].token
      /\ v.word = call[r].word /\ (v.pc = "reuse" => ~Usable(rows[call[r].next]))
      /\ call' = [call EXCEPT ![r] = v]
  BY <1>1 DEF Call, ReadSuccessor
<1> HIDE DEF v
<1>3. Moves(r, v)
  BY <1>1, <1>2, Kinds, PresentedIssued DEF Moves
<1>. QED  BY <1>1, <1>2, <1>3, ReadingStep, SamePassword, Kinds DEF ReadSuccessor, IInv, TypeOK

\* The step of a refresh that reads whether the account is disabled.
LEMMA AccountRead ==
    ASSUME IInv, NEW r \in Refreshes, NEW pc, Goto(r, pc),
           \/ call[r].pc = "retried" /\ pc \in {"refused", "done"}
           \/ call[r].pc = "account" /\ pc \in {"refused", "insert"},
           UNCHANGED <<rows, links, password, disabled, now, reused, cut>>
    PROVE  StepIsSound
<1>1. r \in Calls /\ call[r] \in Call
  BY Kinds, Parts DEF IInv
<1> DEFINE v == [call[r] EXCEPT !.pc = pc]
<1>2. /\ v \in Call /\ v.pc = pc /\ v.token = call[r].token /\ v.word = call[r].word
      /\ call' = [call EXCEPT ![r] = v]
  BY <1>1 DEF Call, Goto
<1> HIDE DEF v
<1>3. Moves(r, v)
  BY <1>1, <1>2, Kinds, PresentedIssued DEF Moves, Minting
<1>. QED  BY <1>1, <1>2, <1>3, ReadingStep, SamePassword, Kinds DEF IInv, TypeOK

LEMMA AnswerRetryKeeps == ASSUME IInv, NEW r \in Refreshes, AnswerRetry(r) PROVE StepIsSound
BY AccountRead DEF AnswerRetry

LEMMA CheckAccountKeeps == ASSUME IInv, NEW r \in Refreshes, CheckAccount(r) PROVE StepIsSound
BY AccountRead DEF CheckAccount

\* The steps of a reset up to the revocation.
LEMMA ResetReads ==
    ASSUME IInv, NEW s \in Resets, ReadLink(s) \/ SetPassword(s) \/ MarkUsed(s)
    PROVE  StepIsSound
<1>1. s \in Calls /\ call[s] \in Call /\ s \notin Tokens \cup Logouts
  BY Kinds, Parts DEF IInv
<1>2. CASE ReadLink(s)
  <2>1. call[s].pc = "waiting"
    BY <1>2 DEF ReadLink, Arrives
  <2>2. PICK k \in Links :
         call' = [call EXCEPT ![s].link = k,
                              ![s].pc = IF links[k] = "open" THEN "hashed" ELSE "refused"]
    BY <1>2 DEF ReadLink
  <2> DEFINE v == [call[s] EXCEPT !.link = k,
                                  !.pc = IF links[k] = "open" THEN "hashed" ELSE "refused"]
  <2>3. v \in Call /\ v.pc \in {"hashed", "refused"} /\ call' = [call EXCEPT ![s] = v]
    BY <1>1, <2>2 DEF Call
  <2> HIDE DEF v
  <2>4. Moves(s, v)
    BY <1>1, <2>1, <2>3, Kinds DEF Moves
  <2>. QED  BY <1>1, <1>2, <2>1, <2>3, <2>4, ReadingStep, SamePassword, Kinds
            DEF ReadLink, IInv, TypeOK
<1>3. CASE SetPassword(s)
  <2> DEFINE v == [call[s] EXCEPT !.pc = "changed"]
  <2>1. /\ v \in Call /\ v.pc = "changed" /\ v.token = call[s].token /\ v.word = call[s].word
        /\ call[s].pc = "hashed" /\ call' = [call EXCEPT ![s] = v]
    BY <1>1, <1>3 DEF Call, SetPassword, Goto
  <2> HIDE DEF v
  <2>2. Moves(s, v)
    BY <1>1, <2>1, Kinds DEF Moves
  <2>3. PasswordAdvances /\ password' \in [word: Words, outdated: BOOLEAN]
    BY <1>3, <2>1, Kinds DEF PasswordAdvances, SetPassword
  <2>. QED  BY <1>1, <1>3, <2>1, <2>2, <2>3, ReadingStep, Kinds DEF SetPassword, IInv, TypeOK
<1>4. CASE MarkUsed(s)
  <2> DEFINE v == [call[s] EXCEPT !.pc = "spent"]
  <2>1. /\ v \in Call /\ v.pc = "spent" /\ v.token = call[s].token /\ v.word = call[s].word
        /\ call[s].pc = "changed" /\ call' = [call EXCEPT ![s] = v]
    BY <1>1, <1>4 DEF Call, MarkUsed, Goto
  <2> HIDE DEF v
  <2>2. Moves(s, v)
    BY <1>1, <2>1, Kinds DEF Moves
  <2>3. links' \in [Links -> {"unsent", "open", "used", "expired"}]
    BY <1>4 DEF MarkUsed, IInv, TypeOK
  <2>. QED  BY <1>1, <1>4, <2>1, <2>2, <2>3, ReadingStep, SamePassword, Kinds
            DEF MarkUsed, IInv, TypeOK
<1>. QED  BY <1>2, <1>3, <1>4

\* What inserting a row does to the rows.
LEMMA Inserted ==
    ASSUME IInv, NEW c \in Tokens, NEW f \in Logins, ~Issued(c), Insert(c, f),
           f = IF c \in Logins THEN c ELSE Root(call[c].token)
    PROVE  /\ rows' \in [Tokens -> Row] /\ RowsAdvance /\ WritesAreCalled
           /\ rows'[c].family = f /\ \A t \in Tokens \ {c} : rows'[t] = rows[t]
<1> DEFINE row == [family |-> f, expiresAt |-> now + Ttl,
                   revokedAt |-> Never, replacedByJti |-> "none"]
<1>1. /\ row \in Row /\ row.family = f /\ row.expiresAt = now + Ttl
      /\ row.revokedAt = Never /\ row.replacedByJti = "none"
  BY Parts DEF IInv, Row
<1>2. rows' = [rows EXCEPT ![c] = row]
  BY DEF Insert
<1> HIDE DEF row
<1>3. /\ rows' \in [Tokens -> Row] /\ rows'[c] = row
      /\ \A t \in Tokens \ {c} : rows'[t] = rows[t]
  BY <1>1, <1>2 DEF IInv, TypeOK
<1>4. RowsAdvance
  BY <1>1, <1>3 DEF RowsAdvance, Issued, Unrevoked, Insert
<1>5. WritesAreCalled
  BY <1>3 DEF WritesAreCalled
<1>. QED  BY <1>1, <1>3, <1>4, <1>5

\* What revoking rows does to them.
LEMMA RevokedRows ==
    ASSUME IInv, NEW S, rows' = Revoked(S)
    PROVE  /\ rows' \in [Tokens -> Row] /\ RowsAdvance
           /\ \A t \in Tokens : (Issued(t)' <=> Issued(t)) /\ rows'[t].family = rows[t].family
           /\ \A t \in Tokens : t \in S => ~Unrevoked(t)'
           /\ \A t \in Tokens : t \notin S => rows'[t] = rows[t]
<1>1. now \in Nat /\ now # Never
  BY Parts DEF IInv, Never
<1>2. \A t \in Tokens : rows'[t] = IF t \in S THEN [rows[t] EXCEPT !.revokedAt = now] ELSE rows[t]
  BY DEF Revoked
<1>3. \A t \in Tokens : rows[t] \in Row
  BY Parts DEF IInv
<1>4. ASSUME NEW t \in Tokens
      PROVE  /\ rows'[t] \in Row /\ rows'[t].family = rows[t].family
             /\ rows'[t].expiresAt = rows[t].expiresAt
             /\ rows'[t].replacedByJti = rows[t].replacedByJti
             /\ rows'[t].revokedAt = IF t \in S THEN now ELSE rows[t].revokedAt
  BY <1>1, <1>2, <1>3 DEF Row
<1>5. rows' \in [Tokens -> Row]
  BY <1>4 DEF Revoked
<1>6. \A t \in Tokens : Issued(t)' <=> Issued(t)
  BY <1>4 DEF Issued
<1>7. RowsAdvance
  BY <1>1, <1>4, <1>6 DEF RowsAdvance, Unrevoked
<1>. QED  BY <1>1, <1>2, <1>4, <1>5, <1>6, <1>7 DEF Unrevoked

LEMMA StartSessionKeeps == ASSUME IInv, NEW l \in Logins, StartSession(l) PROVE StepIsSound
<1>1. /\ l \in Calls /\ l \in Tokens /\ call[l].pc = "insert" /\ call[l] \in Call
      /\ Insert(l, l) /\ ~Issued(l)
  BY Kinds, Parts DEF IInv, StartSession, Insert, Knows
<1> DEFINE v == [call[l] EXCEPT !.pc = "done"]
<1>2. /\ v \in Call /\ v.pc = "done" /\ v.word = call[l].word /\ v.token = call[l].token
      /\ call' = [call EXCEPT ![l] = v]
  BY <1>1 DEF Call, StartSession, Goto
<1> HIDE DEF v
<1>3. Moves(l, v)
  BY <1>1, <1>2, Kinds DEF Moves
<1>4. CallsAdvance
  BY <1>1, <1>2, <1>3, MovesAdvance
<1>5. /\ rows' \in [Tokens -> Row] /\ RowsAdvance /\ WritesAreCalled
      /\ rows'[l].family = l /\ \A t \in Tokens \ {l} : rows'[t] = rows[t]
  BY <1>1, Inserted
<1>6. call' \in [Calls -> Call] /\ call'[l] = v /\ \A d \in Calls \ {l} : call'[d] = call[d]
  BY <1>1, <1>2, OneCall DEF IInv
<1>7. TypeOK'
  BY <1>1, <1>5, <1>6 DEF IInv, TypeOK, Insert
<1>8. \A t \in Tokens \ {l} : Issued(t)' <=> Issued(t)
  BY <1>5 DEF Issued
<1>9. Knows(l)'
  BY <1>2, <1>5, <1>6, Kinds DEF Knows, Issued, Root
<1>10. \A d \in Calls : Knows(d)'
  BY <1>1, <1>4, <1>5, <1>6, <1>8, <1>9, KnowsFrame
<1>11. now <= now' /\ (\A f \in Logins : "none" \notin reused'[f] => Issued(f))
  BY <1>1, Parts DEF IInv, FamiliesKnown, Insert
<1>12. PasswordAdvances /\ cut' = cut /\ reused' = reused
  BY <1>1, SamePassword DEF Insert
<1>. QED  BY <1>4, <1>5, <1>7, <1>8, <1>10, <1>11, <1>12, StepKeeps

LEMMA ContinueKeeps == ASSUME IInv, NEW r \in Refreshes, Continue(r) PROVE StepIsSound
<1> DEFINE p == call[r].token
           f == rows[p].family
<1>1. /\ r \in Calls /\ r \in Tokens /\ r \notin Logins /\ call[r].pc = "insert"
      /\ call[r] \in Call /\ Insert(r, f) /\ ~Issued(r)
  BY Kinds, Parts DEF IInv, Continue, Insert, Knows
<1>2. p \in Tokens /\ Issued(p) /\ p # r /\ f \in Logins
  BY <1>1, PresentedIssued, Parts DEF IInv, Issued
<1> DEFINE v == [call[r] EXCEPT !.pc = "rotated"]
<1>3. /\ v \in Call /\ v.pc = "rotated" /\ v.word = call[r].word /\ v.token = p
      /\ call' = [call EXCEPT ![r] = v]
  BY <1>1 DEF Call, Continue, Goto
<1> HIDE DEF v
<1>4. Moves(r, v)
  BY <1>1, <1>2, <1>3, Kinds DEF Moves
<1>5. CallsAdvance
  BY <1>1, <1>3, <1>4, MovesAdvance
<1>6. /\ rows' \in [Tokens -> Row] /\ RowsAdvance /\ WritesAreCalled
      /\ rows'[r].family = rows[p].family /\ \A t \in Tokens \ {r} : rows'[t] = rows[t]
  BY <1>1, <1>2, Inserted DEF Root
<1>7. call' \in [Calls -> Call] /\ call'[r] = v /\ \A d \in Calls \ {r} : call'[d] = call[d]
  BY <1>1, <1>3, OneCall DEF IInv
<1>8. TypeOK'
  BY <1>1, <1>6, <1>7 DEF IInv, TypeOK, Insert
<1>9. \A t \in Tokens \ {r} : Issued(t)' <=> Issued(t)
  BY <1>6 DEF Issued
<1>10. rows'[v.token].family = rows'[r].family /\ rows'[v.token].family # "none" /\ v.token # "none"
  BY <1>2, <1>3, <1>6, Kinds DEF Issued
<1>11. Knows(r)'
  BY <1>1, <1>3, <1>7, <1>10, Kinds DEF Knows, Issued, Root
<1>12. \A d \in Calls : Knows(d)'
  BY <1>1, <1>5, <1>6, <1>7, <1>9, <1>11, KnowsFrame
<1>13. now <= now' /\ (\A g \in Logins : "none" \notin reused'[g] => Issued(g))
  BY <1>1, Parts DEF IInv, FamiliesKnown, Insert
<1>14. PasswordAdvances /\ cut' = cut /\ reused' = reused
  BY <1>1, SamePassword DEF Insert
<1>. QED  BY <1>5, <1>6, <1>8, <1>9, <1>12, <1>13, <1>14, StepKeeps

LEMMA RotateKeeps == ASSUME IInv, NEW r \in Refreshes, Rotate(r) PROVE StepIsSound
<1> DEFINE p == call[r].token
<1>1. /\ r \in Calls /\ r \in Tokens /\ call[r].pc = "rotated" /\ call[r] \in Call
      /\ Issued(r) /\ Root(r) = Root(p)
  BY Kinds, Parts DEF IInv, Rotate, Knows
<1>2. p \in Tokens /\ Issued(p) /\ p # "none"
  BY <1>1, PresentedIssued, Kinds
<1> DEFINE v == [call[r] EXCEPT !.pc = "done"]
<1>3. /\ v \in Call /\ v.pc = "done" /\ v.word = call[r].word /\ v.token = p
      /\ call' = [call EXCEPT ![r] = v]
  BY <1>1 DEF Call, Rotate, Goto
<1> HIDE DEF v
<1>4. Moves(r, v)
  BY <1>1, <1>2, <1>3, Kinds DEF Moves
<1>5. CallsAdvance
  BY <1>1, <1>3, <1>4, MovesAdvance
<1> DEFINE row == [rows[p] EXCEPT !.replacedByJti = r, !.revokedAt = now]
<1>6. /\ row \in Row /\ row.family = rows[p].family /\ row.expiresAt = rows[p].expiresAt
      /\ row.replacedByJti = r /\ row.revokedAt = now /\ now # Never
  <2>1. rows[p] \in Row /\ now \in Nat /\ now # Never
    BY <1>2, Parts DEF IInv, Never
  <2>. QED  BY ONLY <1>1, <2>1 DEF Row
<1>7. rows' = [rows EXCEPT ![p] = row]
  BY DEF Rotate, Mark
<1> HIDE DEF row
<1>8. /\ rows' \in [Tokens -> Row] /\ rows'[p] = row
      /\ \A t \in Tokens \ {p} : rows'[t] = rows[t]
  BY <1>2, <1>6, <1>7 DEF IInv, TypeOK
<1>9. \A t \in Tokens : Issued(t)' <=> Issued(t)
  BY <1>6, <1>8 DEF Issued
<1>10. RowsAdvance
  BY <1>1, <1>6, <1>8, <1>9, Kinds DEF RowsAdvance, Unrevoked
<1>11. WritesAreCalled
  BY <1>1, <1>6, <1>8 DEF WritesAreCalled
<1>12. call' \in [Calls -> Call] /\ call'[r] = v /\ \A d \in Calls \ {r} : call'[d] = call[d]
  BY <1>1, <1>3, OneCall DEF IInv
<1>13. TypeOK'
  BY <1>8, <1>12 DEF IInv, TypeOK, Rotate
<1>14. /\ rows'[v.token].family = rows'[r].family /\ rows'[v.token].family # "none"
       /\ rows'[v.token].replacedByJti # "none"
  BY <1>1, <1>2, <1>3, <1>6, <1>8, Kinds DEF Issued, Root
<1>15. Knows(r)'
  BY <1>1, <1>2, <1>3, <1>9, <1>12, <1>14, Kinds DEF Knows, Issued, Root
<1>16. \A d \in Calls : Knows(d)'
  BY <1>1, <1>5, <1>9, <1>10, <1>12, <1>15, KnowsFrame
<1>17. now <= now' /\ (\A g \in Logins : "none" \notin reused'[g] => Issued(g))
  BY Parts DEF IInv, FamiliesKnown, Rotate
<1>18. PasswordAdvances /\ cut' = cut /\ reused' = reused
  BY SamePassword DEF Rotate
<1>. QED  BY <1>5, <1>9, <1>10, <1>11, <1>13, <1>16, <1>17, <1>18, StepKeeps

LEMMA DetectReuseKeeps == ASSUME IInv, NEW r \in Refreshes, DetectReuse(r) PROVE StepIsSound
<1> DEFINE p == call[r].token
<1>1. /\ r \in Calls /\ r \in Tokens /\ call[r].pc = "reuse" /\ call[r] \in Call /\ ~Issued(r)
  BY Kinds, Parts DEF IInv, DetectReuse, Knows
<1>2. p \in Tokens /\ Issued(p) /\ p # "none" /\ rows[p].family \in Logins
  BY <1>1, PresentedIssued, Kinds, Parts DEF IInv, Issued
<1>3. PICK f \in Logins : f = rows[p].family
  BY <1>2
<1> DEFINE v == [call[r] EXCEPT !.pc = "refused"]
<1>4. /\ v \in Call /\ v.pc = "refused" /\ v.word = call[r].word /\ v.token = p
      /\ call' = [call EXCEPT ![r] = v]
  BY <1>1 DEF Call, DetectReuse, Goto
<1> HIDE DEF v
<1>5. Moves(r, v)
  BY <1>1, <1>2, <1>4, Kinds DEF Moves
<1>6. CallsAdvance
  BY <1>1, <1>4, <1>5, MovesAdvance
<1>7. rows' = Revoked(InFamily(f))
  BY <1>3 DEF DetectReuse, RevokeReused
<1>8. /\ rows' \in [Tokens -> Row] /\ RowsAdvance
      /\ \A t \in Tokens : (Issued(t)' <=> Issued(t)) /\ rows'[t].family = rows[t].family
      /\ \A t \in Tokens : t \in InFamily(f) => ~Unrevoked(t)'
      /\ \A t \in Tokens : t \notin InFamily(f) => rows'[t] = rows[t]
  BY <1>7, RevokedRows
<1>9. WritesAreCalled
  BY <1>1, <1>3, <1>8 DEF WritesAreCalled, InFamily, Root
<1>10. call' \in [Calls -> Call] /\ call'[r] = v /\ \A d \in Calls \ {r} : call'[d] = call[d]
  BY <1>1, <1>4, OneCall DEF IInv
<1>11. /\ reused' = [reused EXCEPT ![f] = InFlight \ {r}]
       /\ reused'[f] = InFlight \ {r} /\ \A g \in Logins \ {f} : reused'[g] = reused[g]
  BY <1>3 DEF DetectReuse, IInv, TypeOK
<1>12. TypeOK'
  BY <1>8, <1>10, <1>11 DEF IInv, TypeOK, DetectReuse, InFlight
<1>13. Knows(r)'
  <2>1. rows'[v.token].family # "none" /\ v.token # "none"
    BY <1>2, <1>4, <1>8 DEF Issued
  <2>. QED  BY <1>1, <1>4, <1>8, <1>10, <2>1, Kinds DEF Knows, Issued
<1>14. \A d \in Calls : Knows(d)'
  BY <1>1, <1>6, <1>8, <1>10, <1>13, KnowsFrame
<1>15. TokensKept
  BY <1>6, TokensAreKept
<1>16. ASSUME NEW t \in Tokens, NEW g \in Logins, Current(t)', rows'[t].family = g
       PROVE  ReuseMet(t, g)'
  <2>1. Current(t) /\ Root(t) = g
    BY <1>8, <1>16 DEF RowsAdvance, Current, Root
  <2>2. g # f
    BY <1>8, <1>16, <2>1 DEF InFamily, Current, Root
  <2>3. ReuseMet(t, g)
    BY <2>1 DEF IInv, ReusePart
  <2>. QED  BY <1>11, <1>15, <2>2, <2>3, ReuseMetStays
<1>17. ASSUME NEW q \in Refreshes, NEW g \in Logins, Minting(q)', rows'[call'[q].token].family = g
       PROVE  ReuseMet(q, g)'
  <2>1. q # r /\ call'[q] = call[q] /\ q \in Calls /\ q \in Tokens /\ Minting(q)
    BY <1>4, <1>10, <1>17, Kinds DEF Minting
  <2>2. Root(call[q].token) = g
    BY <1>8, <1>17, <2>1, PresentedIssued DEF Minting, Root
  <2>3. CASE g # f
    <3>1. ReuseMet(q, g)
      BY <2>1, <2>2 DEF IInv, ReusePart
    <3>. QED  BY <1>11, <1>15, <2>1, <2>3, <3>1, ReuseMetStays
  <2>4. CASE g = f
    <3>1. q \in InFlight
      BY <2>1 DEF Minting, InFlight, Answered
    <3>2. q \in Line(q)'
      BY <2>1, LineHas, LineGrows, <1>15
    <3>. QED  BY <1>11, <2>1, <2>4, <3>1, <3>2 DEF ReuseMet
  <2>. QED  BY <2>3, <2>4
<1>18. ReusePart'
  <2>1. ASSUME NEW t \in Tokens, Current(t)' PROVE rows'[t].family \in Logins
    BY <1>8, <2>1 DEF Current, Issued, Row
  <2>2. ASSUME NEW q \in Refreshes, Minting(q)' PROVE rows'[call'[q].token].family \in Logins
    <3>1. q # r /\ call'[q] = call[q] /\ Minting(q)
      BY <1>4, <1>10, <2>2, Kinds DEF Minting
    <3>2. call[q].token \in Tokens /\ Issued(call[q].token)
      BY <3>1, PresentedIssued DEF Minting
    <3>. QED  BY <1>8, <3>1, <3>2, Parts DEF IInv, Issued
  <2>. QED  BY <1>16, <1>17, <2>1, <2>2 DEF ReusePart, Root
<1>19. \A g \in Logins : "none" \notin reused'[g] => Issued(g)
  <2>1. Issued(f)
    BY <1>2, <1>3, IssuedStays, <1>8 DEF Root
  <2>. QED  BY <1>11, <2>1 DEF IInv, FamiliesKnown
<1>20. now <= now' /\ PasswordAdvances /\ cut' = cut
  BY Parts, SamePassword DEF IInv, DetectReuse
<1>. QED  BY <1>6, <1>8, <1>9, <1>12, <1>14, <1>18, <1>19, <1>20, StepKeeps

LEMMA LogoutKeeps == ASSUME IInv, NEW o \in Logouts, Logout(o) PROVE StepIsSound
<1>1. o \in Calls /\ o \notin Tokens /\ call[o].pc = "waiting" /\ call[o] \in Call
  BY Kinds, Parts DEF IInv, Logout, Arrives
<1>2. PICK t \in Tokens :
         /\ Issued(t) /\ call[t].pc = "done"
         /\ rows' = IF Expired(rows[t]) THEN rows ELSE Revoked({t})
         /\ call' = [call EXCEPT ![o].token = t, ![o].pc = "done"]
  BY DEF Logout
<1> DEFINE v == [call[o] EXCEPT !.token = t, !.pc = "done"]
<1>3. /\ v \in Call /\ v.pc = "done" /\ v.token = t /\ v.word = call[o].word
      /\ call' = [call EXCEPT ![o] = v]
  BY <1>1, <1>2 DEF Call
<1> HIDE DEF v
<1>4. Moves(o, v)
  BY <1>1, <1>2, <1>3, Kinds DEF Moves
<1>5. CallsAdvance
  BY <1>1, <1>3, <1>4, MovesAdvance
<1>6. call' \in [Calls -> Call] /\ call'[o] = v /\ \A d \in Calls \ {o} : call'[d] = call[d]
  BY <1>1, <1>3, OneCall DEF IInv
<1>7. /\ rows' \in [Tokens -> Row] /\ RowsAdvance
      /\ \A u \in Tokens : Issued(u)' <=> Issued(u)
      /\ \A u \in Tokens : u # t => rows'[u] = rows[u]
  <2>1. CASE Expired(rows[t])
    BY <1>2, <2>1, RowsStay DEF IInv, TypeOK
  <2>2. CASE ~Expired(rows[t])
    <3>1. rows' = Revoked({t})
      BY <1>2, <2>2
    <3>2. /\ rows' \in [Tokens -> Row] /\ RowsAdvance
          /\ \A u \in Tokens : (Issued(u)' <=> Issued(u))
          /\ \A u \in Tokens : u \notin {t} => rows'[u] = rows[u]
      BY <3>1, RevokedRows
    <3>. QED  BY <3>2
  <2>. QED  BY <2>1, <2>2
<1>8. WritesAreCalled
  BY <1>1, <1>3, <1>6, <1>7 DEF WritesAreCalled
<1>9. TypeOK'
  BY <1>6, <1>7 DEF IInv, TypeOK, Logout
<1>10. Knows(o)'
  <2>1. rows'[v.token].family # "none" /\ v.token # "none"
    BY <1>2, <1>3, <1>7, Kinds DEF Issued
  <2>. QED  BY <1>1, <1>3, <1>6, <2>1, Kinds DEF Knows, Issued
<1>11. \A d \in Calls : Knows(d)'
  BY <1>1, <1>5, <1>6, <1>7, <1>10, KnowsFrame
<1>12. now <= now' /\ (\A g \in Logins : "none" \notin reused'[g] => Issued(g))
  BY Parts DEF IInv, FamiliesKnown, Logout
<1>13. PasswordAdvances /\ cut' = cut /\ reused' = reused
  BY SamePassword DEF Logout
<1>. QED  BY <1>5, <1>7, <1>8, <1>9, <1>11, <1>12, <1>13, StepKeeps

LEMMA EndSessionsKeeps == ASSUME IInv, NEW s \in Resets, EndSessions(s) PROVE StepIsSound
<1>1. s \in Calls /\ s \notin Tokens \cup Logouts /\ call[s].pc = "spent" /\ call[s] \in Call
  BY Kinds, Parts DEF IInv, EndSessions
<1> DEFINE v == [call[s] EXCEPT !.pc = "done"]
<1>2. /\ v \in Call /\ v.pc = "done" /\ v.token = call[s].token /\ v.word = call[s].word
      /\ call' = [call EXCEPT ![s] = v]
  BY <1>1 DEF Call, EndSessions, Goto
<1> HIDE DEF v
<1>3. Moves(s, v)
  BY <1>1, <1>2, Kinds DEF Moves
<1>4. CallsAdvance
  BY <1>1, <1>2, <1>3, MovesAdvance
<1>5. call' \in [Calls -> Call] /\ call'[s] = v /\ \A d \in Calls \ {s} : call'[d] = call[d]
  BY <1>1, <1>2, OneCall DEF IInv
<1>6. rows' = Revoked({t \in Tokens : Issued(t)})
  BY DEF EndSessions, RevokeAll
<1>7. /\ rows' \in [Tokens -> Row] /\ RowsAdvance
      /\ \A t \in Tokens : (Issued(t)' <=> Issued(t)) /\ rows'[t].family = rows[t].family
      /\ \A t \in Tokens : t \in {u \in Tokens : Issued(u)} => ~Unrevoked(t)'
  BY <1>6, RevokedRows
<1>8. WritesAreCalled
  BY <1>1, <1>2, <1>5 DEF WritesAreCalled
<1>9. /\ cut'.calls = InFlight \ {s}
      /\ cut'.words = {w \in Words : w = "first" \/ call[w].pc \in {"changed", "spent", "done"}}
                      \ {password.word}
  BY DEF EndSessions
<1>10. TypeOK'
  BY <1>5, <1>7 DEF IInv, TypeOK, EndSessions, InFlight
<1>11. Knows(s)'
  BY <1>1, Kinds DEF Knows
<1>12. \A d \in Calls : Knows(d)'
  BY <1>1, <1>4, <1>5, <1>7, <1>11, KnowsFrame
<1>13. \A t \in Tokens : ~Current(t)'
  BY <1>7 DEF Current
<1>14. ASSUME NEW q \in Refreshes, Minting(q)' PROVE Line(q)' \cap cut'.calls # {}
  <2>1. q # s /\ call'[q] = call[q] /\ q \in Calls /\ q \in Tokens /\ Minting(q)
    BY <1>2, <1>5, <1>14, Kinds DEF Minting
  <2>2. q \in InFlight \ {s}
    BY <2>1 DEF Minting, InFlight, Answered
  <2>3. q \in Line(q)'
    BY <1>4, <2>1, LineHas, LineGrows, TokensAreKept
  <2>. QED  BY <1>9, <2>2, <2>3
<1>15. ASSUME NEW l \in Logins, Opening(l)', NEW w, w = call'[l].word PROVE Excused(w)'
  <2>1. l # s /\ call'[l] = call[l] /\ l \in Calls /\ Opening(l)
    BY <1>2, <1>5, <1>15, Kinds DEF Opening
  <2>2. l \in InFlight \ {s}
    BY <2>1 DEF Opening, InFlight, Answered
  <2>. QED  BY <1>9, <1>15, <2>2 DEF Excused
<1>16. password'.word \notin cut'.words
  BY <1>9 DEF EndSessions
<1>17. \A w \in cut'.words : w # "first" =>
         w \in Resets /\ call'[w].pc \in {"changed", "spent", "done"}
  BY <1>4, <1>9 DEF Words, CallsAdvance
<1>18. \A c \in cut'.calls : call'[c].pc # "waiting"
  BY <1>4, <1>9 DEF InFlight, CallsAdvance
<1>19. ResetPart'
  BY <1>13, <1>14, <1>15, <1>16, <1>17, <1>18 DEF ResetPart, ResetMet
<1>20. now <= now' /\ (\A g \in Logins : "none" \notin reused'[g] => Issued(g)) /\ reused' = reused
  BY Parts DEF IInv, FamiliesKnown, EndSessions
<1>. QED  BY <1>4, <1>7, <1>8, <1>10, <1>12, <1>19, <1>20, StepKeeps

\* The links, the administrator, and the clock.
LEMMA SurroundingsKeep ==
    ASSUME IInv, Update \/ Tick \/ \E k \in Links : Forgot(k) \/ LinkExpires(k)
    PROVE  StepIsSound
<1>1. CASE Tick
  <2>1. now' \in 0..MaxTime /\ now <= now'
    BY <1>1, TimesAssumption DEF Tick, IInv, TypeOK
  <2>. QED  BY <1>1, <2>1, OutsideStep DEF Tick, IInv, TypeOK
<1>2. CASE Update
  BY <1>2, Parts, OutsideStep DEF Update, IInv, TypeOK
<1>3. ASSUME NEW k \in Links, Forgot(k) \/ LinkExpires(k) PROVE StepIsSound
  <2>1. links' \in [Links -> {"unsent", "open", "used", "expired"}]
    BY <1>3 DEF Forgot, LinkExpires, IInv, TypeOK
  <2>. QED  BY <1>3, <2>1, Parts, OutsideStep DEF Forgot, LinkExpires, IInv, TypeOK
<1>. QED  BY <1>1, <1>2, <1>3

-----------------------------------------------------------------------------
(* The theorems *)

LEMMA InitHolds == Init => IInv
<1> SUFFICES ASSUME Init PROVE IInv
  OBVIOUS
<1>1. TypeOK
  <2>1. NoRow \in Row /\ Waiting \in Call /\ "first" \in Words /\ 0 \in 0..MaxTime
    BY TimesAssumption DEF NoRow, Row, Waiting, Call, Words
  <2>. QED  BY <2>1 DEF Init, TypeOK
<1>2. \A t \in Tokens : ~Issued(t)
  BY DEF Init, NoRow, Issued
<1>3. \A c \in Calls : call[c].pc = "waiting" /\ call[c].token = "none"
  BY DEF Init, Waiting
<1>4. \A c \in Calls : Knows(c)
  BY <1>2, <1>3, Kinds DEF Knows
<1>5. FamiliesKnown
  BY <1>2 DEF Init, FamiliesKnown
<1>6. ReusePart
  BY <1>2, <1>3, Kinds DEF ReusePart, Current, Minting
<1>7. ResetPart
  BY <1>2, <1>3, Kinds DEF Init, ResetPart, Current, Minting, Opening
<1>8. ForkPart
  BY <1>2 DEF ForkPart
<1>9. DuplicatePart
  BY <1>3, Kinds DEF DuplicatePart, Quiet
<1>. QED  BY <1>1, <1>4, <1>5, <1>6, <1>7, <1>8, <1>9 DEF IInv

LEMMA NextKeeps ==
    ASSUME IInv, [Next]_vars
    PROVE  StepIsSound
<1>1. ASSUME NEW l \in Logins, ReadAccount(l) \/ Rehash(l) \/ StartSession(l) PROVE StepIsSound
  BY <1>1, ReadAccountKeeps, RehashKeeps, StartSessionKeeps
<1>2. ASSUME NEW r \in Refreshes,
             \/ ReadToken(r) \/ ReadSuccessor(r) \/ AnswerRetry(r) \/ DetectReuse(r)
             \/ CheckAccount(r) \/ Continue(r) \/ Rotate(r)
      PROVE  StepIsSound
  BY <1>2, ReadTokenKeeps, ReadSuccessorKeeps, AnswerRetryKeeps, DetectReuseKeeps,
     CheckAccountKeeps, ContinueKeeps, RotateKeeps
<1>3. ASSUME NEW o \in Logouts, Logout(o) PROVE StepIsSound
  BY <1>3, LogoutKeeps
<1>4. ASSUME NEW s \in Resets, ReadLink(s) \/ SetPassword(s) \/ MarkUsed(s) \/ EndSessions(s)
      PROVE  StepIsSound
  BY <1>4, ResetReads, EndSessionsKeeps
<1>5. CASE Update \/ Tick \/ \E k \in Links : Forgot(k) \/ LinkExpires(k)
  BY <1>5, SurroundingsKeep
<1>6. CASE UNCHANGED vars
  BY <1>6, OutsideStep, Parts DEF vars, IInv, TypeOK
<1>. QED  BY <1>1, <1>2, <1>3, <1>4, <1>5, <1>6 DEF Next

\* The invariant that carries the theorems.
THEOREM InvHolds == Spec => []IInv
<1>1. Init => IInv
  BY InitHolds
<1>2. IInv /\ [Next]_vars => IInv'
  BY NextKeeps DEF StepIsSound
<1>. QED  BY <1>1, <1>2, PTL DEF Spec

\* Every row, link and call keeps its shape through overlapping calls.
THEOREM TypeCorrect == Spec => []TypeOK
<1>1. IInv => TypeOK
  BY DEF IInv
<1>. QED  BY <1>1, InvHolds, PTL

\* No step makes a refresh token good again, forgets its successor, or moves it to another
\* family; and a row is written only by a logout that presents it, a reset, a reuse found in
\* its family, or the rotation of it (refresh, logout, resetPassword).
THEOREM TokensAreSpentForGood == Spec => [][RowsAdvance /\ WritesAreCalled]_vars
<1>1. IInv /\ [Next]_vars => [RowsAdvance /\ WritesAreCalled]_vars
  BY NextKeeps DEF StepIsSound
<1>. QED  BY <1>1, InvHolds, PTL DEF Spec

\* Reuse detection (refresh, :497) ends the family but for what was already in flight.
THEOREM ReuseEndsTheFamily == Spec => []ReuseEndsFamily
<1>1. IInv => ReuseEndsFamily
  BY DEF IInv, ReusePart, ReuseMet, ReuseEndsFamily, Live, Usable, Current, Unrevoked
<1>. QED  BY <1>1, InvHolds, PTL

\* A completed reset ends the sessions of the passwords it replaced, but for what was
\* in flight and for a login that wrote the old password back.
THEOREM ResetEndsTheSessions == Spec => []ResetEndsSessions
<1>1. IInv => ResetEndsSessions
  BY DEF IInv, ResetPart, ResetMet, Excused, ResetEndsSessions, Live, Usable, Current, Unrevoked
<1>. QED  BY <1>1, InvHolds, PTL

\* Two live tokens of a family come from one token rotated twice, or from a rotation
\* that has not marked the token it replaces.
THEOREM ForksHaveACause == Spec => []ForksComeFromOneToken
<1>1. ASSUME IInv, NEW t \in Tokens, NEW u \in Tokens, Live(t), Live(u), t # u, t \in Line(u)
      PROVE  \E r \in Children(t) : call[r].pc = "rotated"
  <2>1. PICK c \in Line(u) \cap Refreshes : call[c].token = t
    BY <1>1, LineChild DEF IInv
  <2>2. Issued(c) /\ c \in Calls
    BY <1>1, <2>1, LineIssued, Kinds DEF Live
  <2>3. call[c].pc = "rotated"
    BY <1>1, <2>1, <2>2 DEF IInv, Knows, Live, Usable
  <2>. QED  BY <2>1, <2>2, <2>3 DEF Children
<1>2. ASSUME NEW p, NEW a \in Children(p), NEW b \in Children(p), a # b
      PROVE  Cardinality(Children(p)) > 1
  <2>1. IsFiniteSet(Children(p)) /\ {a, b} \subseteq Children(p)
    BY RefreshesFinite, FS_Subset DEF Children
  <2>2. Cardinality({a, b}) = 2
    <3>1. IsFiniteSet({a}) /\ Cardinality({a}) = 1 /\ b \notin {a} /\ {a, b} = {a} \cup {b}
      BY <1>2, FS_Singleton
    <3>. QED  BY <3>1, FS_AddElement
  <2>3. Cardinality({a, b}) <= Cardinality(Children(p)) /\ Cardinality(Children(p)) \in Nat
    BY <2>1, FS_Subset, FS_CardinalityType
  <2>. QED  BY <2>2, <2>3
<1>3. ASSUME IInv, NEW t \in Tokens, NEW u \in Tokens, Live(t), Live(u), t # u, Root(t) = Root(u)
      PROVE  \E p \in Line(t) \cup Line(u) :
               \/ Cardinality(Children(p)) > 1
               \/ \E r \in Children(p) : call[r].pc = "rotated"
  <2>1. Joined(t, u)
    BY <1>3 DEF IInv, ForkPart, Live
  <2>2. CASE t \in Line(u)
    BY <1>1, <1>3, <2>2, LineHas
  <2>3. CASE u \in Line(t)
    BY <1>1, <1>3, <2>3, LineHas
  <2>4. ASSUME NEW p \in Line(t) \cap Line(u), \E a, b \in Children(p) : a # b
        PROVE  Cardinality(Children(p)) > 1
    BY <1>2, <2>4
  <2>. QED  BY <2>1, <2>2, <2>3, <2>4 DEF Joined
<1>4. IInv => ForksComeFromOneToken
  BY <1>3 DEF ForksComeFromOneToken
<1>. QED  BY <1>4, InvHolds, PTL

\* Copies of the first token, presented within the grace window, leave the user a live
\* token when all have answered.
THEOREM DuplicatesKeepTheSession == Spec => []DuplicatesKeepSession
<1>1. ASSUME IInv, NEW l \in Logins, Quiet(l) PROVE \E t \in InFamily(l) : Live(t)
  <2>1. Issued(l) /\ l \in InFamily(l) /\ l \in Tokens
    BY <1>1, Kinds DEF IInv, Knows, Quiet, InFamily, Root
  <2>2. FamilyQuiet(l) /\ now <= rows[l].expiresAt
    BY <1>1 DEF IInv, DuplicatePart, Quiet
  <2>3. rows[l].expiresAt \in Nat /\ now \in Nat
    BY <1>1, <2>1, Parts DEF IInv
  <2>4. CASE Unrevoked(l)
    <3>1. ~Expired(rows[l])
      BY <2>2, <2>3 DEF Expired
    <3>. QED  BY <2>1, <2>4, <3>1 DEF Live, Usable, Unrevoked
  <2>5. CASE ~Unrevoked(l)
    <3>1. PICK u \in InFamily(l) \ {l} : u = rows[l].replacedByJti
      BY <2>2, <2>5 DEF FamilyQuiet
    <3>2. u \in Tokens /\ Issued(u) /\ Unrevoked(u) /\ rows[u].expiresAt >= rows[l].expiresAt
      BY <2>2, <3>1, Kinds DEF FamilyQuiet, InFamily, Issued
    <3>3. ~Expired(rows[u])
      BY <1>1, <2>2, <2>3, <3>2, Parts DEF IInv, Expired
    <3>. QED  BY <3>1, <3>2, <3>3 DEF Live, Usable, Unrevoked
  <2>. QED  BY <2>4, <2>5
<1>2. IInv => DuplicatesKeepSession
  BY <1>1 DEF DuplicatesKeepSession, Quiet, Presented
<1>. QED  BY <1>2, InvHolds, PTL

-----------------------------------------------------------------------------
(* A link that was spent *)

\* What reset s has presented, and that it has marked it.
LinkKnown(s) ==
    /\ call[s].pc \in {"waiting", "hashed", "changed", "spent", "done", "refused"}
    /\ call[s].pc = "waiting" => call[s].link = "none"
    /\ call[s].pc # "waiting" => call[s].link \in Links
    /\ call[s].pc \in {"spent", "done"} => links[call[s].link] = "used"

LinksKnown == \A s \in Resets : LinkKnown(s)

\* A reset is let in only by a link that no reset has spent: those that were let in by it
\* before are still to mark it, or the link was refused to them.
LinksLetInTogether ==
    [][\A s \in Resets : call[s].pc = "waiting" /\ call'[s].pc = "hashed" =>
         \A z \in Resets \ {s} :
           call[z].link = call'[s].link => call[z].pc \in {"hashed", "changed", "refused"}]_vars

\* Links are as they were for a call that does not move.
LEMMA LinkFrame ==
    ASSUME LinksKnown, NEW s \in Resets, call'[s] = call[s],
           \A k \in Links : links[k] = "used" => links'[k] = "used"
    PROVE  LinkKnown(s)'
BY DEF LinksKnown, LinkKnown

LEMMA OthersMove ==
    ASSUME TypeOK, NEW c \in Calls \ Resets,
           \/ c \in Logins /\ (ReadAccount(c) \/ Rehash(c) \/ StartSession(c))
           \/ ReadToken(c) \/ ReadSuccessor(c) \/ AnswerRetry(c) \/ DetectReuse(c)
           \/ CheckAccount(c) \/ Continue(c) \/ Rotate(c)
           \/ Logout(c)
    PROVE  links' = links /\ \A s \in Resets : call'[s] = call[s]
<1>1. CASE c \in Logins /\ (ReadAccount(c) \/ Rehash(c) \/ StartSession(c))
  BY <1>1, Kinds DEF ReadAccount, Rehash, StartSession, Insert, Goto, TypeOK
<1>2. CASE ReadToken(c) \/ ReadSuccessor(c) \/ AnswerRetry(c) \/ DetectReuse(c)
  BY <1>2, Kinds DEF ReadToken, ReadSuccessor, AnswerRetry, DetectReuse, Goto, TypeOK
<1>3. CASE CheckAccount(c) \/ Continue(c) \/ Rotate(c) \/ Logout(c)
  BY <1>3, Kinds DEF CheckAccount, Continue, Rotate, Logout, Insert, Goto, TypeOK
<1>. QED  BY <1>1, <1>2, <1>3

LEMMA ResetMoves ==
    ASSUME TypeOK, LinksKnown, NEW s \in Resets,
           ReadLink(s) \/ SetPassword(s) \/ MarkUsed(s) \/ EndSessions(s)
    PROVE  LinksKnown'
<1>1. s \in Calls /\ call[s] \in Call /\ LinkKnown(s) /\ \A z \in Resets : z \in Calls
  BY Kinds, Parts DEF LinksKnown
<1>2. \A z \in Resets \ {s} : call'[z] = call[z]
  BY <1>1 DEF ReadLink, SetPassword, MarkUsed, EndSessions, Goto, TypeOK
<1>3. \A k \in Links : links[k] = "used" => links'[k] = "used"
  BY DEF ReadLink, SetPassword, MarkUsed, EndSessions, TypeOK
<1>4. LinkKnown(s)'
  <2>1. CASE ReadLink(s)
    <3>1. PICK k \in Links, pc \in {"hashed", "refused"} :
            call' = [call EXCEPT ![s].link = k, ![s].pc = pc]
      BY <2>1 DEF ReadLink
    <3>2. call'[s].link = k /\ call'[s].pc = pc
      BY <1>1, <3>1 DEF TypeOK, Call
    <3>. QED  BY <3>2 DEF LinkKnown
  <2>2. ASSUME NEW pc, call' = [call EXCEPT ![s].pc = pc]
        PROVE  call'[s].link = call[s].link /\ call'[s].pc = pc
    BY <1>1, <2>2 DEF TypeOK, Call
  <2>3. CASE SetPassword(s)
    BY <1>1, <2>2, <2>3 DEF SetPassword, Goto, LinkKnown
  <2>4. CASE MarkUsed(s)
    <3>1. call[s].pc = "changed" /\ call'[s].pc = "spent" /\ call'[s].link = call[s].link
      BY <2>2, <2>4 DEF MarkUsed, Goto
    <3>2. call[s].link \in Links /\ links'[call[s].link] = "used"
      BY <1>1, <2>4, <3>1 DEF MarkUsed, LinkKnown, TypeOK
    <3>. QED  BY <3>1, <3>2 DEF LinkKnown
  <2>5. CASE EndSessions(s)
    BY <1>1, <2>2, <2>5 DEF EndSessions, Goto, LinkKnown
  <2>. QED  BY <2>1, <2>3, <2>4, <2>5
<1>. QED  BY <1>2, <1>3, <1>4, LinkFrame DEF LinksKnown

LEMMA LinksKnownStep ==
    ASSUME TypeOK, LinksKnown, [Next]_vars
    PROVE  LinksKnown'
<1>1. ASSUME NEW k \in Links, Forgot(k) \/ LinkExpires(k) PROVE LinksKnown'
  <2>1. call' = call /\ \A j \in Links : links[j] = "used" => links'[j] = "used"
    BY <1>1 DEF Forgot, LinkExpires, TypeOK
  <2>. QED  BY <2>1, LinkFrame DEF LinksKnown
<1>2. CASE Update \/ Tick \/ UNCHANGED vars
  <2>1. call' = call /\ links' = links
    BY <1>2 DEF Update, Tick, vars
  <2>. QED  BY <2>1, LinkFrame DEF LinksKnown
<1>3. ASSUME links' = links, \A s \in Resets : call'[s] = call[s] PROVE LinksKnown'
  BY <1>3, LinkFrame DEF LinksKnown
<1>. QED  BY <1>1, <1>2, <1>3, OthersMove, ResetMoves, Kinds DEF Next

LEMMA LetInTogether ==
    ASSUME TypeOK, LinksKnown, [Next]_vars,
           NEW s \in Resets, call[s].pc = "waiting", call'[s].pc = "hashed",
           NEW z \in Resets \ {s}, call[z].link = call'[s].link
    PROVE  call[z].pc \in {"hashed", "changed", "refused"}
<1>1. ReadLink(s)
  <2>1. ASSUME NEW r \in Resets, SetPassword(r) \/ MarkUsed(r) \/ EndSessions(r)
        PROVE  FALSE
    BY <2>1, Kinds DEF SetPassword, MarkUsed, EndSessions, Goto, TypeOK
  <2>2. ASSUME NEW r \in Resets \ {s}, ReadLink(r) PROVE FALSE
    BY <2>2, Kinds DEF ReadLink, TypeOK
  <2>3. CASE call'[s] = call[s]
    BY <2>3
  <2>. QED  BY <2>1, <2>2, <2>3, OthersMove, Kinds DEF Next, Forgot, LinkExpires, Update, Tick, vars
<1>2. PICK k \in Links :
        call' = [call EXCEPT ![s].link = k,
                             ![s].pc = IF links[k] = "open" THEN "hashed" ELSE "refused"]
  BY <1>1 DEF ReadLink
<1>3. call'[s].link = k /\ links[k] = "open"
  BY <1>2, Kinds DEF TypeOK, Call
<1>. QED  BY <1>3, CallsDisjoint DEF LinksKnown, LinkKnown

\* resetPassword lets two calls in by one link only if both had read it before either
\* marked it as used: a link whose mark is written lets nobody in any more.
THEOREM SpentLinksLetNobodyIn == Spec => LinksLetInTogether
<1>1. Init => LinksKnown
  BY Kinds DEF Init, Waiting, LinksKnown, LinkKnown
<1>2. TypeOK /\ LinksKnown /\ [Next]_vars => LinksKnown'
  BY LinksKnownStep
<1>3. TypeOK /\ LinksKnown /\ [Next]_vars =>
        [\A s \in Resets : call[s].pc = "waiting" /\ call'[s].pc = "hashed" =>
           \A z \in Resets \ {s} :
             call[z].link = call'[s].link => call[z].pc \in {"hashed", "changed", "refused"}]_vars
  BY LetInTogether
<1>. QED  BY <1>1, <1>2, <1>3, TypeCorrect, PTL DEF Spec, LinksLetInTogether
=============================================================================

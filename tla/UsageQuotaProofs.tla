-------------------------- MODULE UsageQuotaProofs --------------------------
(***************************************************************************)
(* Proofs about UsageQuota for any number of users, calls, plans, months   *)
(* and caps.  The invariants the runs check are not inductive: that a      *)
(* commit writes the right row needs RowsAreFresh (the row an open         *)
(* transaction holds is still the committed one plus its increments),      *)
(* which in turn needs OneHolder (the row lock excludes other writers).    *)
(***************************************************************************)
EXTENDS UsageQuota, FiniteSetTheorems, TLAPS

\* At most one open transaction holds the counter row of a user and month.
OneHolder ==
    \A c, d \in Calls :
        /\ call[c].pc = "reserved" /\ call[d].pc = "reserved"
        /\ call[c].user = call[d].user /\ call[c].period = call[d].period
        => c = d

\* The row RETURNING gave is still the committed row plus the increments.
RowsAreFresh ==
    \A c \in Calls : call[c].pc = "reserved" =>
        call[c].row = Incremented(counter[call[c].user][call[c].period], call[c].kind)

\* Whatever the caps are enforced on has a plan once its guard has let it in.
CheckedCallsHavePlans ==
    \A c \in Calls :
        /\ c \in Enforced /\ call[c].pc \notin {"arrived", "failed"} => call[c].plan \in Plans
        /\ call[c].pc = "rejected" => c \in Enforced

IInv == /\ TypeOK
        /\ CheckedCallsHavePlans
        /\ OneHolder
        /\ RowsAreFresh
        /\ CounterIsLedger
        /\ CapsRespected
        /\ RejectedOnlyWhenFull

-----------------------------------------------------------------------------
\* The sets that CounterIsLedger counts are finite.
LEMMA CountedFinite ==
  ASSUME NEW u, NEW p, NEW col
  PROVE  /\ IsFiniteSet(Counted(u, p, col))
         /\ Cardinality(Counted(u, p, col)) \in Nat
<1>1. Counted(u, p, col) \subseteq Calls
  BY DEF Counted
<1>2. IsFiniteSet(Counted(u, p, col))
  BY <1>1, FS_Subset, CallsFinite
<1> QED
  BY <1>2, FS_CardinalityType

LEMMA RegisteredAssetsFinite ==
  ASSUME NEW u
  PROVE  IsFiniteSet(RegisteredAssets(u)) /\ Cardinality(RegisteredAssets(u)) \in Nat
<1> DEFINE all == {Asset[d] : d \in Calls}
<1>1. \A a \in all : \E d \in Calls : a = Asset[d]
  OBVIOUS
<1>2. IsFiniteSet(all)
  <2> DEFINE f == [d \in Calls |-> Asset[d]]
  <2>1. f \in Surjection(Calls, all)
    BY DEF Surjection
  <2> HIDE DEF f, all
  <2> QED
    BY <2>1, CallsFinite, FS_Surjection
<1>3. RegisteredAssets(u) \subseteq all
  BY DEF RegisteredAssets
<1>4. IsFiniteSet(RegisteredAssets(u))
  BY <1>2, <1>3, FS_Subset
<1> QED
  BY <1>4, FS_CardinalityType

\* An upsert keeps a counter row a counter row (plan-caps.service.ts).
LEMMA IncrementedType ==
  ASSUME NEW row \in CounterRow, NEW k
  PROVE  Incremented(row, k) \in CounterRow
BY DEF Incremented, CounterRow

LEMMA InitType == Init => TypeOK
<1> SUFFICES ASSUME Init PROVE TypeOK
  OBVIOUS
<1>1. EmptyRow \in CounterRow
  BY DEF EmptyRow, CounterRow
<1>2. 0 \in Periods
  BY PeriodAssumption DEF Periods
<1>3. PICK user \in [Calls -> Users], kind \in [Calls -> Kinds] :
        call = [c \in Calls |->
                  [pc |-> "arrived", user |-> user[c], kind |-> kind[c],
                   plan |-> "none", period |-> 0, row |-> EmptyRow, assets |-> 0]]
  BY DEF Init
<1>4. call \in [Calls -> Call]
  BY <1>1, <1>2, <1>3 DEF Init, Call, Steps
<1> QED
  BY <1>1, <1>2, <1>4 DEF Init, TypeOK

\* A step that only moves a call on.
LEMMA GotoFrame ==
  ASSUME TypeOK, NEW c \in Calls, NEW step \in Steps, Goto(c, step)
  PROVE  /\ call' \in [Calls -> Call]
         /\ \A d \in Calls \ {c} : call'[d] = call[d]
         /\ call'[c].pc = step
         /\ call'[c].user = call[c].user /\ call'[c].kind = call[c].kind
         /\ call'[c].plan = call[c].plan /\ call'[c].period = call[c].period
         /\ call'[c].row = call[c].row /\ call'[c].assets = call[c].assets
<1> DEFINE moved == [call[c] EXCEPT !.pc = step]
<1>1. call[c] \in Call
  BY DEF TypeOK
<1>2. /\ moved \in Call
      /\ moved.pc = step
      /\ moved.user = call[c].user /\ moved.kind = call[c].kind
      /\ moved.plan = call[c].plan /\ moved.period = call[c].period
      /\ moved.row = call[c].row /\ moved.assets = call[c].assets
  BY <1>1 DEF Call
<1>3. call' = [call EXCEPT ![c] = moved]
  BY DEF Goto
<1> HIDE DEF moved
<1> QED
  BY <1>2, <1>3 DEF TypeOK

\* What a step of call c does to the calls, action by action.
LEMMA StepFrame ==
  ASSUME TypeOK, NEW c \in Calls, Step(c)
  PROVE  /\ call' \in [Calls -> Call]
         /\ \A d \in Calls \ {c} : call'[d] = call[d]
         /\ call[c].pc \notin {"committed", "rejected"}
         /\ call'[c].user = call[c].user /\ call'[c].kind = call[c].kind
         /\ call[c].pc = "reserved" => /\ call'[c].period = call[c].period
                                      /\ call'[c].row = call[c].row
         /\ call'[c].pc = "reserved" => Reserve(c)
         /\ call'[c].pc = "committed" => Commit(c)
         /\ call'[c].pc = "rejected" => Reject(c)
         /\ call'[c].plan = call[c].plan \/ (ResolveCaps(c) /\ call[c].pc = "arrived")
         /\ call[c].pc \in {"arrived", "failed"} => SkipGuard(c) \/ ResolveCaps(c)
         /\ UNCHANGED <<plan, period>>
         /\ counter' = counter \/ Commit(c)
<1>0. /\ {"guarded", "failed", "refused", "checked", "committed", "rejected", "aborted"}
            \subseteq Steps
      /\ AfterAssets(c) \in {"checked", "guarded"}
      /\ call[c] \in Call
  BY DEF Steps, AfterAssets, TypeOK
<1>1. CASE SkipGuard(c)
  BY <1>0, <1>1, GotoFrame DEF SkipGuard
<1>2. CASE ResolveCaps(c)
  <2>1. CASE plan[call[c].user] # "none"
    <3> DEFINE held == [call[c] EXCEPT !.pc = "resolved", !.plan = plan[call[c].user]]
    <3>1. plan[call[c].user] \in Plans \cup {"none"}
      BY <1>0 DEF TypeOK, Call
    <3>2. /\ held \in Call /\ held.pc = "resolved"
          /\ held.user = call[c].user /\ held.kind = call[c].kind
      BY <1>0, <3>1 DEF Call, Steps
    <3>3. call' = [call EXCEPT ![c] = held]
      BY <1>2, <2>1 DEF ResolveCaps
    <3> HIDE DEF held
    <3> QED
      BY <1>2, <3>2, <3>3 DEF ResolveCaps, TypeOK
  <2>2. CASE plan[call[c].user] = "none"
    BY <1>0, <1>2, <2>2, GotoFrame DEF ResolveCaps
  <2> QED
    BY <2>1, <2>2
<1>3. CASE GuardScan(c)
  <2>1. Goto(c, "refused") \/ Goto(c, "guarded")
    BY <1>3 DEF GuardScan
  <2> QED
    BY <1>0, <1>3, <2>1, GotoFrame DEF GuardScan
<1>4. CASE CountAssets(c)
  <2>1. CASE Goto(c, "refused") \/ Goto(c, AfterAssets(c))
    BY <1>0, <1>4, <2>1, GotoFrame DEF CountAssets
  <2>2. CASE call' = [call EXCEPT ![c].pc = "counted",
                        ![c].assets = Cardinality(RegisteredAssets(call[c].user))]
    <3> DEFINE held == [call[c] EXCEPT !.pc = "counted",
                          !.assets = Cardinality(RegisteredAssets(call[c].user))]
    <3>1. Cardinality(RegisteredAssets(call[c].user)) \in Nat
      BY RegisteredAssetsFinite
    <3>2. /\ held \in Call /\ held.pc = "counted" /\ held.plan = call[c].plan
          /\ held.user = call[c].user /\ held.kind = call[c].kind
      BY <1>0, <3>1 DEF Call, Steps
    <3>3. call' = [call EXCEPT ![c] = held]
      BY <2>2
    <3> HIDE DEF held
    <3> QED
      BY <1>4, <3>2, <3>3 DEF CountAssets, TypeOK
  <2> QED
    BY <1>4, <2>1, <2>2 DEF CountAssets
<1>5. CASE FindAsset(c)
  <2>1. Goto(c, "refused") \/ Goto(c, AfterAssets(c))
    BY <1>5 DEF FindAsset
  <2> QED
    BY <1>0, <1>5, <2>1, GotoFrame DEF FindAsset
<1>6. CASE CountPentests(c)
  <2>1. Goto(c, "refused") \/ Goto(c, "guarded")
    BY <1>6 DEF CountPentests
  <2> QED
    BY <1>0, <1>6, <2>1, GotoFrame DEF CountPentests
<1>7. CASE StartUpsert(c)
  <2> DEFINE held == [call[c] EXCEPT !.pc = "waiting", !.period = period]
  <2>1. /\ held \in Call /\ held.pc = "waiting" /\ held.plan = call[c].plan
        /\ held.user = call[c].user /\ held.kind = call[c].kind
    BY <1>0 DEF TypeOK, Call, Steps
  <2>2. call' = [call EXCEPT ![c] = held]
    BY <1>7 DEF StartUpsert
  <2> HIDE DEF held
  <2> QED
    BY <1>7, <2>1, <2>2 DEF StartUpsert, TypeOK
<1>8. CASE Reserve(c)
  <2> DEFINE row == Incremented(counter[call[c].user][call[c].period], call[c].kind)
             held == [call[c] EXCEPT !.pc = "reserved", !.row = row]
  <2>1. counter[call[c].user][call[c].period] \in CounterRow
    BY <1>0 DEF TypeOK, Call
  <2>2. row \in CounterRow
    BY <2>1, IncrementedType
  <2>3. call' = [call EXCEPT ![c] = held]
    BY <1>8 DEF Reserve
  <2> HIDE DEF row
  <2>4. /\ held \in Call /\ held.pc = "reserved" /\ held.plan = call[c].plan
        /\ held.user = call[c].user /\ held.kind = call[c].kind
    BY <1>0, <2>2 DEF Call, Steps
  <2> HIDE DEF held
  <2> QED
    BY <1>8, <2>3, <2>4 DEF Reserve, TypeOK
<1>9. CASE Reject(c)
  BY <1>0, <1>9, GotoFrame DEF Reject
<1>10. CASE Commit(c)
  BY <1>0, <1>10, GotoFrame DEF Commit
<1>11. CASE Abort(c)
  BY <1>0, <1>11, GotoFrame DEF Abort
<1> QED
  BY <1>1, <1>2, <1>3, <1>4, <1>5, <1>6, <1>7, <1>8, <1>9, <1>10, <1>11 DEF Step

LEMMA NextType == TypeOK /\ [Next]_vars => TypeOK'
<1> SUFFICES ASSUME TypeOK, [Next]_vars PROVE TypeOK'
  OBVIOUS
<1>1. ASSUME NEW c \in Calls, Step(c) PROVE TypeOK'
  <2>1. CASE counter' = counter
    BY <1>1, <2>1, StepFrame DEF TypeOK
  <2>2. CASE Commit(c)
    BY <1>1, <2>2, StepFrame DEF Commit, TypeOK, Call
  <2> QED
    BY <1>1, <2>1, <2>2, StepFrame
<1>2. ASSUME NEW u \in Users, NEW p \in Plans, ChangePlan(u, p) PROVE TypeOK'
  BY <1>2 DEF ChangePlan, TypeOK
<1>3. CASE NextMonth
  BY <1>3, PeriodAssumption DEF NextMonth, Periods, TypeOK
<1>4. CASE UNCHANGED vars
  BY <1>4 DEF vars, TypeOK
<1> QED
  BY <1>1, <1>2, <1>3, <1>4 DEF Next

\* Every reachable state is well typed.
THEOREM TypeCorrect == Spec => []TypeOK
BY InitType, NextType, PTL DEF Spec

-----------------------------------------------------------------------------
\* What no step does to a call: change its user or kind, or touch the plan,
\* month and row of one that has reserved; nor does it take back an outcome.
LEMMA CallFrame ==
  ASSUME TypeOK, [Next]_vars, NEW d \in Calls
  PROVE  /\ call'[d].user = call[d].user /\ call'[d].kind = call[d].kind
         /\ call[d].pc \in {"reserved", "committed", "rejected"} =>
              /\ call'[d].plan = call[d].plan
              /\ call'[d].period = call[d].period
              /\ call'[d].row = call[d].row
         /\ call[d].pc \in {"committed", "rejected"} => call'[d].pc = call[d].pc
<1>1. ASSUME NEW c \in Calls, Step(c)
      PROVE  /\ c # d => call'[d] = call[d]
             /\ call[c].pc \notin {"committed", "rejected"}
             /\ call'[c].user = call[c].user /\ call'[c].kind = call[c].kind
             /\ call[c].pc = "reserved" =>
                  /\ call'[c].plan = call[c].plan
                  /\ call'[c].period = call[c].period
                  /\ call'[c].row = call[c].row
  BY <1>1, StepFrame
<1>2. ASSUME UNCHANGED call
      PROVE  call'[d] = call[d]
  BY <1>2
<1> QED
  BY <1>1, <1>2 DEF Next, ChangePlan, NextMonth, vars

\* Steps other than Commit change neither the counters nor what they count.
LEMMA QuietStep ==
  ASSUME TypeOK, [Next]_vars, ~ \E c \in Calls : Commit(c)
  PROVE  /\ counter' = counter
         /\ \A u \in Users, p \in Periods, col \in Columns :
              Counted(u, p, col)' = Counted(u, p, col)
<1>1. counter' = counter
  BY StepFrame DEF Next, ChangePlan, NextMonth, vars
<1>2. ASSUME NEW d \in Calls
      PROVE  call'[d].pc = "committed" <=> call[d].pc = "committed"
  <2>1. ASSUME NEW c \in Calls, Step(c)
        PROVE  call'[d].pc = "committed" <=> call[d].pc = "committed"
    BY <2>1, StepFrame
  <2> QED
    BY <2>1 DEF Next, ChangePlan, NextMonth, vars
<1>3. ASSUME NEW u \in Users, NEW p \in Periods, NEW col \in Columns
      PROVE  Counted(u, p, col)' = Counted(u, p, col)
  BY <1>2, CallFrame DEF Counted
<1> QED
  BY <1>1, <1>3

\* Commit(c) adds c to exactly the sets its kind counts in.
LEMMA CommitStep ==
  ASSUME TypeOK, NEW c \in Calls, Commit(c),
         NEW u \in Users, NEW p \in Periods, NEW col \in Columns
  PROVE  /\ c \notin Counted(u, p, col)
         /\ Counted(u, p, col)' =
              IF u = call[c].user /\ p = call[c].period /\ col \in Increments(call[c].kind)
              THEN Counted(u, p, col) \cup {c}
              ELSE Counted(u, p, col)
<1>1. /\ call'[c].pc = "committed" /\ call[c].pc = "reserved"
      /\ call'[c].user = call[c].user /\ call'[c].kind = call[c].kind
      /\ call'[c].period = call[c].period
  BY DEF Commit, Goto, TypeOK, Call
<1>2. \A d \in Calls \ {c} : call'[d] = call[d]
  BY DEF Commit, Goto, TypeOK
<1> QED
  BY <1>1, <1>2 DEF Counted

-----------------------------------------------------------------------------
LEMMA InitInv == Init => IInv
<1> SUFFICES ASSUME Init PROVE IInv
  OBVIOUS
<1>1. TypeOK
  BY InitType
<1>2. \A c \in Calls : call[c].pc = "arrived"
  BY DEF Init
<1>3. OneHolder /\ RowsAreFresh /\ RejectedOnlyWhenFull
  BY <1>2 DEF OneHolder, RowsAreFresh, RejectedOnlyWhenFull
<1>4. \A u \in Users, p \in Periods, col \in Columns : Counted(u, p, col) = {}
  BY <1>2 DEF Counted
<1>5. CapsRespected
  BY <1>4 DEF CapsRespected
<1>6. \A u \in Users, p \in Periods, col \in Columns : counter[u][p][col] = 0
  BY DEF Init, EmptyRow
<1>7. CounterIsLedger
  BY <1>4, <1>6, FS_EmptySet DEF CounterIsLedger
<1>8. CheckedCallsHavePlans
  BY <1>2 DEF CheckedCallsHavePlans
<1> QED
  BY <1>1, <1>3, <1>5, <1>7, <1>8 DEF IInv

LEMMA NextCheckedCallsHavePlans ==
  ASSUME TypeOK, CheckedCallsHavePlans, [Next]_vars
  PROVE  CheckedCallsHavePlans'
<1>1. ASSUME NEW d \in Calls, call'[d].pc = "rejected" PROVE d \in Enforced
  <2>1. call[d].pc = "rejected" \/ Reject(d)
    <3>1. ASSUME NEW c \in Calls, Step(c) PROVE call[d].pc = "rejected" \/ Reject(d)
      BY <1>1, <3>1, StepFrame
    <3> QED
      BY <1>1, <3>1 DEF Next, ChangePlan, NextMonth, vars
  <2> QED
    BY <2>1 DEF Reject, CheckedCallsHavePlans
<1>2. ASSUME NEW d \in Calls, d \in Enforced, call'[d].pc \notin {"arrived", "failed"}
      PROVE  call'[d].plan \in Plans
  <2>0. call[d].pc \notin {"arrived", "failed"} => call[d].plan \in Plans
    BY <1>2 DEF CheckedCallsHavePlans
  <2>1. CASE ResolveCaps(d)
    BY <1>2, <2>1 DEF ResolveCaps, Goto, TypeOK, Call
  <2>2. ASSUME NEW c \in Calls, Step(c), ~ResolveCaps(d)
        PROVE  call'[d].plan \in Plans
    <3>1. call'[d].plan = call[d].plan
      BY <2>2, StepFrame
    <3>2. call[d].pc \notin {"arrived", "failed"}
      BY <1>2, <2>2, StepFrame DEF SkipGuard
    <3> QED
      BY <2>0, <3>1, <3>2
  <2>3. ASSUME UNCHANGED call PROVE call'[d].plan \in Plans
    BY <1>2, <2>0, <2>3
  <2> QED
    BY <2>1, <2>2, <2>3 DEF Next, ChangePlan, NextMonth, vars
<1> QED
  BY <1>1, <1>2 DEF CheckedCallsHavePlans

LEMMA NextOneHolder ==
  ASSUME TypeOK, OneHolder, [Next]_vars
  PROVE  OneHolder'
<1> USE DEF TypeOK, Call
<1>1. ASSUME NEW c \in Calls, Reserve(c) PROVE OneHolder'
  <2>1. \A d \in Calls : call[d].pc = "reserved" =>
            ~(call[d].user = call[c].user /\ call[d].period = call[c].period)
    BY <1>1 DEF Reserve, Locked
  <2>2. /\ call'[c].user = call[c].user /\ call'[c].period = call[c].period
        /\ \A d \in Calls \ {c} : call'[d] = call[d]
    BY <1>1 DEF Reserve
  <2> QED
    BY <2>1, <2>2 DEF OneHolder
<1>2. ASSUME ~ \E c \in Calls : Reserve(c) PROVE OneHolder'
  <2>1. \A d \in Calls : call'[d].pc = "reserved" => call[d].pc = "reserved"
    <3>1. ASSUME NEW c \in Calls, Step(c), NEW d \in Calls
          PROVE  call'[d].pc = "reserved" => call[d].pc = "reserved"
      BY <1>2, <3>1, StepFrame
    <3> QED
      BY <3>1 DEF Next, ChangePlan, NextMonth, vars
  <2> QED
    BY <2>1, CallFrame DEF OneHolder
<1> QED
  BY <1>1, <1>2

LEMMA NextRowsAreFresh ==
  ASSUME TypeOK, OneHolder, RowsAreFresh, [Next]_vars
  PROVE  RowsAreFresh'
<1> USE DEF TypeOK, Call
<1> SUFFICES ASSUME NEW d \in Calls, call'[d].pc = "reserved"
             PROVE  call'[d].row = Incremented(counter'[call'[d].user][call'[d].period],
                                               call'[d].kind)
  BY DEF RowsAreFresh, Incremented
<1>1. CASE Reserve(d)
  BY <1>1 DEF Reserve
<1>2. CASE call[d].pc = "reserved"
  <2>1. /\ call[d].row = Incremented(counter[call[d].user][call[d].period], call[d].kind)
        /\ call'[d].row = call[d].row /\ call'[d].kind = call[d].kind
        /\ call'[d].user = call[d].user /\ call'[d].period = call[d].period
    BY <1>2, CallFrame DEF RowsAreFresh
  <2>2. counter'[call[d].user][call[d].period] = counter[call[d].user][call[d].period]
    <3>1. ASSUME NEW c \in Calls, Commit(c)
          PROVE  counter'[call[d].user][call[d].period] = counter[call[d].user][call[d].period]
      <4>1. c # d /\ call[c].pc = "reserved"
        BY <3>1 DEF Commit, Goto
      <4>2. call[c].user # call[d].user \/ call[c].period # call[d].period
        BY <1>2, <4>1 DEF OneHolder
      <4> QED
        BY <3>1, <4>2 DEF Commit
    <3> QED
      BY <3>1, QuietStep
  <2> QED
    BY <2>1, <2>2
<1>3. Reserve(d) \/ call[d].pc = "reserved"
  <2>1. ASSUME NEW c \in Calls, Step(c)
        PROVE  Reserve(d) \/ call[d].pc = "reserved"
    BY <2>1, StepFrame
  <2> QED
    BY <2>1 DEF Next, ChangePlan, NextMonth, vars
<1> QED
  BY <1>1, <1>2, <1>3

-----------------------------------------------------------------------------
\* A commit moves every count of its month by what it adds to the ledger.
LEMMA CommitCounts ==
  ASSUME TypeOK, RowsAreFresh, CounterIsLedger, NEW c \in Calls, Commit(c),
         NEW u \in Users, NEW p \in Periods, NEW col \in Columns
  PROVE  /\ counter'[u][p][col] = Cardinality(Counted(u, p, col)')
         /\ u = call[c].user /\ p = call[c].period /\ col \in Increments(call[c].kind)
              => Cardinality(Counted(u, p, col)') = call[c].row[col]
<1> DEFINE hit == u = call[c].user /\ p = call[c].period
<1>1. counter[u][p][col] = Cardinality(Counted(u, p, col))
  BY DEF CounterIsLedger
<1>2. hit => call[c].row = Incremented(counter[u][p], call[c].kind)
  BY DEF RowsAreFresh, Commit
<1>3. counter'[u][p][col] = IF hit THEN call[c].row[col] ELSE counter[u][p][col]
  BY DEF Commit, TypeOK
<1>4. Cardinality(Counted(u, p, col) \cup {c}) = Cardinality(Counted(u, p, col)) + 1
  BY CommitStep, CountedFinite, FS_AddElement
<1>5. CASE hit /\ col \in Increments(call[c].kind)
  <2>1. Counted(u, p, col)' = Counted(u, p, col) \cup {c}
    BY <1>5, CommitStep
  <2>2. call[c].row[col] = counter[u][p][col] + 1
    BY <1>2, <1>5 DEF Incremented
  <2> QED
    BY <1>1, <1>3, <1>4, <1>5, <2>1, <2>2
<1>6. CASE ~(hit /\ col \in Increments(call[c].kind))
  <2>1. Counted(u, p, col)' = Counted(u, p, col)
    BY <1>6, CommitStep
  <2>2. hit => call[c].row[col] = counter[u][p][col]
    BY <1>2, <1>6 DEF Incremented
  <2> QED
    BY <1>1, <1>3, <1>6, <2>1, <2>2
<1> QED
  BY <1>5, <1>6

LEMMA NextCounterIsLedger ==
  ASSUME TypeOK, RowsAreFresh, CounterIsLedger, [Next]_vars
  PROVE  CounterIsLedger'
<1>1. ASSUME NEW c \in Calls, Commit(c) PROVE CounterIsLedger'
  BY <1>1, CommitCounts DEF CounterIsLedger
<1>2. ASSUME ~ \E c \in Calls : Commit(c) PROVE CounterIsLedger'
  BY <1>2, QuietStep DEF CounterIsLedger
<1> QED
  BY <1>1, <1>2

LEMMA NextCapsRespected ==
  ASSUME TypeOK, CheckedCallsHavePlans, RowsAreFresh, CounterIsLedger, CapsRespected,
         [Next]_vars
  PROVE  CapsRespected'
<1> SUFFICES ASSUME NEW u \in Users, NEW p \in Periods, NEW col \in Columns,
                    (Counted(u, p, col) \cap Enforced)' # {}
             PROVE  \E d \in (Counted(u, p, col) \cap Enforced)' :
                      \/ Caps[call'[d].plan][col] = Unlimited
                      \/ Cardinality((Counted(u, p, col) \cap Enforced)')
                           <= Caps[call'[d].plan][col]
  BY DEF CapsRespected
<1> DEFINE checked == Counted(u, p, col) \cap Enforced
<1>1. CASE checked' = checked
  <2>1. PICK d \in checked : \/ Caps[call[d].plan][col] = Unlimited
                             \/ Cardinality(checked) <= Caps[call[d].plan][col]
    BY <1>1 DEF CapsRespected
  <2>2. d \in Calls /\ call'[d].plan = call[d].plan
    BY CallFrame DEF Counted
  <2> QED
    BY <1>1, <2>1, <2>2
<1>2. ASSUME NEW c \in Calls, Commit(c), checked' # checked
      PROVE  \E d \in checked' : \/ Caps[call'[d].plan][col] = Unlimited
                                 \/ Cardinality(checked') <= Caps[call'[d].plan][col]
  <2>1. /\ c \in Counted(u, p, col)' /\ c \in Enforced
        /\ u = call[c].user /\ p = call[c].period /\ col \in Increments(call[c].kind)
    BY <1>2, CommitStep
  <2>2. Cardinality(Counted(u, p, col)') = call[c].row[col]
    BY <1>2, <2>1, CommitCounts
  <2>3. Caps[call[c].plan][col] = Unlimited \/ ~(call[c].row[col] > Caps[call[c].plan][col])
    BY <1>2, <2>1 DEF Commit, Exceeds
  <2>4. call[c].row[col] \in Nat /\ Caps[call[c].plan][col] \in Int
    <3>1. call[c].plan \in Plans
      BY <1>2, <2>1 DEF CheckedCallsHavePlans, Commit
    <3>2. call[c].row \in CounterRow
      BY DEF TypeOK, Call
    <3> QED
      BY <3>1, <3>2, CapsType DEF CounterRow, CapNames, Unlimited
  <2>5. call'[c].plan = call[c].plan
    BY <1>2 DEF Commit, Goto, TypeOK, Call
  <2>6. /\ Cardinality(checked') \in Nat
        /\ Cardinality(checked') <= Cardinality(Counted(u, p, col)')
    <3>1. Counted(u, p, col)' \subseteq Calls /\ checked' \subseteq Counted(u, p, col)'
      BY DEF Counted
    <3> QED
      BY <3>1, FS_Subset, FS_CardinalityType, CallsFinite
  <2>7. \/ Caps[call'[c].plan][col] = Unlimited
        \/ Cardinality(checked') <= Caps[call'[c].plan][col]
    BY <2>2, <2>3, <2>4, <2>5, <2>6
  <2> QED
    BY <2>1, <2>7
<1> QED
  BY <1>1, <1>2, QuietStep

LEMMA NextRejectedOnlyWhenFull ==
  ASSUME TypeOK, CheckedCallsHavePlans, RowsAreFresh, CounterIsLedger, RejectedOnlyWhenFull,
         [Next]_vars
  PROVE  RejectedOnlyWhenFull'
<1> DEFINE Full(c, col) == /\ Caps[call[c].plan][col] # Unlimited
                           /\ Cardinality(Counted(call[c].user, call[c].period, col))
                                >= Caps[call[c].plan][col]
<1> SUFFICES ASSUME NEW c \in Calls, call'[c].pc = "rejected"
             PROVE  \E col \in Increments(call'[c].kind) : Full(c, col)'
  BY DEF RejectedOnlyWhenFull
<1>0. ASSUME NEW k PROVE Increments(k) \subseteq Columns
  BY DEF Increments, Columns
<1>1. call[c].pc = "rejected" \/ Reject(c)
  <2>1. ASSUME NEW e \in Calls, Step(e) PROVE call[c].pc = "rejected" \/ Reject(c)
    BY <2>1, StepFrame
  <2> QED
    BY <2>1 DEF Next, ChangePlan, NextMonth, vars
<1>2. /\ call[c].user \in Users /\ call[c].period \in Periods
      /\ call'[c].user = call[c].user /\ call'[c].kind = call[c].kind
      /\ call'[c].period = call[c].period /\ call'[c].plan = call[c].plan
      /\ \A col \in Columns : Caps[call[c].plan][col] \in Int
  <2>1. call[c].plan \in Plans
    BY <1>1 DEF CheckedCallsHavePlans, Reject
  <2>2. \A col \in Columns : Caps[call[c].plan][col] \in Int
    BY <2>1, CapsType DEF CapNames, Unlimited
  <2>3. call[c].user \in Users /\ call[c].period \in Periods
    BY DEF TypeOK, Call
  <2> QED
    BY <1>1, <2>2, <2>3, CallFrame DEF Reject
<1>3. \E col \in Increments(call[c].kind) : Full(c, col)
  <2>1. CASE call[c].pc = "rejected"
    BY <2>1 DEF RejectedOnlyWhenFull
  <2>2. CASE Reject(c)
    <3>1. PICK col \in Increments(call[c].kind) :
            Caps[call[c].plan][col] # Unlimited /\ call[c].row[col] > Caps[call[c].plan][col]
      BY <2>2 DEF Reject, Exceeds
    <3>2. col \in Columns
      BY <1>0
    <3>3. call[c].row[col] = counter[call[c].user][call[c].period][col] + 1
      BY <2>2, <3>2 DEF Reject, RowsAreFresh, Incremented
    <3>4. counter[call[c].user][call[c].period][col]
            = Cardinality(Counted(call[c].user, call[c].period, col))
      BY <1>2, <3>2 DEF CounterIsLedger
    <3>5. Cardinality(Counted(call[c].user, call[c].period, col)) \in Nat
      BY CountedFinite
    <3> QED
      BY <1>2, <3>1, <3>2, <3>3, <3>4, <3>5
  <2> QED
    BY <1>1, <2>1, <2>2
<1>4. PICK col \in Increments(call[c].kind) : Full(c, col)
  BY <1>3
<1>5. col \in Columns
  BY <1>0
<1>6. Counted(call[c].user, call[c].period, col)
        \subseteq Counted(call[c].user, call[c].period, col)'
  BY <1>2, <1>5, QuietStep, CommitStep
<1>7. /\ IsFiniteSet(Counted(call[c].user, call[c].period, col)')
      /\ Cardinality(Counted(call[c].user, call[c].period, col)') \in Nat
  <2>1. Counted(call[c].user, call[c].period, col)' \subseteq Calls
    BY DEF Counted
  <2> QED
    BY <2>1, FS_Subset, FS_CardinalityType, CallsFinite
<1>8. Cardinality(Counted(call[c].user, call[c].period, col))
        <= Cardinality(Counted(call[c].user, call[c].period, col)')
  BY <1>6, <1>7, FS_Subset
<1>9. Cardinality(Counted(call[c].user, call[c].period, col)) \in Nat
  BY CountedFinite
<1>10. Full(c, col)'
  BY <1>2, <1>4, <1>5, <1>7, <1>8, <1>9
<1> QED
  BY <1>2, <1>10

-----------------------------------------------------------------------------
LEMMA NextInv == IInv /\ [Next]_vars => IInv'
<1> SUFFICES ASSUME IInv, [Next]_vars PROVE IInv'
  OBVIOUS
<1> QED
  BY NextType, NextCheckedCallsHavePlans, NextOneHolder, NextRowsAreFresh, NextCounterIsLedger,
     NextCapsRespected, NextRejectedOnlyWhenFull DEF IInv

LEMMA InvHolds == Spec => []IInv
BY InitInv, NextInv, PTL DEF Spec

\* For every number of concurrent calls, the committed counters are exactly the
\* numbers of requests and scans that committed (usage_counters, the upsert of
\* plan-caps.service.ts and the rollback of the transactions around it).
THEOREM CountersAreExact == Spec => []CounterIsLedger
<1>1. IInv => CounterIsLedger
  BY DEF IInv
<1> QED
  BY <1>1, InvHolds, PTL

\* However many calls race and whatever the caps, no month admits more than a
\* cap allows (the TOCTOU defence atomicIncrementAndCheck is there for).
THEOREM CapsNeverExceeded == Spec => []CapsRespected
<1>1. IInv => CapsRespected
  BY DEF IInv
<1> QED
  BY <1>1, InvHolds, PTL

\* A PLAN_CAP_EXCEEDED answer from the transaction is never spurious.
THEOREM RejectionsAreJustified == Spec => []RejectedOnlyWhenFull
<1>1. IInv => RejectedOnlyWhenFull
  BY DEF IInv
<1> QED
  BY <1>1, InvHolds, PTL

-----------------------------------------------------------------------------
\* The counters of UsageQuota implement the abstract ledger: a commit is an
\* admission of the committing call's kind under its plan, every other step of
\* the code, rollbacks included, leaves the ledger alone (createAndEnqueueJob,
\* RequestsService.create).
THEOREM ImplementsLedger == Spec => LedgerSpec
<1>1. Init => Ledger!Init
  BY DEF Init, Ledger!Init, EmptyRow
<1>2. ASSUME IInv, [Next]_vars PROVE [Ledger!Next]_counter
  <2>1. ASSUME NEW c \in Calls, Commit(c) PROVE Ledger!Next
    <3> DEFINE u == call[c].user
               p == call[c].period
               k == call[c].kind
    <3>1. /\ u \in Users /\ p \in Periods /\ k \in Kinds
          /\ call[c].row \in CounterRow /\ counter[u][p] \in CounterRow
      BY <1>2 DEF IInv, TypeOK, Call
    <3>2. call[c].row = Incremented(counter[u][p], k)
      BY <1>2, <2>1 DEF IInv, RowsAreFresh, Commit
    <3>3. call[c].row = Ledger!After(u, p, k)
      BY <3>1, <3>2 DEF Incremented, Ledger!After, CounterRow
    <3>4. ASSUME Enforced = Calls
          PROVE  \E pl \in Plans : Ledger!WithinCaps(call[c].row, k, pl)
      <4>1. call[c].plan \in Plans
        BY <1>2, <2>1, <3>4 DEF IInv, CheckedCallsHavePlans, Commit
      <4>2. Increments(k) \subseteq Columns
        BY DEF Increments, Columns
      <4>3. \A col \in Increments(k) : call[c].row[col] \in Nat
                                       /\ Caps[call[c].plan][col] \in Int
        BY <3>1, <4>1, <4>2, CapsType DEF CounterRow, CapNames, Unlimited
      <4>4. Ledger!WithinCaps(call[c].row, k, call[c].plan)
        BY <2>1, <3>4, <4>3 DEF Commit, Exceeds, Ledger!WithinCaps, Unlimited
      <4> QED
        BY <4>1, <4>4
    <3>5. counter' = [counter EXCEPT ![u][p] = Ledger!After(u, p, k)]
      BY <2>1, <3>3 DEF Commit
    <3>6. Ledger!Admit(u, p, k)
      BY <3>3, <3>4, <3>5 DEF Ledger!Admit
    <3> QED
      BY <3>1, <3>6 DEF Ledger!Next
  <2> QED
    BY <1>2, <2>1, QuietStep DEF IInv
<1> QED
  BY <1>1, <1>2, InvHolds, PTL DEF Spec, LedgerSpec, Ledger!Spec
=============================================================================

--------------------------- MODULE MCScanResults ----------------------------
(***************************************************************************)
(* ScanResults for TLC: two dedup keys and two severities, so that batches *)
(* report the same finding again, as severe or not.                        *)
(***************************************************************************)
EXTENDS ScanResults, TLC

OneFinding == [1..1 -> Findings]

\* One severe finding, or two of different keys, the second one more severe.
OneOrTwoFindings ==
    {one \in OneFinding : one[1].severity = MaxRank}
      \cup {pair \in [1..2 -> Findings] :
              /\ pair[1].key # pair[2].key
              /\ pair[1].severity < pair[2].severity}

OnlyNull == {Unset}

NullOrZero == {Unset, 0}

ResultsSymmetry == Permutations(Keys) \cup Permutations(Batches)
=============================================================================

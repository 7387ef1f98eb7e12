----------------------------- MODULE MCSessions -----------------------------
(***************************************************************************)
(* Sessions for TLC: two logins, refreshes that may present the same       *)
(* token, a logout and a reset, and a short clock.                         *)
(***************************************************************************)
EXTENDS Sessions, TLC

CallSymmetry == Permutations(Logins) \cup Permutations(Refreshes) \cup Permutations(Resets)
=============================================================================

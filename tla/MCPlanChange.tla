---------------------------- MODULE MCPlanChange ----------------------------
(***************************************************************************)
(* PlanChange for TLC: a backfilled user, another address, and a few calls *)
(* of each kind.                                                           *)
(***************************************************************************)
EXTENDS PlanChange, TLC

CallSymmetry ==
    Permutations(Registers) \cup Permutations(Changes) \cup Permutations(Approves)
=============================================================================

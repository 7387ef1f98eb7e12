------------------------------ MODULE MCReports -----------------------------
(***************************************************************************)
(* Reports for TLC: up to two calls of each kind, a few of them arriving.  *)
(***************************************************************************)
EXTENDS Reports, TLC

CallSymmetry ==
    UNION {Permutations(S) : S \in {Patches, Updates, Regenerations, Downloads}}
=============================================================================

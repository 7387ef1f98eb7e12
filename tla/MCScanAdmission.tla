-------------------------- MODULE MCScanAdmission ---------------------------
(***************************************************************************)
(* ScanAdmission for TLC: a few requests of each kind around one or two    *)
(* hostnames.                                                              *)
(***************************************************************************)
EXTENDS ScanAdmission, TLC

RequestSymmetry ==
    Permutations(Adds) \cup Permutations(Verifies) \cup Permutations(Hosts)
=============================================================================

----------------------------- MODULE MCAutoScan -----------------------------
(***************************************************************************)
(* AutoScan for TLC: one run of two scanners and a third one in tier 2,    *)
(* and two decisions that may be about the same finding.                   *)
(***************************************************************************)
EXTENDS AutoScan
=============================================================================

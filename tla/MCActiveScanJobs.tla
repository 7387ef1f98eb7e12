-------------------------- MODULE MCActiveScanJobs --------------------------
(***************************************************************************)
(* ActiveScanJobs for TLC: two workers, so that a redelivered message puts *)
(* both on the one job, and a cancel request that overlaps their calls.    *)
(***************************************************************************)
EXTENDS ActiveScanJobs
=============================================================================

----------------------------- MODULE MCEfsJobs -------------------------------
(* Instances of EfsJobs for TLC. *)
EXTENDS EfsJobs

CONSTANTS j1, j2, w1, w2, p1
=============================================================================

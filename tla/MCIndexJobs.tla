---------------------------- MODULE MCIndexJobs ----------------------------
(* Small instances of IndexJobs for TLC. *)
EXTENDS IndexJobs, TLC

=============================================================================

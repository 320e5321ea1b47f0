------------------------------ MODULE MCGcJobs ------------------------------
(* Small instances of GcJobs for TLC. *)
EXTENDS GcJobs, TLC

============================================================================

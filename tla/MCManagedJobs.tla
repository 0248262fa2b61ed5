--------------------------- MODULE MCManagedJobs ---------------------------
(* Small instances of ManagedJobs. *)
EXTENDS ManagedJobs, TLC

=============================================================================

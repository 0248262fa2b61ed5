--------------------------- MODULE MCLeaderLease ---------------------------
(* Small instances of LeaderLease. *)
EXTENDS LeaderLease, TLC

=============================================================================

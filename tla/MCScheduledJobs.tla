--------------------------- MODULE MCScheduledJobs ---------------------------
(* Small instances of ScheduledJobs for TLC.                               *)
EXTENDS ScheduledJobs, TLC

CONSTANTS j1, j2, w1, w2

Symmetry == Permutations({j1, j2}) \cup Permutations({w1, w2})
=============================================================================

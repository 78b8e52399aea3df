--------------------------- MODULE MCPendingPlans ---------------------------
(* Small instances of PendingPlans for TLC.                                *)
EXTENDS PendingPlans, TLC

CONSTANTS r1, r2, r3, r4, p1, p2

Symmetry == Permutations({r1, r2, r3, r4}) \cup Permutations({p1, p2})
=============================================================================

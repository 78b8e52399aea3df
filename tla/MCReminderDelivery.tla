------------------------- MODULE MCReminderDelivery -------------------------
(* Small instances of ReminderDelivery for TLC.                            *)
EXTENDS ReminderDelivery, TLC

CONSTANTS j1, j2, w1, w2

Symmetry == Permutations({j1, j2}) \cup Permutations({w1, w2})
=============================================================================

-------------------------- MODULE MCConversationTurn --------------------------
(* Small instances of ConversationTurn for TLC.                            *)
EXTENDS ConversationTurn, TLC

CONSTANTS r1, r2, h1, h2, e1

Symmetry == Permutations({r1, r2}) \cup Permutations({h1, h2})
=============================================================================

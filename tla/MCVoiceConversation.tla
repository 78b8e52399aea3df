------------------------ MODULE MCVoiceConversation ------------------------
(* VoiceConversation with constants for TLC.                               *)
EXTENDS VoiceConversation, TLC

CONSTANTS t1, t2, c1, c2, v1, v2

Symmetry == Permutations(Turn) \cup Permutations(Clip) \cup Permutations(Voice)
=============================================================================

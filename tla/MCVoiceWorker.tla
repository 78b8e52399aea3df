---------------------------- MODULE MCVoiceWorker ----------------------------
(* Small instances of VoiceWorker for TLC.                                 *)
EXTENDS VoiceWorker, TLC

CONSTANTS c1, c2, c3, p1, p2, p3
=============================================================================

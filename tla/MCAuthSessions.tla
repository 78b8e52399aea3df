--------------------------- MODULE MCAuthSessions ---------------------------
(* AuthSessions on a small instance.                                       *)
EXTENDS AuthSessions

CONSTANTS r1, r2

MCRequest == {r1, r2}
=============================================================================

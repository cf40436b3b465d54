--------------------------- MODULE MCSimAuthReady ---------------------------
(* TLC instance of SimAuthReady. *)
EXTENDS SimAuthReady

CONSTANTS c1, c2, c3
=============================================================================

---------------------------- MODULE MCQmiClient ----------------------------
(* TLC instance of QmiClient. *)
EXTENDS QmiClient

CONSTANTS r1, r2
=============================================================================

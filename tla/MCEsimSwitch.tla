---------------------------- MODULE MCEsimSwitch ----------------------------
(* TLC instance of EsimSwitch: switches among two profiles of a card. *)
EXTENDS EsimSwitch

CONSTANTS a, b
=============================================================================

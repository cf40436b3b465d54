----------------------------- MODULE MCModemAT ------------------------------
(* TLC instance of ModemAT: two callers and two requests. *)
EXTENDS ModemAT

CONSTANTS c1, c2, r1, r2

TheKinds == [c \in {c1, c2} |-> IF c = c1 THEN {"normal"} ELSE {"high", "sms"}]
=============================================================================

---------------------------- MODULE MCQmiManager ----------------------------
(* TLC instances of QmiManager: one goroutine that starts the manager and      *)
(* connects, or one that starts and stops it and one that connects and         *)
(* disconnects.                                                                *)
EXTENDS QmiManager

CONSTANTS dev, api

StartConnect == [c \in Callers |-> {"StartCore", "Connect"}]
TwoCallers == [c \in Callers |-> IF c = dev THEN {"StartCore", "Stop"} ELSE {"Connect", "Disconnect"}]
=============================================================================

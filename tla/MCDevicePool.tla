---------------------------- MODULE MCDevicePool ----------------------------
(* TLC instance of DevicePool: a device, a few goroutines at a time. *)
EXTENDS DevicePool

CONSTANTS p1, p2, p3, g1, g2, g3, g4, g5
=============================================================================

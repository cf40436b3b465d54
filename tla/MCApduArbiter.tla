--------------------------- MODULE MCApduArbiter ---------------------------
(* TLC instance of ApduArbiter: the calls the program makes. *)
EXTENDS ApduArbiter, TLC

CONSTANTS c1, c2, c3

Call(type, class, mode, scope, channel, blocked) ==
    [leaseType |-> type, class |-> class, mode |-> mode, scope |-> scope,
     channel |-> channel, blocked |-> blocked]

\* An authentication on the whole device, APDUs on two logical channels, an
\* eSIM switch.
Auth    == Call("transport", "USIMAKA", "QMI", "exclusive", 0, {})
Write1  == Call("transport", "EUICCWrite", "QMI", "qmi_channel", 1, {})
Read2   == Call("transport", "EUICCRead", "QMI", "qmi_channel", 2, {})
Switch  == Call("barrier", "", "QMI", "", 0, {"USIMAKA", "SMSC"})
\* The older interfaces.
Session == Call("session", "", "AT", "", 0, {})
OneShot == Call("oneshot", "", "AT", "", 0, {})
\* A barrier that names no class.
Quiet   == Call("barrier", "Recovery", "AT", "", 0, {})

TransportCalls == {Auth, Write1, Read2, Switch}
MixedCalls == {Session, OneShot, Auth, Write1, Read2, Quiet}

Symmetry == Permutations({c1, c2, c3})
=============================================================================

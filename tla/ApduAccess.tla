----------------------------- MODULE ApduAccess -----------------------------
(***************************************************************************)
(* What the APDU arbiter of one device promises its callers, with no queue, *)
(* no priorities and no wake-ups: which leases and barriers may be out at   *)
(* the same time.  ApduArbiter implements this specification.               *)
(*                                                                         *)
(*   - a session or one-shot lease excludes transports and one another's    *)
(*     kind, a one-shot lease excludes everything;                          *)
(*   - an exclusive transport excludes every other lease, QMI transports    *)
(*     share the device up to a limit, one per logical channel;             *)
(*   - a barrier starts only on a device with no lease out, and while it is *)
(*     up no lease of a class it blocks is given.                           *)
(***************************************************************************)
EXTENDS Integers, FiniteSets

CONSTANTS
    Ticket,           \* every lease or barrier ticket there can be
    MaxSessions,      \* session leases out at once
    MaxQMITransports  \* QMI-channel transport leases out at once

VARIABLES leases, barriers

vars == <<leases, barriers>>

OfType(S, type) == {t \in S : t.leaseType = type}
QMIOnly(S) == {t \in OfType(S, "transport") : t.scope = "qmi_channel"}

(* t can join the leases that are out: anything can when none is, a session *)
(* can join sessions, a QMI channel other QMI channels.                      *)
Compatible(t, S) ==
    \/ S = {}
    \/ /\ t.leaseType = "session"
       /\ S = OfType(S, "session")
       /\ Cardinality(S) < MaxSessions
    \/ /\ t.leaseType = "transport" /\ t.scope = "qmi_channel"
       /\ S = QMIOnly(S)
       /\ Cardinality(S) < MaxQMITransports
       /\ \A u \in S : u.channel # t.channel

Init == leases = {} /\ barriers = {}

Lend(t) ==
    /\ t.kind = "lease"
    /\ Compatible(t, leases)
    /\ \A b \in barriers : t.class \notin b.blocked
    /\ leases' = leases \cup {t}
    /\ UNCHANGED barriers

(* A lease comes back: its holder released it or the watchdog took it. *)
Return(t) ==
    /\ t \in leases
    /\ leases' = leases \ {t}
    /\ UNCHANGED barriers

Raise(b) ==
    /\ b.kind = "barrier"
    /\ leases = {}
    /\ barriers' = barriers \cup {b}
    /\ UNCHANGED leases

Lower(b) ==
    /\ b \in barriers
    /\ barriers' = barriers \ {b}
    /\ UNCHANGED leases

Next == \E t \in Ticket : Lend(t) \/ Return(t) \/ Raise(t) \/ Lower(t)

Spec == Init /\ [][Next]_vars
=============================================================================

---------------------------- MODULE ApduArbiter ----------------------------
(***************************************************************************)
(* internal/apduarbiter/arbiter.go: the arbiter that decides who may talk   *)
(* to the SIM of one modem.  Callers are goroutines.  Every action is one   *)
(* critical section of a.mu; what a goroutine does between two of them      *)
(* (sleep in the select, use its lease) is where the others interleave.     *)
(*                                                                         *)
(* notifyC is closed and replaced by signalLocked.  A goroutine that sleeps *)
(* holds the channel it read in its last critical section, so "its channel  *)
(* is closed" is membership in the set `notified`.                          *)
(*                                                                         *)
(* Time is abstract: `aged` holds the tickets that have waited              *)
(* transportPriorityAging, `expired` the leases whose expiresAt has passed, *)
(* `fired` the leases whose watchdog callback is on its way to the mutex.   *)
(***************************************************************************)
EXTENDS Integers, Sequences, FiniteSets, SequencesExt

CONSTANTS
    Callers,           \* goroutines that use the arbiter
    Requests,          \* the calls they make (a subset of Request)
    MaxSessions,       \* Options.MaxSessions
    MaxQMITransports,  \* Options.MaxQMITransports
    MaxSeq,            \* bound: tickets handed out in a behaviour
    MaxTouches         \* bound: calls of Lease.Touch in a behaviour

Classes == {"EUICCWrite", "EUICCRead", "USIMAKA", "SMSC", "SwitchBarrier", "Recovery"}
LeaseTypes == {"session", "oneshot", "transport", "barrier"}
Scopes == {"exclusive", "qmi_channel"}

(* What a caller passes; "" is a field left empty. *)
Request == [leaseType : LeaseTypes, class : Classes \cup {""}, mode : {"AT", "QMI", "MBIM"},
            scope : Scopes \cup {""}, channel : Int, blocked : SUBSET (Classes \cup {""})]

Ticket == [id : Nat, leaseType : LeaseTypes, class : Classes, scope : Scopes,
           channel : Int, kind : {"lease", "barrier"}, blocked : SUBSET Classes]

NoTicket == [id |-> 0, leaseType |-> "session", class |-> "EUICCWrite",
             scope |-> "exclusive", channel |-> 0, kind |-> "lease", blocked |-> {}]

ASSUME ArbiterAssumption ==
    /\ Requests \subseteq Request
    /\ MaxSessions \in Nat \ {0}
    /\ MaxQMITransports \in Nat \ {0}
    /\ MaxSeq \in Nat
    /\ MaxTouches \in Nat

VARIABLES
    seq,               \* Arbiter.seq: the last ticket id handed out
    queue,             \* Arbiter.queue
    activeSessions,    \* the four fields of the same name; the pointer
    activeOneshot,     \*   activeOneshot is the set of what it points at
    activeTransports,
    activeBarriers,
    pc,                \* idle | waiting | idlewait | holding
    mine,              \* the ticket of the caller's current call
    notified,          \* sleeping callers whose notifyC has been closed
    aged,              \* ids that have waited transportPriorityAging
    expired,           \* ids of leases past expiresAt
    fired,             \* ids of leases whose releaseExpired is pending
    touches            \* calls of Touch so far

lent == <<activeSessions, activeOneshot, activeTransports, activeBarriers>>
timers == <<expired, fired, touches>>
vars == <<seq, queue, lent, pc, mine, notified, aged, timers>>

Leases == activeSessions \cup activeOneshot \cup activeTransports

-----------------------------------------------------------------------------
(* normalizeClass, normalizeTransportScope, normalizeRequest: what a call    *)
(* becomes before it is queued.                                              *)

(* Mutant: an empty class stays empty. *)
NormalClass_KeepsEmpty(class, leaseType) == class

NormalClass(class, leaseType) ==
    IF class # "" THEN class
    ELSE IF leaseType = "oneshot" THEN "USIMAKA" ELSE "EUICCWrite"

NormalScope(r) ==
    IF /\ r.leaseType = "transport" /\ r.scope = "qmi_channel"
       /\ r.mode = "QMI" /\ r.channel > 0
    THEN "qmi_channel" ELSE "exclusive"

BlockedBy(r) ==
    LET named == {NormalClass(c, "oneshot") : c \in r.blocked}
    IN  IF named = {} THEN {"USIMAKA", "SMSC"} ELSE named

LeaseTicket(r, n) ==
    [id |-> n, leaseType |-> r.leaseType, class |-> NormalClass(r.class, r.leaseType),
     scope |-> NormalScope(r), channel |-> r.channel, kind |-> "lease", blocked |-> {}]

BarrierTicket(r, n) ==
    [id |-> n, leaseType |-> "barrier",
     class |-> IF r.class = "" THEN "SwitchBarrier" ELSE r.class,
     scope |-> "exclusive", channel |-> r.channel, kind |-> "barrier",
     blocked |-> BlockedBy(r)]

TicketOf(r, n) == IF r.leaseType = "barrier" THEN BarrierTicket(r, n) ELSE LeaseTicket(r, n)

(* The tickets there can be within the bounds. *)
Tickets == {TicketOf(r, n) : r \in Requests, n \in 1..MaxSeq}

-----------------------------------------------------------------------------
(* The admission rules.  q is the queue at the moment of the decision.       *)

QMITransports == {t \in activeTransports : t.scope = "qmi_channel"}

(* Mutant: a barrier that is up blocks nobody. *)
isBlockedByActiveBarrier_Never(class) == FALSE

isBlockedByActiveBarrier(class) == \E b \in activeBarriers : class \in b.blocked

hasPendingBarrierAhead(t, q) ==
    \E i \in DOMAIN q :
        /\ q[i].kind = "barrier"
        /\ t.class \in q[i].blocked
        /\ \A j \in 1..i : q[j].id # t.id

canAcquireTransportNow(t) ==
    IF t.scope # "qmi_channel"
    THEN activeTransports = {}
    ELSE /\ activeTransports = QMITransports
         /\ Cardinality(QMITransports) < MaxQMITransports
         /\ \A u \in QMITransports : u.channel # t.channel

transportWaitGatesQueue(t) ==
    \/ t.scope # "qmi_channel"
    \/ activeTransports # QMITransports
    \/ Cardinality(QMITransports) >= MaxQMITransports

(* Mutant: the scan goes on past a barrier or a session. *)
EndsScan_OnlyAtTransports(t) ==
    /\ t.leaseType = "transport"
    /\ ~isBlockedByActiveBarrier(t.class)
    /\ ~canAcquireTransportNow(t)
    /\ transportWaitGatesQueue(t)

(* Where the scan of selectedTransportLocked breaks off. *)
EndsScan(t) ==
    \/ t.leaseType # "transport"
    \/ /\ ~isBlockedByActiveBarrier(t.class)
       /\ ~canAcquireTransportNow(t)
       /\ transportWaitGatesQueue(t)

Eligible(q) ==
    {i \in DOMAIN q : /\ \A j \in 1..i : ~EndsScan(q[j])
                      /\ ~isBlockedByActiveBarrier(q[i].class)
                      /\ canAcquireTransportNow(q[i])}

IdOfFirst(q, S) == q[CHOOSE i \in S : \A j \in S : i <= j].id

(* An aged ticket that is not AKA comes first, then AKA, then queue order. *)
selectedTransport(q) ==
    LET eligible == Eligible(q)
        aka      == {i \in eligible : q[i].class = "USIMAKA"}
        old      == {i \in eligible \ aka : q[i].id \in aged}
    IN  IF old # {} THEN IdOfFirst(q, old)
        ELSE IF aka # {} THEN IdOfFirst(q, aka)
        ELSE IF eligible # {} THEN IdOfFirst(q, eligible) ELSE 0

selectedBarrier(q) ==
    LET barriers == {i \in DOMAIN q : q[i].kind = "barrier"}
    IN  IF barriers = {} THEN 0 ELSE IdOfFirst(q, barriers)

queueHeadIs(t, q) == q # <<>> /\ q[1].id = t.id

canAcquireLease(t, q) ==
    /\ ~isBlockedByActiveBarrier(t.class)
    /\ ~hasPendingBarrierAhead(t, q)
    /\ \/ /\ t.leaseType = "session"
          /\ queueHeadIs(t, q)
          /\ activeOneshot = {} /\ activeTransports = {}
          /\ Cardinality(activeSessions) < MaxSessions
       \/ /\ t.leaseType = "oneshot"
          /\ queueHeadIs(t, q)
          /\ Leases = {}
       \/ /\ t.leaseType = "transport"
          /\ activeSessions = {} /\ activeOneshot = {}
          /\ selectedTransport(q) = t.id

(* Mutant: a barrier does not wait for the leases that are out. *)
canAcquireBarrier_IgnoresLeases(t, q) == selectedBarrier(q) = t.id

canAcquireBarrier(t, q) == Leases = {} /\ selectedBarrier(q) = t.id

canAcquire(t, q) ==
    IF t.kind = "barrier" THEN canAcquireBarrier(t, q) ELSE canAcquireLease(t, q)

isIdle == Leases = {} /\ activeBarriers = {} /\ queue = <<>>

-----------------------------------------------------------------------------
(* signalLocked: every caller asleep now has its channel closed. *)
Asleep == {c \in Callers : pc[c] \in {"waiting", "idlewait"}}
signal == notified' = Asleep

Positions(q, id) == {i \in DOMAIN q : q[i].id = id}

(* removeTicketLocked: the first entry with this id leaves the queue. *)
removeTicket(q, id) ==
    IF Positions(q, id) = {} THEN q
    ELSE RemoveAt(q, CHOOSE i \in Positions(q, id) : \A j \in Positions(q, id) : i <= j)

addActive(t) ==
    /\ activeSessions' = IF t.leaseType = "session" THEN activeSessions \cup {t} ELSE activeSessions
    /\ activeOneshot' = IF t.leaseType = "oneshot" THEN {t} ELSE activeOneshot
    /\ activeTransports' = IF t.leaseType = "transport" THEN activeTransports \cup {t} ELSE activeTransports
    /\ activeBarriers' = IF t.leaseType = "barrier" THEN activeBarriers \cup {t} ELSE activeBarriers

(* The success branch of the acquire and BeginBarrier loops, still under the *)
(* mutex: leave the queue, become active, signal.                            *)
Grant(c, t, q) ==
    /\ queue' = removeTicket(q, t.id)
    /\ addActive(t)
    /\ pc' = [pc EXCEPT ![c] = "holding"]
    /\ notified' = Asleep \ {c}
    /\ aged' = aged \ {t.id}

(* acquire and BeginBarrier up to their first select: queue the ticket,      *)
(* signal, and decide in the same critical section.  The code draws the id   *)
(* just before it takes the mutex; nothing but its uniqueness is used.       *)
Arrive(c, r) ==
    LET t == TicketOf(r, seq + 1)
        q == Append(queue, t)
    IN  /\ pc[c] = "idle"
        /\ seq < MaxSeq
        /\ seq' = seq + 1
        /\ mine' = [mine EXCEPT ![c] = t]
        /\ \/ /\ canAcquire(t, q)
              /\ Grant(c, t, q)
           \/ /\ ~canAcquire(t, q)
              /\ queue' = q
              /\ pc' = [pc EXCEPT ![c] = "waiting"]
              /\ signal
              /\ UNCHANGED <<lent, aged>>
        /\ UNCHANGED timers

(* A waiter whose channel was closed takes the mutex and decides again; if   *)
(* it still may not proceed it sleeps on the current channel.                *)
Wake(c) ==
    /\ pc[c] = "waiting" /\ c \in notified
    /\ \/ /\ canAcquire(mine[c], queue)
          /\ Grant(c, mine[c], queue)
       \/ /\ ~canAcquire(mine[c], queue)
          /\ notified' = notified \ {c}
          /\ UNCHANGED <<queue, lent, pc, aged>>
    /\ UNCHANGED <<seq, mine, timers>>

(* Mutant: the ticket of a caller that gives up stays queued. *)
GiveUp_LeavesTicket(c) ==
    /\ pc[c] = "waiting"
    /\ pc' = [pc EXCEPT ![c] = "idle"]
    /\ notified' = Asleep \ {c}
    /\ mine' = [mine EXCEPT ![c] = NoTicket]
    /\ aged' = aged \ {mine[c].id}
    /\ UNCHANGED <<seq, queue, lent, timers>>

(* The ctx.Done branch: the select may take it even when the channel is      *)
(* closed too.                                                               *)
GiveUp(c) ==
    /\ pc[c] = "waiting"
    /\ queue' = removeTicket(queue, mine[c].id)
    /\ pc' = [pc EXCEPT ![c] = "idle"]
    /\ notified' = Asleep \ {c}
    /\ mine' = [mine EXCEPT ![c] = NoTicket]
    /\ aged' = aged \ {mine[c].id}
    /\ UNCHANGED <<seq, lent, timers>>

(* removeActiveLocked, and timer.Stop: the lease and its deadline are gone. *)
removeActive(id) ==
    /\ activeSessions' = {u \in activeSessions : u.id # id}
    /\ activeOneshot' = {u \in activeOneshot : u.id # id}
    /\ activeTransports' = {u \in activeTransports : u.id # id}
    /\ expired' = expired \ {id}

keepActive == UNCHANGED <<activeSessions, activeOneshot, activeTransports, expired, notified>>

isActive(id) == \E t \in Leases : t.id = id

(* Lease.Release: a lease the watchdog took before is not there to remove,   *)
(* and nobody is signalled.  sync.Once makes a second call of it nothing.    *)
Release(c) ==
    /\ pc[c] = "holding" /\ mine[c].kind = "lease"
    /\ \/ /\ isActive(mine[c].id)
          /\ removeActive(mine[c].id)
          /\ signal
       \/ /\ ~isActive(mine[c].id)
          /\ keepActive
    /\ pc' = [pc EXCEPT ![c] = "idle"]
    /\ mine' = [mine EXCEPT ![c] = NoTicket]
    /\ UNCHANGED <<seq, queue, activeBarriers, aged, fired, touches>>

(* Mutant: nobody is told of a released barrier. *)
releaseBarrier_Silent(c) ==
    /\ pc[c] = "holding" /\ mine[c].kind = "barrier"
    /\ activeBarriers' = {b \in activeBarriers : b.id # mine[c].id}
    /\ pc' = [pc EXCEPT ![c] = "idle"]
    /\ mine' = [mine EXCEPT ![c] = NoTicket]
    /\ UNCHANGED <<seq, queue, notified, activeSessions, activeOneshot, activeTransports, aged, timers>>

(* Barrier.Release. *)
releaseBarrier(c) ==
    /\ pc[c] = "holding" /\ mine[c].kind = "barrier"
    /\ activeBarriers' = {b \in activeBarriers : b.id # mine[c].id}
    /\ signal
    /\ pc' = [pc EXCEPT ![c] = "idle"]
    /\ mine' = [mine EXCEPT ![c] = NoTicket]
    /\ UNCHANGED <<seq, queue, activeSessions, activeOneshot, activeTransports, aged, timers>>

(* Lease.Touch pushes expiresAt out and re-arms the timer; a callback that   *)
(* has fired already stays on its way.                                       *)
touch(c) ==
    /\ pc[c] = "holding" /\ isActive(mine[c].id)
    /\ touches < MaxTouches
    /\ touches' = touches + 1
    /\ expired' = expired \ {mine[c].id}
    /\ UNCHANGED <<seq, queue, lent, pc, mine, notified, aged, fired>>

(* MaxLeaseHold runs out: the lease is past expiresAt and its timer starts   *)
(* the callback.                                                             *)
WatchdogFires(t) ==
    /\ t.id \notin expired
    /\ expired' = expired \cup {t.id}
    /\ fired' = fired \cup {t.id}
    /\ UNCHANGED <<seq, queue, lent, pc, mine, notified, aged, touches>>

(* Mutant: the callback takes the lease without looking at its deadline. *)
releaseExpired_IgnoresTouch(id) ==
    /\ id \in fired
    /\ fired' = fired \ {id}
    /\ IF isActive(id) THEN removeActive(id) /\ signal ELSE keepActive
    /\ UNCHANGED <<seq, queue, activeBarriers, pc, mine, aged, touches>>

(* Mutant: the callback tells nobody. *)
releaseExpired_Silent(id) ==
    /\ id \in fired
    /\ fired' = fired \ {id}
    /\ IF id \in expired THEN removeActive(id) /\ UNCHANGED notified ELSE keepActive
    /\ UNCHANGED <<seq, queue, activeBarriers, pc, mine, aged, touches>>

(* The callback gets the mutex: the lease may be gone, may have been touched *)
(* since (the timer is armed for the rest), or is taken from its holder.     *)
releaseExpired(id) ==
    /\ id \in fired
    /\ fired' = fired \ {id}
    /\ \/ /\ isActive(id) /\ id \in expired
          /\ removeActive(id)
          /\ signal
       \/ /\ ~(isActive(id) /\ id \in expired)
          /\ keepActive
    /\ UNCHANGED <<seq, queue, activeBarriers, pc, mine, aged, touches>>

(* Waiting long enough changes the selection and signals nobody.  Who queued *)
(* first ages first.                                                         *)
Age(c) ==
    /\ pc[c] = "waiting" /\ mine[c].id \notin aged
    /\ \A i, j \in DOMAIN queue : i < j /\ queue[j] = mine[c] => queue[i].id \in aged
    /\ aged' = aged \cup {mine[c].id}
    /\ UNCHANGED <<seq, queue, lent, pc, mine, notified, timers>>

(* WaitIdle: look, and sleep on the channel read in the same section. *)
WaitIdle(c) ==
    /\ \/ pc[c] = "idle"
       \/ pc[c] = "idlewait" /\ c \in notified
    /\ pc' = [pc EXCEPT ![c] = IF isIdle THEN "idle" ELSE "idlewait"]
    /\ notified' = notified \ {c}
    /\ UNCHANGED <<seq, queue, lent, mine, aged, timers>>

WaitIdleGivesUp(c) ==
    /\ pc[c] = "idlewait"
    /\ pc' = [pc EXCEPT ![c] = "idle"]
    /\ notified' = notified \ {c}
    /\ UNCHANGED <<seq, queue, lent, mine, aged, timers>>

-----------------------------------------------------------------------------
Init ==
    /\ seq = 0
    /\ queue = <<>>
    /\ activeSessions = {} /\ activeOneshot = {}
    /\ activeTransports = {} /\ activeBarriers = {}
    /\ pc = [c \in Callers |-> "idle"]
    /\ mine = [c \in Callers |-> NoTicket]
    /\ notified = {}
    /\ aged = {} /\ expired = {} /\ fired = {}
    /\ touches = 0

Next ==
    \/ \E c \in Callers :
        \/ \E r \in Requests : Arrive(c, r)
        \/ Wake(c)
        \/ GiveUp(c)
        \/ Release(c)
        \/ releaseBarrier(c)
        \/ touch(c)
        \/ Age(c)
        \/ WaitIdle(c)
        \/ WaitIdleGivesUp(c)
    \/ \E t \in Leases : WatchdogFires(t)
    \/ \E id \in fired : releaseExpired(id)

Spec == Init /\ [][Next]_vars

(* The goroutines that have work are scheduled, timers fire, and the holder *)
(* of a barrier (a deferred Release) gives it back.  Nothing is assumed of   *)
(* lease holders, callers' deadlines or new calls.                           *)
Fairness ==
    /\ \A c \in Callers : WF_vars(Wake(c)) /\ WF_vars(releaseBarrier(c))
                         /\ WF_vars(WaitIdle(c) /\ pc[c] = "idlewait")
    /\ \A n \in 1..MaxSeq : WF_vars(releaseExpired(n))
                          /\ WF_vars(\E t \in Leases : t.id = n /\ WatchdogFires(t))

FairSpec == Spec /\ Fairness

-----------------------------------------------------------------------------
TypeOK ==
    /\ seq \in 0..MaxSeq
    /\ queue \in Seq(Ticket)
    /\ activeSessions \subseteq Ticket
    /\ activeOneshot \subseteq Ticket
    /\ activeTransports \subseteq Ticket
    /\ activeBarriers \subseteq Ticket
    /\ pc \in [Callers -> {"idle", "waiting", "idlewait", "holding"}]
    /\ mine \in [Callers -> Ticket]
    /\ notified \subseteq Callers
    /\ aged \subseteq Nat /\ expired \subseteq Nat /\ fired \subseteq Nat
    /\ touches \in 0..MaxTouches

(* While a barrier is up no lease of a class it blocks is out: an eSIM       *)
(* switch never meets an authentication or SMSC exchange on the card, nor    *)
(* one that began before it.                                                 *)
BarrierKeepsOut ==
    \A b \in activeBarriers, t \in Leases : t.class \notin b.blocked

(* The queue holds exactly the tickets of the callers that wait, each once:  *)
(* a ticket left behind by a caller that gave up, was served or was never    *)
(* served twice would gate everyone after it.                                *)
QueueIsWaiters ==
    /\ \A i, j \in DOMAIN queue : queue[i].id = queue[j].id => i = j
    /\ ToSet(queue) = {mine[c] : c \in {d \in Callers : pc[d] = "waiting"}}

(* signalLocked is called wherever it must be: when every sleeper's channel  *)
(* is still open, none of them has what it sleeps for.  Waits that reached   *)
(* transportPriorityAging are left out: the passing of time signals nobody,  *)
(* so a waiter that comes of age may sleep on a free device.                 *)
NoLostWakeup ==
    notified = {} /\ aged = {} =>
        \A c \in Callers :
            /\ pc[c] = "waiting" => ~canAcquire(mine[c], queue)
            /\ pc[c] = "idlewait" => ~isIdle

(* A lease ends because its own holder releases it, or because the watchdog  *)
(* finds it past its (possibly touched) deadline: never through the late     *)
(* Release of a former holder, or a callback that raced with Touch.          *)
LeaseEndsByRight ==
    [][\A t \in Leases \ Leases' :
          \/ \E c \in Callers : mine[c] = t /\ pc[c] = "holding" /\ pc'[c] = "idle"
          \/ t.id \in expired /\ t.id \in fired \ fired']_vars

(* No caller that queued behind a barrier is served before it: a stream of   *)
(* APDUs cannot hold a switch off.                                           *)
NoOvertakingBarrier ==
    [][\A i, j \in DOMAIN queue :
          /\ i < j /\ queue[i].kind = "barrier"
          /\ queue[j] \in (Leases \cup activeBarriers)'
          => queue[i] \notin ToSet(queue')]_vars

(* The one way in which a free device serves nobody: a ticket came of age    *)
(* after its owner last looked, the authentication that was to go first now  *)
(* stands back for it, both sleep, and age signals nobody.                   *)
AgedStall ==
    /\ notified = {}
    /\ \E c, d \in Asleep :
        /\ mine[c].id \in aged /\ canAcquire(mine[c], queue)
        /\ mine[d].class = "USIMAKA" /\ \E i \in Eligible(queue) : queue[i] = mine[d]

(* Under Fairness every wait ends without the caller's deadline, in a lease, *)
(* a barrier, or an idle device for WaitIdle, unless the behaviour ends in   *)
(* an AgedStall: nobody else's slowness, and no lease that is never given    *)
(* back, keeps a caller for ever.                                            *)
EveryWaitEnds ==
    \A c \in Callers :
        \/ (pc[c] = "waiting" ~> pc[c] # "waiting") /\ (pc[c] = "idlewait" ~> pc[c] # "idlewait")
        \/ <>[]AgedStall

(* The arbiter implements ApduAccess. *)
Access == INSTANCE ApduAccess WITH
              Ticket <- Tickets, leases <- Leases, barriers <- activeBarriers
ImplementsAccess == Access!Spec
=============================================================================

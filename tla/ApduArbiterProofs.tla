------------------------- MODULE ApduArbiterProofs -------------------------
(***************************************************************************)
(* The safety of the arbiter for any set of callers and calls, and any      *)
(* limits: its types, that a barrier keeps out what it blocks, that the     *)
(* queue holds the waiting callers' tickets, and that it implements         *)
(* ApduAccess, whose limits it therefore keeps; then, on top of that, that  *)
(* no wake-up is lost, that leases end by right, that barriers and gates    *)
(* are not passed, and that a free device serves somebody.                  *)
(***************************************************************************)
EXTENDS ApduArbiter, FiniteSetTheorems, SequenceTheorems, TLAPS

-----------------------------------------------------------------------------
(* Sets of naturals and sequences.                                           *)

(* A set of naturals has a least element: what CHOOSE picks in IdOfFirst and  *)
(* removeTicket exists.                                                      *)
LEMMA LeastExists ==
  ASSUME NEW S \in SUBSET Nat, S # {}
  PROVE  \E m \in S : \A k \in S : m <= k
  <1> DEFINE T == {0..k : k \in S}
  <1>1. T \subseteq FiniteSubsetsOf(Nat) /\ T # {}
    <2>1. \A k \in S : 0..k \in SUBSET Nat /\ IsFiniteSet(0..k)
      BY FS_Interval
    <2> QED
      BY <2>1 DEF FiniteSubsetsOf
  <1>2. PICK x \in T : \A y \in T : ~ (<<y, x>> \in StrictSubsetOrdering(Nat))
    <2> HIDE DEF T
    <2> QED
      BY <1>1, FS_StrictSubsetOrderingWellFounded, WFMin
  <1>3. PICK m \in S : x = 0..m
    OBVIOUS
  <1>4. ASSUME NEW k \in S, k < m PROVE FALSE
    <2>1. 0..k \subseteq 0..m /\ 0..k # 0..m
      BY <1>4
    <2>2. <<0..k, 0..m>> \in StrictSubsetOrdering(Nat)
      BY <2>1 DEF StrictSubsetOrdering
    <2> QED
      BY <1>2, <1>3, <2>2
  <1> QED
    BY <1>4

(* RemoveAt drops one element and closes the gap. *)
LEMMA RemoveAtFacts ==
  ASSUME NEW S, NEW s \in Seq(S), NEW k \in 1..Len(s)
  PROVE  /\ RemoveAt(s, k) \in Seq(S)
         /\ Len(RemoveAt(s, k)) = Len(s) - 1
         /\ \A i \in 1..Len(s) - 1 : RemoveAt(s, k)[i] = IF i < k THEN s[i] ELSE s[i + 1]
  <1> DEFINE a == SubSeq(s, 1, k - 1)
             b == SubSeq(s, k + 1, Len(s))
  <1>0. Len(s) \in Nat /\ \A i \in 1..Len(s) : s[i] \in S
    BY LenProperties, ElementOfSeq
  <1>1. /\ a \in Seq(S) /\ Len(a) = k - 1
        /\ \A i \in 1..k - 1 : a[i] = s[i]
    <2>1. k - 1 \in Int /\ \A i \in 1..k - 1 : s[i] \in S
      BY <1>0
    <2>2. /\ a \in Seq(S) /\ Len(a) = IF 1 <= k - 1 THEN k - 1 - 1 + 1 ELSE 0
          /\ \A i \in 1..k - 1 - 1 + 1 : a[i] = s[1 + i - 1]
      BY <2>1, SubSeqProperties DEF a
    <2> QED
      BY <2>2, <1>0
  <1>2. /\ b \in Seq(S) /\ Len(b) = Len(s) - k
        /\ \A i \in 1..Len(s) - k : b[i] = s[k + i]
    <2>1. k + 1 \in Int /\ \A i \in k + 1..Len(s) : s[i] \in S
      BY <1>0
    <2>2. /\ b \in Seq(S) /\ Len(b) = IF k + 1 <= Len(s) THEN Len(s) - (k + 1) + 1 ELSE 0
          /\ \A i \in 1..Len(s) - (k + 1) + 1 : b[i] = s[(k + 1) + i - 1]
      BY <2>1, <1>0, SubSeqProperties DEF b
    <2> QED
      BY <2>2, <1>0
  <1> HIDE DEF a, b
  <1>3. /\ a \o b \in Seq(S) /\ Len(a \o b) = Len(a) + Len(b)
        /\ \A i \in 1..Len(a) + Len(b) : (a \o b)[i] = IF i <= Len(a) THEN a[i] ELSE b[i - Len(a)]
    BY <1>1, <1>2, ConcatProperties
  <1>4. RemoveAt(s, k) = a \o b
    BY DEF RemoveAt, a, b
  <1>5. ASSUME NEW i \in 1..Len(s) - 1
        PROVE  (a \o b)[i] = IF i < k THEN s[i] ELSE s[i + 1]
    <2>1. CASE i < k
      BY <2>1, <1>0, <1>1, <1>2, <1>3
    <2>2. CASE ~(i < k)
      <3>1. i - (k - 1) \in 1..Len(s) - k /\ k + (i - (k - 1)) = i + 1
        BY <2>2, <1>0
      <3>2. (a \o b)[i] = b[i - (k - 1)]
        BY <2>2, <1>0, <1>1, <1>2, <1>3
      <3> QED
        BY <2>2, <3>1, <3>2, <1>2
    <2> QED
      BY <2>1, <2>2
  <1> QED
    <2>1. Len(a \o b) = Len(s) - 1
      BY <1>0, <1>1, <1>2, <1>3
    <2> QED
      BY <1>3, <1>4, <1>5, <2>1

-----------------------------------------------------------------------------
(* Tickets.                                                                  *)

(* A call becomes a ticket of the right shape under its number. *)
LEMMA TicketOfFacts ==
  ASSUME NEW r \in Requests, NEW n \in Nat
  PROVE  /\ TicketOf(r, n) \in Ticket
         /\ TicketOf(r, n).id = n
         /\ TicketOf(r, n).kind = "barrier" <=> TicketOf(r, n).leaseType = "barrier"
  <1>1. /\ r.leaseType \in LeaseTypes /\ r.class \in Classes \cup {""}
        /\ r.channel \in Int /\ r.blocked \in SUBSET (Classes \cup {""})
    BY ArbiterAssumption DEF ArbiterAssumption, Request
  <1>2. \A c, type : c \in Classes \cup {""} => NormalClass(c, type) \in Classes
    BY DEF NormalClass, Classes
  <1>3. CASE r.leaseType = "barrier"
    <2>1. BlockedBy(r) \in SUBSET Classes
      BY <1>1, <1>2 DEF BlockedBy, Classes
    <2>2. TicketOf(r, n) = BarrierTicket(r, n)
      BY <1>3 DEF TicketOf
    <2>3. (IF r.class = "" THEN "SwitchBarrier" ELSE r.class) \in Classes
      BY <1>1 DEF Classes
    <2>4. "barrier" \in LeaseTypes /\ "exclusive" \in Scopes
      BY DEF LeaseTypes, Scopes
    <2>5. BarrierTicket(r, n) \in Ticket
      BY <1>1, <2>1, <2>3, <2>4 DEF BarrierTicket, Ticket
    <2>6. /\ BarrierTicket(r, n).id = n
          /\ BarrierTicket(r, n).kind = "barrier"
          /\ BarrierTicket(r, n).leaseType = "barrier"
      BY DEF BarrierTicket
    <2> QED
      BY <2>2, <2>5, <2>6
  <1>4. CASE r.leaseType # "barrier"
    <2>1. NormalScope(r) \in Scopes
      BY DEF NormalScope, Scopes
    <2>2. TicketOf(r, n) = LeaseTicket(r, n)
      BY <1>4 DEF TicketOf
    <2>3. NormalClass(r.class, r.leaseType) \in Classes
      BY <1>1, <1>2
    <2>4. LeaseTicket(r, n) \in Ticket
      BY <1>1, <2>1, <2>3 DEF LeaseTicket, Ticket
    <2>5. /\ LeaseTicket(r, n).id = n
          /\ LeaseTicket(r, n).kind = "lease"
          /\ LeaseTicket(r, n).leaseType = r.leaseType
      BY DEF LeaseTicket
    <2> QED
      BY <1>4, <2>2, <2>4, <2>5
  <1> QED
    BY <1>3, <1>4

(* What is known of every ticket handed out. *)
LEMMA TicketsFacts ==
  ASSUME NEW t \in Tickets
  PROVE  /\ t \in Ticket
         /\ t.id \in Nat /\ t.id # 0
         /\ t.leaseType \in LeaseTypes
         /\ t.kind = "barrier" <=> t.leaseType = "barrier"
         /\ t.kind # "barrier" => t.kind = "lease"
  <1>1. PICK r \in Requests, n \in 1..MaxSeq : t = TicketOf(r, n)
    BY DEF Tickets
  <1>2. n \in Nat /\ n # 0
    BY ArbiterAssumption DEF ArbiterAssumption
  <1>3. t \in Ticket /\ t.id = n /\ (t.kind = "barrier" <=> t.leaseType = "barrier")
    BY <1>1, <1>2, TicketOfFacts
  <1> QED
    BY <1>2, <1>3 DEF Ticket

LEMMA NoTicketType == NoTicket \in Ticket
  BY DEF NoTicket, Ticket, LeaseTypes, Classes, Scopes

(* No two entries of the queue have the same id. *)
UniqueIds(q) == \A i, j \in DOMAIN q : q[i].id = q[j].id => i = j

(* removeTicket takes out the one entry with the id and keeps the rest. *)
LEMMA RemoveTicketFacts ==
  ASSUME NEW q \in Seq(Ticket), UniqueIds(q), NEW id
  PROVE  /\ removeTicket(q, id) \in Seq(Ticket)
         /\ UniqueIds(removeTicket(q, id))
         /\ ToSet(removeTicket(q, id)) = {t \in ToSet(q) : t.id # id}
  <1>0. DOMAIN q = 1..Len(q) /\ Len(q) \in Nat
    BY LenProperties
  <1>1. CASE Positions(q, id) = {}
    <2>1. removeTicket(q, id) = q
      BY <1>1 DEF removeTicket
    <2>2. \A i \in DOMAIN q : q[i].id # id
      BY <1>1 DEF Positions
    <2> QED
      BY <2>1, <2>2 DEF ToSet
  <1>2. CASE Positions(q, id) # {}
    <2>1. PICK k \in Positions(q, id) : TRUE
      BY <1>2
    <2>2. Positions(q, id) = {k} /\ k \in 1..Len(q) /\ q[k].id = id
      BY <2>1, <1>0 DEF Positions, UniqueIds
    <2>3. (CHOOSE i \in Positions(q, id) : \A j \in Positions(q, id) : i <= j) = k
      BY <2>2
    <2> DEFINE r == RemoveAt(q, k)
    <2>4. removeTicket(q, id) = r
      BY <1>2, <2>3 DEF removeTicket
    <2>5. /\ r \in Seq(Ticket) /\ Len(r) = Len(q) - 1
          /\ \A i \in 1..Len(q) - 1 : r[i] = IF i < k THEN q[i] ELSE q[i + 1]
      BY <2>2, RemoveAtFacts
    <2> HIDE DEF r
    <2>6. DOMAIN r = 1..Len(q) - 1
      BY <2>5, LenProperties
    <2>7. UniqueIds(r)
      <3>1. SUFFICES ASSUME NEW i \in DOMAIN r, NEW j \in DOMAIN r, r[i].id = r[j].id
                     PROVE  i = j
        BY DEF UniqueIds
      <3> DEFINE at(x) == IF x < k THEN x ELSE x + 1
      <3>2. \A x \in DOMAIN r : at(x) \in DOMAIN q /\ r[x] = q[at(x)]
        BY <2>2, <2>5, <2>6, <1>0
      <3>3. at(i) = at(j)
        BY <3>1, <3>2 DEF UniqueIds
      <3> QED
        BY <3>3, <2>2, <2>5, <2>6, <1>0
    <2>8. ASSUME NEW i \in DOMAIN r PROVE r[i] \in ToSet(q) /\ r[i].id # id
      <3>1. CASE i < k
        BY <3>1, <2>2, <2>5, <2>6, <1>0 DEF ToSet, UniqueIds
      <3>2. CASE ~(i < k)
        BY <3>2, <2>2, <2>5, <2>6, <1>0 DEF ToSet, UniqueIds
      <3> QED
        BY <3>1, <3>2
    <2>9. ASSUME NEW j \in DOMAIN q, q[j].id # id PROVE q[j] \in ToSet(r)
      <3>1. CASE j < k
        <4>1. j \in DOMAIN r /\ r[j] = q[j]
          BY <3>1, <2>2, <2>5, <2>6, <1>0
        <4> QED
          BY <4>1 DEF ToSet
      <3>2. CASE j > k
        <4>1. j - 1 \in DOMAIN r /\ r[j - 1] = q[j]
          BY <3>2, <2>2, <2>5, <2>6, <1>0
        <4> QED
          BY <4>1 DEF ToSet
      <3> QED
        BY <3>1, <3>2, <2>9, <2>2, <1>0
    <2>10. ToSet(r) = {t \in ToSet(q) : t.id # id}
      BY <2>8, <2>9 DEF ToSet
    <2> QED
      BY <2>4, <2>5, <2>7, <2>10
  <1> QED
    BY <1>1, <1>2

(* A ticket with a new id at the end. *)
LEMMA AppendTicketFacts ==
  ASSUME NEW q \in Seq(Ticket), UniqueIds(q), NEW t \in Ticket,
         \A i \in DOMAIN q : q[i].id # t.id
  PROVE  /\ Append(q, t) \in Seq(Ticket)
         /\ UniqueIds(Append(q, t))
         /\ ToSet(Append(q, t)) = ToSet(q) \cup {t}
  <1> DEFINE r == Append(q, t)
  <1>0. DOMAIN q = 1..Len(q) /\ Len(q) \in Nat
    BY LenProperties
  <1>1. /\ r \in Seq(Ticket) /\ Len(r) = Len(q) + 1
        /\ \A i \in 1..Len(q) : r[i] = q[i]
        /\ r[Len(q) + 1] = t
    BY AppendProperties
  <1> HIDE DEF r
  <1>2. DOMAIN r = 1..Len(q) + 1
    BY <1>1, LenProperties
  <1>3. UniqueIds(r)
    BY <1>0, <1>1, <1>2 DEF UniqueIds
  <1>4. ToSet(r) = ToSet(q) \cup {t}
    <2>1. \A i \in DOMAIN r : r[i] \in ToSet(q) \cup {t}
      BY <1>0, <1>1, <1>2 DEF ToSet
    <2>2. \A i \in DOMAIN q : i \in DOMAIN r /\ q[i] = r[i]
      BY <1>0, <1>1, <1>2
    <2>3. Len(q) + 1 \in DOMAIN r
      BY <1>0, <1>2
    <2> QED
      BY <1>1, <2>1, <2>2, <2>3 DEF ToSet
  <1> QED
    BY <1>1, <1>3, <1>4 DEF r

-----------------------------------------------------------------------------
(* The inductive invariant.  BarrierKeepsOut alone is not inductive: a grant *)
(* is told apart by the kind of the ticket, which the sets of what is out do *)
(* not show unless every set holds tickets of its own lease type.  And the   *)
(* queue can match the waiters only while no two of them share a number.     *)

Busy == {c \in Callers : pc[c] \in {"waiting", "holding"}}
Out == Leases \cup activeBarriers

(* Whoever waits or holds has a ticket that was handed out, under a number   *)
(* of its own.                                                               *)
MineOK ==
    /\ \A c \in Busy : mine[c] \in Tickets /\ mine[c].id <= seq
    /\ \A c, d \in Busy : mine[c].id = mine[d].id => c = d

(* What is out was handed out, lies in the set of its type, and has a number *)
(* no other ticket that is out or waits has.                                 *)
OutOK ==
    /\ \A t \in activeSessions : t.leaseType = "session"
    /\ \A t \in activeOneshot : t.leaseType = "oneshot"
    /\ \A t \in activeTransports : t.leaseType = "transport"
    /\ \A t \in activeBarriers : t.leaseType = "barrier"
    /\ \A t \in Out : t \in Tickets /\ t.id <= seq
    /\ \A t, u \in Out : t.id = u.id => t = u
    /\ \A c \in Callers : pc[c] = "waiting" => \A t \in Out : t.id # mine[c].id

IInv == TypeOK /\ MineOK /\ OutOK /\ QueueIsWaiters /\ BarrierKeepsOut

(* Steps that hand out nothing: what is out and who is busy can only shrink. *)
LEMMA OutShrinks ==
  ASSUME OutOK, BarrierKeepsOut, seq' = seq,
         activeSessions' \subseteq activeSessions, activeOneshot' \subseteq activeOneshot,
         activeTransports' \subseteq activeTransports, activeBarriers' \subseteq activeBarriers,
         \A c \in Callers : pc'[c] = "waiting" => pc[c] = "waiting" /\ mine'[c] = mine[c]
  PROVE  OutOK' /\ BarrierKeepsOut'
  <1>1. Leases' \subseteq Leases /\ Out' \subseteq Out
    BY DEF Leases, Out
  <1>2. OutOK'
    BY <1>1 DEF OutOK
  <1>3. BarrierKeepsOut'
    BY <1>1 DEF BarrierKeepsOut
  <1> QED
    BY <1>2, <1>3

LEMMA BusyShrinks ==
  ASSUME MineOK, seq' = seq,
         \A c \in Callers : pc'[c] \in {"waiting", "holding"} =>
                               pc[c] \in {"waiting", "holding"} /\ mine'[c] = mine[c]
  PROVE  MineOK'
  BY DEF MineOK, Busy, Tickets

(* The queue is as it was and the same callers wait with the same tickets. *)
LEMMA QueueStays ==
  ASSUME QueueIsWaiters, queue' = queue,
         \A c \in Callers : (pc'[c] = "waiting" <=> pc[c] = "waiting")
                              /\ (pc[c] = "waiting" => mine'[c] = mine[c])
  PROVE  QueueIsWaiters'
  <1>1. {mine'[c] : c \in {d \in Callers : pc'[d] = "waiting"}}
          = {mine[c] : c \in {d \in Callers : pc[d] = "waiting"}}
    OBVIOUS
  <1> QED
    BY <1>1 DEF QueueIsWaiters

LEMMA InitIInv == Init => IInv
  <1> SUFFICES ASSUME Init PROVE IInv
    OBVIOUS
  <1>1. TypeOK
    <2>1. seq \in 0..MaxSeq /\ touches \in 0..MaxTouches
      BY ArbiterAssumption DEF Init, ArbiterAssumption
    <2>2. queue \in Seq(Ticket)
      BY DEF Init
    <2>3. pc \in [Callers -> {"idle", "waiting", "idlewait", "holding"}]
      BY DEF Init
    <2>4. mine \in [Callers -> Ticket]
      BY NoTicketType DEF Init
    <2> QED
      BY <2>1, <2>2, <2>3, <2>4 DEF Init, TypeOK
  <1>2. \A c \in Callers : pc[c] = "idle"
    BY DEF Init
  <1>3. MineOK
    BY <1>2 DEF MineOK, Busy
  <1>4. OutOK /\ BarrierKeepsOut
    BY DEF Init, OutOK, Out, Leases, BarrierKeepsOut
  <1>5. QueueIsWaiters
    <2>1. DOMAIN queue = {}
      BY DEF Init
    <2> QED
      BY <1>2, <2>1 DEF QueueIsWaiters, ToSet
  <1> QED
    BY <1>1, <1>3, <1>4, <1>5 DEF IInv

(* The heart of it: the grant of ticket t to c, both on arrival (seq' is its *)
(* number, q the queue with t at its end) and on a wake-up (q is the queue). *)
LEMMA GrantKeepsOut ==
  ASSUME IInv, NEW c \in Callers, NEW t \in Tickets, NEW q,
         canAcquire(t, q), Grant(c, t, q),
         seq \in Int, seq' \in Int, seq <= seq', t.id <= seq',
         mine' = [mine EXCEPT ![c] = t],
         \A u \in Out : u.id # t.id,
         \A d \in Callers \ {c} : pc[d] = "waiting" => mine[d].id # t.id
  PROVE  OutOK' /\ BarrierKeepsOut'
  <1>0. /\ t.leaseType \in LeaseTypes /\ t.id \in Nat
        /\ t.kind = "barrier" <=> t.leaseType = "barrier"
    BY TicketsFacts
  <1>1. /\ Out' = Out \cup {t}
        /\ activeBarriers' = IF t.leaseType = "barrier" THEN activeBarriers \cup {t} ELSE activeBarriers
        /\ Leases' = IF t.leaseType = "barrier" THEN Leases ELSE Leases \cup {t}
    <2>1. t.leaseType = "oneshot" => activeOneshot = {}
      BY <1>0 DEF canAcquire, canAcquireLease, Leases
    <2>2. CASE t.leaseType = "session"
      BY <2>2 DEF Grant, addActive, Out, Leases
    <2>3. CASE t.leaseType = "oneshot"
      BY <2>1, <2>3 DEF Grant, addActive, Out, Leases
    <2>4. CASE t.leaseType = "transport"
      BY <2>4 DEF Grant, addActive, Out, Leases
    <2>5. CASE t.leaseType = "barrier"
      BY <2>5 DEF Grant, addActive, Out, Leases
    <2> QED
      BY <1>0, <2>2, <2>3, <2>4, <2>5 DEF LeaseTypes
  <1>2. BarrierKeepsOut'
    <2>1. CASE t.leaseType = "barrier"
      <3>1. Leases = {}
        BY <1>0, <2>1 DEF canAcquire, canAcquireBarrier
      <3> QED
        BY <1>1, <2>1, <3>1 DEF BarrierKeepsOut
    <2>2. CASE t.leaseType # "barrier"
      <3>1. \A b \in activeBarriers : t.class \notin b.blocked
        BY <1>0, <2>2 DEF canAcquire, canAcquireLease, isBlockedByActiveBarrier
      <3> QED
        BY <1>1, <2>2, <3>1 DEF BarrierKeepsOut, IInv
    <2> QED
      BY <2>1, <2>2
  <1>3. \A u \in Out : u \in Tickets /\ u.id \in Nat /\ u.id <= seq
    BY TicketsFacts DEF IInv, OutOK
  <1>4. /\ \A u \in activeSessions' : u.leaseType = "session"
        /\ \A u \in activeOneshot' : u.leaseType = "oneshot"
        /\ \A u \in activeTransports' : u.leaseType = "transport"
        /\ \A u \in activeBarriers' : u.leaseType = "barrier"
    BY DEF IInv, OutOK, Grant, addActive
  <1>5. \A u \in Out' : u \in Tickets' /\ u.id <= seq'
    <2>1. Tickets' = Tickets
      BY DEF Tickets
    <2> QED
      BY <1>1, <1>3, <2>1
  <1>6. \A u, v \in Out' : u.id = v.id => u = v
    BY <1>1 DEF IInv, OutOK
  <1>7. ASSUME NEW d \in Callers, pc'[d] = "waiting"
        PROVE  \A u \in Out' : u.id # mine'[d].id
    <2>1. d # c /\ pc[d] = "waiting" /\ mine'[d] = mine[d]
      BY <1>7 DEF IInv, TypeOK, Grant
    <2> QED
      BY <1>1, <2>1 DEF IInv, OutOK
  <1> QED
    BY <1>2, <1>4, <1>5, <1>6, <1>7 DEF OutOK

(* A caller that comes with a ticket of its own leaves MineOK as it was.     *)
LEMMA NewcomerKeepsMine ==
  ASSUME MineOK, NEW c \in Callers, NEW t \in Tickets,
         mine \in [Callers -> Ticket], mine' = [mine EXCEPT ![c] = t],
         seq \in Int, seq' \in Int, seq <= seq', t.id <= seq',
         \A d \in Callers \ {c} : pc'[d] = pc[d],
         \A d \in Busy \ {c} : mine[d].id # t.id
  PROVE  MineOK'
  <1>1. mine'[c] = t /\ \A d \in Callers \ {c} : mine'[d] = mine[d]
    OBVIOUS
  <1>2. \A d \in Busy' : d = c \/ d \in Busy \ {c}
    BY DEF Busy
  <1>3. \A d \in Busy : mine[d] \in Tickets /\ mine[d].id \in Nat /\ mine[d].id <= seq
    BY TicketsFacts DEF MineOK
  <1>4. Tickets' = Tickets /\ Busy \subseteq Callers
    BY DEF Tickets, Busy
  <1>5. ASSUME NEW d \in Busy' PROVE mine'[d] \in Tickets' /\ mine'[d].id <= seq'
    BY <1>1, <1>2, <1>3, <1>4
  <1>6. ASSUME NEW d \in Busy', NEW e \in Busy', mine'[d].id = mine'[e].id PROVE d = e
    BY <1>1, <1>2, <1>4, <1>6 DEF MineOK
  <1> QED
    BY <1>5, <1>6 DEF MineOK

(* The queue after a grant: t is out of it, the other waiters are still in.  *)
LEMMA GrantKeepsQueue ==
  ASSUME NEW c \in Callers, NEW t \in Ticket, NEW q \in Seq(Ticket), UniqueIds(q),
         mine \in [Callers -> Ticket], mine' = [mine EXCEPT ![c] = t],
         pc \in [Callers -> {"idle", "waiting", "idlewait", "holding"}],
         Grant(c, t, q),
         ToSet(q) = {t} \cup {mine[d] : d \in {e \in Callers \ {c} : pc[e] = "waiting"}},
         \A d \in Callers \ {c} : pc[d] = "waiting" => mine[d].id # t.id
  PROVE  QueueIsWaiters' /\ queue' \in Seq(Ticket)
  <1>1. /\ queue' \in Seq(Ticket) /\ UniqueIds(queue')
        /\ ToSet(queue') = {u \in ToSet(q) : u.id # t.id}
    BY RemoveTicketFacts DEF Grant
  <1>2. \A d \in Callers : pc'[d] = "waiting" <=> d # c /\ pc[d] = "waiting"
    BY DEF Grant
  <1>3. \A d \in Callers \ {c} : mine'[d] = mine[d]
    OBVIOUS
  <1>4. {mine'[d] : d \in {e \in Callers : pc'[e] = "waiting"}}
          = {mine[d] : d \in {e \in Callers \ {c} : pc[e] = "waiting"}}
    BY <1>2, <1>3
  <1>5. ToSet(queue') = {mine[d] : d \in {e \in Callers \ {c} : pc[e] = "waiting"}}
    BY <1>1
  <1> QED
    BY <1>1, <1>4, <1>5 DEF QueueIsWaiters, UniqueIds

(* Facts the steps share. *)
LEMMA IInvFacts ==
  ASSUME IInv
  PROVE  /\ seq \in 0..MaxSeq /\ MaxSeq \in Nat /\ seq \in Nat
         /\ mine \in [Callers -> Ticket]
         /\ pc \in [Callers -> {"idle", "waiting", "idlewait", "holding"}]
         /\ queue \in Seq(Ticket) /\ UniqueIds(queue)
         /\ \A c \in Callers : mine[c].id \in Nat
         /\ \A t \in Leases : t.id \in Nat
         /\ \A c \in Callers : pc[c] = "waiting" => mine[c] \in Tickets /\ mine[c].id <= seq
         /\ \A i \in DOMAIN queue : queue[i].id \in Nat /\ queue[i].id <= seq
         /\ Asleep \subseteq Callers
  <1>1. /\ seq \in 0..MaxSeq /\ MaxSeq \in Nat
        /\ mine \in [Callers -> Ticket] /\ queue \in Seq(Ticket)
        /\ pc \in [Callers -> {"idle", "waiting", "idlewait", "holding"}]
    BY ArbiterAssumption DEF IInv, TypeOK, ArbiterAssumption
  <1>2. UniqueIds(queue)
    BY DEF IInv, QueueIsWaiters, UniqueIds
  <1>3. \A t \in Ticket : t.id \in Nat
    BY DEF Ticket
  <1>4. \A t \in Leases : t \in Ticket
    BY DEF IInv, TypeOK, Leases
  <1>5. \A c \in Callers : pc[c] = "waiting" => mine[c] \in Tickets /\ mine[c].id <= seq
    BY DEF IInv, MineOK, Busy
  <1>6. ASSUME NEW i \in DOMAIN queue PROVE queue[i].id \in Nat /\ queue[i].id <= seq
    <2>1. queue[i] \in ToSet(queue)
      BY DEF ToSet
    <2>2. PICK c \in Callers : pc[c] = "waiting" /\ queue[i] = mine[c]
      BY <2>1 DEF IInv, QueueIsWaiters
    <2> QED
      BY <1>1, <1>3, <1>5, <2>2
  <1> QED
    BY <1>1, <1>2, <1>3, <1>4, <1>5, <1>6 DEF Asleep

(* addActive puts the ticket into one of the sets. *)
LEMMA AddActiveType ==
  ASSUME TypeOK, NEW t \in Ticket, addActive(t)
  PROVE  /\ activeSessions' \subseteq Ticket /\ activeOneshot' \subseteq Ticket
         /\ activeTransports' \subseteq Ticket /\ activeBarriers' \subseteq Ticket
  BY DEF TypeOK, addActive

LEMMA ArriveStep ==
  ASSUME IInv, NEW c \in Callers, NEW r \in Requests, Arrive(c, r)
  PROVE  IInv'
  <1>a. seq \in Nat /\ MaxSeq \in Nat /\ seq < MaxSeq /\ seq' = seq + 1
    BY IInvFacts DEF Arrive
  <1>1. PICK t \in Tickets : t = TicketOf(r, seq + 1) /\ t \in Ticket /\ t.id = seq + 1
    <2>1. seq + 1 \in 1..MaxSeq
      BY <1>a
    <2> QED
      BY <2>1, <1>a, TicketOfFacts DEF Tickets
  <1>2. PICK q \in Seq(Ticket) :
          q = Append(queue, t) /\ UniqueIds(q) /\ ToSet(q) = ToSet(queue) \cup {t}
    <2>1. \A i \in DOMAIN queue : queue[i].id # t.id
      BY <1>a, <1>1, IInvFacts
    <2> QED
      BY <1>1, <2>1, IInvFacts, AppendTicketFacts
  <1>3. /\ pc[c] = "idle"
        /\ mine' = [mine EXCEPT ![c] = t]
        /\ \/ canAcquire(t, q) /\ Grant(c, t, q)
           \/ /\ queue' = q
              /\ pc' = [pc EXCEPT ![c] = "waiting"]
              /\ signal
              /\ UNCHANGED <<lent, aged>>
        /\ UNCHANGED timers
    BY <1>1, <1>2 DEF Arrive
  <1>0. /\ seq \in Nat /\ seq < MaxSeq /\ seq' = seq + 1 /\ MaxSeq \in Nat
        /\ pc[c] = "idle" /\ mine' = [mine EXCEPT ![c] = t]
        /\ mine \in [Callers -> Ticket]
        /\ pc \in [Callers -> {"idle", "waiting", "idlewait", "holding"}]
    BY <1>a, <1>3, IInvFacts
  <1>b. seq \in Int /\ seq' \in Int /\ seq <= seq' /\ t.id <= seq'
    BY <1>a, <1>1
  <1>4. \A d \in Busy : d # c /\ mine[d].id # t.id
    <2>1. \A d \in Busy : d \in Callers /\ mine[d].id \in Nat /\ mine[d].id <= seq
      BY IInvFacts DEF IInv, MineOK, Busy
    <2> QED
      BY <2>1, <1>0, <1>1 DEF Busy
  <1>5. \A u \in Out : u.id # t.id
    <2>1. \A u \in Out : u.id \in Nat /\ u.id <= seq
      BY TicketsFacts DEF IInv, OutOK
    <2> QED
      BY <2>1, <1>0, <1>1
  <1>6. ToSet(q) = {t} \cup {mine[d] : d \in {e \in Callers \ {c} : pc[e] = "waiting"}}
    <2>1. {d \in Callers : pc[d] = "waiting"} = {e \in Callers \ {c} : pc[e] = "waiting"}
      BY <1>0
    <2> QED
      BY <1>2, <2>1 DEF IInv, QueueIsWaiters
  <1>7. MineOK'
    <2>1. \A d \in Callers \ {c} : pc'[d] = pc[d]
      BY <1>0, <1>3 DEF Grant
    <2> QED
      BY <2>1, <1>0, <1>b, <1>4, NewcomerKeepsMine DEF IInv
  <1>8. \A d \in Callers \ {c} : pc[d] = "waiting" => mine[d].id # t.id
    BY <1>4 DEF Busy
  <1>9. /\ seq' \in 0..MaxSeq /\ mine' \in [Callers -> Ticket]
        /\ touches' \in 0..MaxTouches
        /\ expired' \subseteq Nat /\ fired' \subseteq Nat
    <2>1. seq' \in 0..MaxSeq
      BY <1>0
    <2>2. mine' \in [Callers -> Ticket]
      BY <1>0, <1>1
    <2> QED
      BY <2>1, <2>2, <1>3 DEF IInv, TypeOK, timers
  <1>10. CASE canAcquire(t, q) /\ Grant(c, t, q)
    <2>1. OutOK' /\ BarrierKeepsOut'
      BY <1>10, <1>0, <1>b, <1>5, <1>8, GrantKeepsOut
    <2>2. QueueIsWaiters' /\ queue' \in Seq(Ticket)
      BY <1>10, <1>0, <1>1, <1>2, <1>6, <1>8, GrantKeepsQueue
    <2>3. TypeOK'
      <3>1. /\ activeSessions' \subseteq Ticket /\ activeOneshot' \subseteq Ticket
            /\ activeTransports' \subseteq Ticket /\ activeBarriers' \subseteq Ticket
        BY <1>10, <1>1, AddActiveType DEF Grant, IInv
      <3>2. pc' \in [Callers -> {"idle", "waiting", "idlewait", "holding"}]
        BY <1>10, <1>0 DEF Grant
      <3>3. notified' \subseteq Callers /\ aged' \subseteq Nat
        BY <1>10 DEF Grant, Asleep, IInv, TypeOK
      <3> QED
        BY <1>9, <2>2, <3>1, <3>2, <3>3 DEF TypeOK
    <2> QED
      BY <1>7, <2>1, <2>2, <2>3 DEF IInv
  <1>11. CASE /\ queue' = q
              /\ pc' = [pc EXCEPT ![c] = "waiting"]
              /\ signal
              /\ UNCHANGED <<lent, aged>>
    <2>1. UNCHANGED <<activeSessions, activeOneshot, activeTransports, activeBarriers>>
      BY <1>11 DEF lent
    <2>2. Leases' = Leases /\ Out' = Out /\ Tickets' = Tickets
      BY <2>1 DEF Leases, Out, Tickets
    <2>3. BarrierKeepsOut'
      BY <2>1, <2>2 DEF IInv, BarrierKeepsOut
    <2>4. \A u \in Out' : u \in Tickets' /\ u.id <= seq'
      <3>1. \A u \in Out : u \in Tickets /\ u.id \in Nat /\ u.id <= seq
        BY TicketsFacts DEF IInv, OutOK
      <3> QED
        BY <3>1, <2>2, <1>0
    <2>5. ASSUME NEW d \in Callers, pc'[d] = "waiting"
          PROVE  \A u \in Out' : u.id # mine'[d].id
      <3>1. CASE d = c
        BY <3>1, <2>2, <1>0, <1>5
      <3>2. CASE d # c
        BY <3>2, <2>2, <2>5, <1>0, <1>11 DEF IInv, OutOK
      <3> QED
        BY <3>1, <3>2
    <2>6. OutOK'
      BY <2>1, <2>2, <2>4, <2>5 DEF IInv, OutOK
    <2>7. QueueIsWaiters'
      <3>1. \A d \in Callers : pc'[d] = "waiting" <=> d = c \/ pc[d] = "waiting"
        BY <1>11, <1>0
      <3>2. mine'[c] = t /\ \A d \in Callers \ {c} : mine'[d] = mine[d]
        BY <1>0
      <3>3. {mine'[d] : d \in {e \in Callers : pc'[e] = "waiting"}}
              = {t} \cup {mine[d] : d \in {e \in Callers \ {c} : pc[e] = "waiting"}}
        BY <3>1, <3>2
      <3> QED
        BY <3>3, <1>2, <1>6, <1>11 DEF QueueIsWaiters, UniqueIds
    <2>8. TypeOK'
      <3>1. queue' \in Seq(Ticket)
        BY <1>2, <1>11
      <3>2. pc' \in [Callers -> {"idle", "waiting", "idlewait", "holding"}]
        BY <1>11, <1>0
      <3>3. notified' \subseteq Callers /\ aged' \subseteq Nat
        BY <1>11 DEF signal, Asleep, IInv, TypeOK
      <3> QED
        BY <1>9, <2>1, <3>1, <3>2, <3>3 DEF IInv, TypeOK
    <2> QED
      BY <1>7, <2>3, <2>6, <2>7, <2>8 DEF IInv
  <1> QED
    BY <1>3, <1>10, <1>11

LEMMA WakeStep ==
  ASSUME IInv, NEW c \in Callers, Wake(c)
  PROVE  IInv'
  <1>0. /\ pc[c] = "waiting" /\ seq' = seq /\ mine' = mine /\ UNCHANGED timers
        /\ \/ canAcquire(mine[c], queue) /\ Grant(c, mine[c], queue)
           \/ /\ notified' = notified \ {c}
              /\ UNCHANGED <<queue, lent, pc, aged>>
    BY DEF Wake
  <1>1. PICK t \in Tickets : t = mine[c] /\ t \in Ticket /\ t.id <= seq
    BY <1>0, IInvFacts
  <1>2. PICK q \in Seq(Ticket) : q = queue /\ UniqueIds(q)
    BY IInvFacts
  <1>3. CASE canAcquire(mine[c], queue) /\ Grant(c, mine[c], queue)
    <2>1. canAcquire(t, q) /\ Grant(c, t, q)
      BY <1>1, <1>2, <1>3
    <2>2. /\ mine \in [Callers -> Ticket] /\ mine' = [mine EXCEPT ![c] = t]
          /\ pc \in [Callers -> {"idle", "waiting", "idlewait", "holding"}]
          /\ seq \in Int /\ seq' \in Int /\ seq <= seq' /\ t.id <= seq'
      BY <1>0, <1>1, IInvFacts
    <2>3. \A d \in Callers \ {c} : pc[d] = "waiting" => mine[d].id # t.id
      BY <1>0, <1>1 DEF IInv, MineOK, Busy
    <2>4. \A u \in Out : u.id # t.id
      BY <1>0, <1>1 DEF IInv, OutOK
    <2>5. OutOK' /\ BarrierKeepsOut'
      BY <2>1, <2>2, <2>3, <2>4, GrantKeepsOut
    <2>6. ToSet(q) = {t} \cup {mine[d] : d \in {e \in Callers \ {c} : pc[e] = "waiting"}}
      BY <1>0, <1>1, <1>2 DEF IInv, QueueIsWaiters
    <2>7. QueueIsWaiters' /\ queue' \in Seq(Ticket)
      BY <2>1, <2>2, <2>3, <2>6, <1>1, <1>2, GrantKeepsQueue
    <2>8. MineOK'
      <3>1. \A d \in Callers : pc'[d] \in {"waiting", "holding"} => pc[d] \in {"waiting", "holding"}
        BY <2>1, <2>2, <1>0 DEF Grant
      <3> QED
        BY <3>1, <1>0, BusyShrinks DEF IInv
    <2>9. TypeOK'
      <3>1. /\ activeSessions' \subseteq Ticket /\ activeOneshot' \subseteq Ticket
            /\ activeTransports' \subseteq Ticket /\ activeBarriers' \subseteq Ticket
        BY <2>1, <1>1, AddActiveType DEF Grant, IInv
      <3>2. pc' \in [Callers -> {"idle", "waiting", "idlewait", "holding"}]
        BY <2>1, <2>2 DEF Grant
      <3>3. notified' \subseteq Callers /\ aged' \subseteq Nat
        BY <2>1 DEF Grant, Asleep, IInv, TypeOK
      <3> QED
        BY <2>7, <3>1, <3>2, <3>3, <1>0 DEF IInv, TypeOK, timers
    <2> QED
      BY <2>5, <2>7, <2>8, <2>9 DEF IInv
  <1>4. CASE notified' = notified \ {c} /\ UNCHANGED <<queue, lent, pc, aged>>
    <2>1. TypeOK'
      BY <1>0, <1>4 DEF IInv, TypeOK, lent, timers
    <2>2. OutOK' /\ BarrierKeepsOut'
      BY <1>0, <1>4, OutShrinks DEF IInv, lent
    <2>3. MineOK' /\ QueueIsWaiters'
      BY <1>0, <1>4, BusyShrinks, QueueStays DEF IInv
    <2> QED
      BY <2>1, <2>2, <2>3 DEF IInv
  <1> QED
    BY <1>0, <1>3, <1>4

LEMMA GiveUpStep ==
  ASSUME IInv, NEW c \in Callers, GiveUp(c)
  PROVE  IInv'
  <1>0. /\ pc[c] = "waiting" /\ pc' = [pc EXCEPT ![c] = "idle"]
        /\ queue' = removeTicket(queue, mine[c].id)
        /\ mine' = [mine EXCEPT ![c] = NoTicket]
        /\ notified' = Asleep \ {c} /\ aged' = aged \ {mine[c].id}
        /\ UNCHANGED <<seq, lent, timers>>
    BY DEF GiveUp
  <1>1. PICK t \in Ticket : t = mine[c]
    BY <1>0, IInvFacts
  <1>2. /\ queue' \in Seq(Ticket) /\ UniqueIds(queue')
        /\ ToSet(queue') = {u \in ToSet(queue) : u.id # t.id}
    BY <1>0, <1>1, IInvFacts, RemoveTicketFacts
  <1>3. \A d \in Callers \ {c} : pc'[d] = pc[d] /\ mine'[d] = mine[d]
    BY <1>0, IInvFacts
  <1>4. pc'[c] = "idle"
    BY <1>0, IInvFacts
  <1>5. QueueIsWaiters'
    <2>1. \A d \in Callers \ {c} : pc[d] = "waiting" => mine[d].id # t.id
      BY <1>0, <1>1 DEF IInv, MineOK, Busy
    <2>2. ToSet(queue') = {mine[d] : d \in {e \in Callers \ {c} : pc[e] = "waiting"}}
      BY <2>1, <1>1, <1>2 DEF IInv, QueueIsWaiters
    <2>3. {mine'[d] : d \in {e \in Callers : pc'[e] = "waiting"}}
            = {mine[d] : d \in {e \in Callers \ {c} : pc[e] = "waiting"}}
      BY <1>3, <1>4
    <2> QED
      BY <2>2, <2>3, <1>2 DEF QueueIsWaiters, UniqueIds
  <1>6. MineOK'
    BY <1>0, <1>3, <1>4, BusyShrinks DEF IInv
  <1>7. OutOK' /\ BarrierKeepsOut'
    BY <1>0, <1>3, <1>4, OutShrinks DEF IInv, lent
  <1>8. TypeOK'
    <2>1. mine' \in [Callers -> Ticket] /\ pc' \in [Callers -> {"idle", "waiting", "idlewait", "holding"}]
      BY <1>0, NoTicketType, IInvFacts
    <2>2. notified' \subseteq Callers /\ aged' \subseteq Nat
      BY <1>0 DEF Asleep, IInv, TypeOK
    <2> QED
      BY <2>1, <2>2, <1>0, <1>2 DEF IInv, TypeOK, lent, timers
  <1> QED
    BY <1>5, <1>6, <1>7, <1>8 DEF IInv

(* A holder goes: Lease.Release and Barrier.Release. *)
LEMMA HolderGoes ==
  ASSUME IInv, NEW c \in Callers, pc[c] = "holding",
         pc' = [pc EXCEPT ![c] = "idle"], mine' = [mine EXCEPT ![c] = NoTicket],
         UNCHANGED <<seq, queue, aged, fired, touches>>,
         activeSessions' \subseteq activeSessions, activeOneshot' \subseteq activeOneshot,
         activeTransports' \subseteq activeTransports, activeBarriers' \subseteq activeBarriers,
         expired' \subseteq expired,
         notified' \subseteq Callers
  PROVE  IInv'
  <1>1. /\ \A d \in Callers \ {c} : pc'[d] = pc[d] /\ mine'[d] = mine[d]
        /\ pc'[c] = "idle"
    BY IInvFacts
  <1>2. OutOK' /\ BarrierKeepsOut'
    BY <1>1, OutShrinks DEF IInv
  <1>3. MineOK' /\ QueueIsWaiters'
    BY <1>1, BusyShrinks, QueueStays DEF IInv
  <1>4. TypeOK'
    <2>1. mine' \in [Callers -> Ticket] /\ pc' \in [Callers -> {"idle", "waiting", "idlewait", "holding"}]
      BY NoTicketType, IInvFacts
    <2> QED
      BY <2>1 DEF IInv, TypeOK
  <1> QED
    BY <1>2, <1>3, <1>4 DEF IInv

LEMMA ReleaseStep ==
  ASSUME IInv, NEW c \in Callers, Release(c)
  PROVE  IInv'
  <1>1. notified' \subseteq Callers
    BY DEF Release, signal, Asleep, keepActive, IInv, TypeOK
  <1>2. /\ activeSessions' \subseteq activeSessions /\ activeOneshot' \subseteq activeOneshot
        /\ activeTransports' \subseteq activeTransports /\ activeBarriers' \subseteq activeBarriers
        /\ expired' \subseteq expired
    BY DEF Release, removeActive, keepActive
  <1> QED
    BY <1>1, <1>2, HolderGoes DEF Release

LEMMA ReleaseBarrierStep ==
  ASSUME IInv, NEW c \in Callers, releaseBarrier(c)
  PROVE  IInv'
  <1>1. notified' \subseteq Callers
    BY DEF releaseBarrier, signal, Asleep
  <1> QED
    BY <1>1, HolderGoes DEF releaseBarrier, timers

(* Nobody comes or goes: the timers, and the callers that look and sleep on. *)
LEMMA NobodyMoves ==
  ASSUME IInv, UNCHANGED <<seq, queue, mine>>,
         activeSessions' \subseteq activeSessions, activeOneshot' \subseteq activeOneshot,
         activeTransports' \subseteq activeTransports, activeBarriers' \subseteq activeBarriers,
         pc' \in [Callers -> {"idle", "waiting", "idlewait", "holding"}],
         \A c \in Callers : (pc'[c] = "waiting" <=> pc[c] = "waiting")
                              /\ (pc'[c] = "holding" <=> pc[c] = "holding"),
         notified' \subseteq Callers, aged' \subseteq Nat,
         expired' \subseteq Nat, fired' \subseteq Nat, touches' \in 0..MaxTouches
  PROVE  IInv'
  <1>1. OutOK' /\ BarrierKeepsOut'
    BY OutShrinks DEF IInv
  <1>2. MineOK' /\ QueueIsWaiters'
    BY BusyShrinks, QueueStays DEF IInv
  <1>3. TypeOK'
    BY DEF IInv, TypeOK
  <1> QED
    BY <1>1, <1>2, <1>3 DEF IInv

LEMMA TouchStep ==
  ASSUME IInv, NEW c \in Callers, touch(c)
  PROVE  IInv'
  <1>1. touches' \in 0..MaxTouches
    <2>1. touches \in 0..MaxTouches /\ touches < MaxTouches /\ touches' = touches + 1
      BY DEF touch, IInv, TypeOK
    <2> QED
      BY <2>1, ArbiterAssumption DEF ArbiterAssumption
  <1>2. expired' \subseteq Nat
    BY DEF touch, IInv, TypeOK
  <1> QED
    BY <1>1, <1>2, NobodyMoves DEF touch, lent, IInv, TypeOK

LEMMA AgeStep ==
  ASSUME IInv, NEW c \in Callers, Age(c)
  PROVE  IInv'
  <1>1. aged' \subseteq Nat
    BY IInvFacts DEF Age, IInv, TypeOK
  <1> QED
    BY <1>1, NobodyMoves DEF Age, lent, timers, IInv, TypeOK

LEMMA WaitIdleStep ==
  ASSUME IInv, NEW c \in Callers, WaitIdle(c) \/ WaitIdleGivesUp(c)
  PROVE  IInv'
  <1>1. /\ pc[c] \in {"idle", "idlewait"}
        /\ \/ pc' = [pc EXCEPT ![c] = "idle"]
           \/ pc' = [pc EXCEPT ![c] = "idlewait"]
        /\ notified' = notified \ {c}
        /\ UNCHANGED <<seq, queue, lent, mine, aged, timers>>
    BY DEF WaitIdle, WaitIdleGivesUp
  <1>2. /\ pc' \in [Callers -> {"idle", "waiting", "idlewait", "holding"}]
        /\ \A d \in Callers : (pc'[d] = "waiting" <=> pc[d] = "waiting")
                               /\ (pc'[d] = "holding" <=> pc[d] = "holding")
    BY <1>1, IInvFacts
  <1> QED
    BY <1>1, <1>2, NobodyMoves DEF lent, timers, IInv, TypeOK

LEMMA WatchdogFiresStep ==
  ASSUME IInv, NEW t \in Leases, WatchdogFires(t)
  PROVE  IInv'
  <1>1. expired' \subseteq Nat /\ fired' \subseteq Nat
    BY IInvFacts DEF WatchdogFires, IInv, TypeOK
  <1> QED
    BY <1>1, NobodyMoves DEF WatchdogFires, lent, IInv, TypeOK

LEMMA ReleaseExpiredStep ==
  ASSUME IInv, NEW id \in fired, releaseExpired(id)
  PROVE  IInv'
  <1>1. notified' \subseteq Callers
    BY DEF releaseExpired, signal, Asleep, keepActive, IInv, TypeOK
  <1>2. /\ activeSessions' \subseteq activeSessions /\ activeOneshot' \subseteq activeOneshot
        /\ activeTransports' \subseteq activeTransports /\ activeBarriers' \subseteq activeBarriers
        /\ expired' \subseteq expired
    BY DEF releaseExpired, removeActive, keepActive
  <1> QED
    BY <1>1, <1>2, NobodyMoves DEF releaseExpired, IInv, TypeOK

LEMMA NextIInv == IInv /\ [Next]_vars => IInv'
  <1> SUFFICES ASSUME IInv, [Next]_vars PROVE IInv'
    OBVIOUS
  <1>1. ASSUME NEW c \in Callers, NEW r \in Requests, Arrive(c, r) PROVE IInv'
    BY <1>1, ArriveStep
  <1>2. ASSUME NEW c \in Callers, Wake(c) PROVE IInv'
    BY <1>2, WakeStep
  <1>3. ASSUME NEW c \in Callers, GiveUp(c) PROVE IInv'
    BY <1>3, GiveUpStep
  <1>4. ASSUME NEW c \in Callers, Release(c) PROVE IInv'
    BY <1>4, ReleaseStep
  <1>5. ASSUME NEW c \in Callers, releaseBarrier(c) PROVE IInv'
    BY <1>5, ReleaseBarrierStep
  <1>6. ASSUME NEW c \in Callers, touch(c) PROVE IInv'
    BY <1>6, TouchStep
  <1>7. ASSUME NEW c \in Callers, Age(c) PROVE IInv'
    BY <1>7, AgeStep
  <1>8. ASSUME NEW c \in Callers, WaitIdle(c) \/ WaitIdleGivesUp(c) PROVE IInv'
    BY <1>8, WaitIdleStep
  <1>9. ASSUME NEW t \in Leases, WatchdogFires(t) PROVE IInv'
    BY <1>9, WatchdogFiresStep
  <1>10. ASSUME NEW id \in fired, releaseExpired(id) PROVE IInv'
    BY <1>10, ReleaseExpiredStep
  <1>11. CASE UNCHANGED vars
    <2>1. notified' \subseteq Callers
      BY <1>11 DEF vars, IInv, TypeOK
    <2> QED
      BY <1>11, <2>1, NobodyMoves DEF vars, lent, timers, IInv, TypeOK
  <1> QED
    BY <1>1, <1>2, <1>3, <1>4, <1>5, <1>6, <1>7, <1>8, <1>9, <1>10, <1>11 DEF Next

LEMMA IInvHolds == Spec => []IInv
  BY InitIInv, NextIInv, PTL DEF Spec

(* Every variable of the arbiter stays within its type: the four sets hold   *)
(* tickets, numbers stay within the bound.                                   *)
THEOREM TypeCorrect == Spec => []TypeOK
  <1>1. IInv => TypeOK
    BY DEF IInv
  <1> QED
    BY <1>1, IInvHolds, PTL

(* For any callers, calls and limits: while BeginBarrier's barrier is up no  *)
(* lease of a class it blocks is out, of whatever kind or age.               *)
THEOREM BarriersKeepOut == Spec => []BarrierKeepsOut
  <1>1. IInv => BarrierKeepsOut
    BY DEF IInv
  <1> QED
    BY <1>1, IInvHolds, PTL

(* For any callers, calls and limits: the queue is the set of the waiting    *)
(* callers' tickets, each once; no path out of acquire or BeginBarrier       *)
(* leaves one behind or takes a neighbour's.                                 *)
THEOREM QueueMatchesWaiters == Spec => []QueueIsWaiters
  <1>1. IInv => QueueIsWaiters
    BY DEF IInv
  <1> QED
    BY <1>1, IInvHolds, PTL

-----------------------------------------------------------------------------
(* The refinement.  The one hard step is that the queue's choice of the next *)
(* transport is a compatible one.                                            *)

(* IdOfFirst gives the number of an entry it was asked to look among. *)
LEMMA IdOfFirstFacts ==
  ASSUME NEW q \in Seq(Ticket), NEW S \in SUBSET DOMAIN q, S # {}
  PROVE  \E i \in S : IdOfFirst(q, S) = q[i].id
  <1>1. S \in SUBSET Nat
    BY LenProperties
  <1>2. \E i \in S : \A j \in S : i <= j
    BY <1>1, LeastExists
  <1> QED
    BY <1>2 DEF IdOfFirst

(* Whatever selectedTransportLocked selects is a transport that can be given *)
(* now, whether it was preferred for its class, its age or its place.        *)
LEMMA SelectedTransportIsEligible ==
  ASSUME NEW q \in Seq(Ticket), UniqueIds(q), NEW t \in ToSet(q), t.id # 0,
         selectedTransport(q) = t.id
  PROVE  t.leaseType = "transport" /\ canAcquireTransportNow(t)
  <1> DEFINE aka == {i \in Eligible(q) : q[i].class = "USIMAKA"}
             old == {i \in Eligible(q) \ aka : q[i].id \in aged}
  <1>1. Eligible(q) \in SUBSET DOMAIN q
    BY DEF Eligible
  <1>a. selectedTransport(q) =
          IF old # {} THEN IdOfFirst(q, old)
          ELSE IF aka # {} THEN IdOfFirst(q, aka)
          ELSE IF Eligible(q) # {} THEN IdOfFirst(q, Eligible(q)) ELSE 0
    BY DEF selectedTransport
  <1>b. old \in SUBSET Eligible(q) /\ aka \in SUBSET Eligible(q)
    OBVIOUS
  <1> HIDE DEF old, aka
  <1>2. PICK i \in Eligible(q) : q[i].id = t.id
    <2>1. PICK S \in SUBSET Eligible(q) : S # {} /\ IdOfFirst(q, S) = t.id
      BY <1>a, <1>b
    <2> QED
      BY <1>1, <2>1, IdOfFirstFacts
  <1>3. PICK j \in DOMAIN q : q[j] = t
    BY DEF ToSet
  <1>4. q[i] = t
    BY <1>1, <1>2, <1>3 DEF UniqueIds
  <1>5. i \in 1..i
    <2>1. i \in DOMAIN q /\ DOMAIN q = 1..Len(q) /\ Len(q) \in Nat
      BY <1>1, LenProperties
    <2> QED
      BY <2>1
  <1>6. ~EndsScan(q[i]) /\ canAcquireTransportNow(q[i])
    BY <1>5 DEF Eligible
  <1> QED
    BY <1>4, <1>6 DEF EndsScan

(* The abstract specification counts as this one does. *)
LEMMA SameCardinality == \A S : Access!Cardinality(S) = Cardinality(S)
  BY DEF Access!Cardinality, Cardinality

(* What canAcquireLeaseLocked lets through can join the leases that are out. *)
LEMMA GrantedIsCompatible ==
  ASSUME IInv, NEW t \in Tickets, NEW q \in Seq(Ticket), UniqueIds(q), t \in ToSet(q),
         t.kind # "barrier", canAcquire(t, q)
  PROVE  Access!Lend(t) <=> Leases' = Leases \cup {t} /\ activeBarriers' = activeBarriers
  <1>0. t.leaseType \in {"session", "oneshot", "transport"} /\ t.kind = "lease" /\ t.id # 0
    BY TicketsFacts DEF LeaseTypes
  <1>1. canAcquireLease(t, q)
    BY DEF canAcquire
  <1>2. /\ \A u \in activeSessions : u.leaseType = "session"
        /\ \A u \in activeOneshot : u.leaseType = "oneshot"
        /\ \A u \in activeTransports : u.leaseType = "transport"
    BY DEF IInv, OutOK
  <1>3. Access!Compatible(t, Leases)
    <2>1. CASE t.leaseType = "session"
      <3>1. Leases = activeSessions /\ Cardinality(activeSessions) < MaxSessions
        BY <1>1, <2>1 DEF canAcquireLease, Leases
      <3>2. Leases = Access!OfType(Leases, "session")
        BY <1>2, <3>1 DEF Access!OfType
      <3>3. Cardinality(Leases) < MaxSessions
        BY <3>1
      <3> QED
        BY <2>1, <3>2, <3>3, SameCardinality DEF Access!Compatible
    <2>2. CASE t.leaseType = "oneshot"
      BY <1>1, <2>2 DEF canAcquireLease, Access!Compatible
    <2>3. CASE t.leaseType = "transport"
      <3>1. Leases = activeTransports /\ selectedTransport(q) = t.id
        BY <1>1, <2>3 DEF canAcquireLease, Leases
      <3>2. canAcquireTransportNow(t)
        BY <1>0, <3>1, SelectedTransportIsEligible
      <3>3. CASE t.scope # "qmi_channel"
        <4>1. Leases = {}
          BY <3>1, <3>2, <3>3 DEF canAcquireTransportNow
        <4> QED
          BY <4>1, <2>3, <3>3 DEF Access!Compatible
      <3>4. CASE t.scope = "qmi_channel"
        <4>1. /\ activeTransports = QMITransports
              /\ Cardinality(QMITransports) < MaxQMITransports
              /\ \A u \in QMITransports : u.channel # t.channel
          BY <3>2, <3>4 DEF canAcquireTransportNow
        <4>2. Access!QMIOnly(Leases) = QMITransports
          BY <1>2, <3>1 DEF Access!QMIOnly, Access!OfType, QMITransports
        <4>3. /\ Leases = Access!QMIOnly(Leases)
              /\ Cardinality(Leases) < MaxQMITransports
              /\ \A u \in Leases : u.channel # t.channel
          BY <3>1, <4>1, <4>2
        <4> QED
          BY <4>3, <2>3, <3>4, SameCardinality DEF Access!Compatible
      <3> QED
        BY <3>3, <3>4
    <2> QED
      BY <1>0, <2>1, <2>2, <2>3
  <1>4. \A b \in activeBarriers : t.class \notin b.blocked
    BY <1>1 DEF canAcquireLease, isBlockedByActiveBarrier
  <1> QED
    BY <1>0, <1>3, <1>4 DEF Access!Lend

(* A grant is a Lend or a Raise. *)
LEMMA GrantRefines ==
  ASSUME IInv, NEW c \in Callers, NEW t \in Tickets, NEW q \in Seq(Ticket), UniqueIds(q),
         t \in ToSet(q), canAcquire(t, q), Grant(c, t, q)
  PROVE  Access!Lend(t) \/ Access!Raise(t)
  <1>0. /\ t.leaseType \in LeaseTypes
        /\ t.kind = "barrier" <=> t.leaseType = "barrier"
    BY TicketsFacts
  <1>1. CASE t.kind = "barrier"
    <2>1. Leases = {}
      BY <1>1 DEF canAcquire, canAcquireBarrier
    <2>2. /\ activeSessions' = activeSessions /\ activeOneshot' = activeOneshot
          /\ activeTransports' = activeTransports
          /\ activeBarriers' = activeBarriers \cup {t}
      BY <1>0, <1>1 DEF Grant, addActive
    <2>3. Leases' = Leases
      BY <2>2 DEF Leases
    <2> QED
      BY <1>1, <2>1, <2>2, <2>3 DEF Access!Raise
  <1>2. CASE t.kind # "barrier"
    <2>1. activeBarriers' = activeBarriers
      BY <1>0, <1>2 DEF Grant, addActive
    <2>2. t.leaseType = "oneshot" => activeOneshot = {}
      BY <1>2 DEF canAcquire, canAcquireLease, Leases
    <2>3. Leases' = Leases \cup {t}
      <3>1. CASE t.leaseType = "session"
        BY <3>1 DEF Grant, addActive, Leases
      <3>2. CASE t.leaseType = "oneshot"
        BY <2>2, <3>2 DEF Grant, addActive, Leases
      <3>3. CASE t.leaseType = "transport"
        BY <3>3 DEF Grant, addActive, Leases
      <3> QED
        BY <1>0, <1>2, <3>1, <3>2, <3>3 DEF LeaseTypes
    <2> QED
      BY <1>2, <2>1, <2>3, GrantedIsCompatible
  <1> QED
    BY <1>1, <1>2

(* removeActive takes one lease out, whichever set it is in. *)
LEMMA RemoveActiveRefines ==
  ASSUME IInv, NEW id, isActive(id), removeActive(id), activeBarriers' = activeBarriers
  PROVE  \E t \in Tickets : Access!Return(t)
  <1>1. PICK t \in Leases : t.id = id
    BY DEF isActive
  <1>2. t \in Tickets /\ \A u \in Leases : u.id = id => u = t
    BY <1>1 DEF IInv, OutOK, Out
  <1>3. Leases' = Leases \ {t}
    BY <1>1, <1>2 DEF removeActive, Leases
  <1> QED
    BY <1>1, <1>2, <1>3 DEF Access!Return

(* Every step of the arbiter is a step of ApduAccess or leaves what it sees. *)
LEMMA StepRefines == IInv /\ [Next]_vars => [Access!Next]_(Access!vars)
  <1> SUFFICES ASSUME IInv, [Next]_vars PROVE Access!Next \/ UNCHANGED <<Leases, activeBarriers>>
    BY DEF Access!vars
  <1>0. UNCHANGED lent => UNCHANGED <<Leases, activeBarriers>>
    BY DEF lent, Leases
  <1>1. ASSUME NEW c \in Callers, NEW r \in Requests, Arrive(c, r)
        PROVE  Access!Next \/ UNCHANGED <<Leases, activeBarriers>>
    <2>1. seq \in Nat /\ MaxSeq \in Nat /\ seq < MaxSeq
      BY <1>1, IInvFacts DEF Arrive
    <2>2. PICK t \in Tickets : t = TicketOf(r, seq + 1) /\ t \in Ticket /\ t.id = seq + 1
      <3>1. seq + 1 \in 1..MaxSeq
        BY <2>1
      <3> QED
        BY <3>1, <2>1, TicketOfFacts DEF Tickets
    <2>3. PICK q \in Seq(Ticket) :
            q = Append(queue, t) /\ UniqueIds(q) /\ ToSet(q) = ToSet(queue) \cup {t}
      <3>1. \A i \in DOMAIN queue : queue[i].id # t.id
        BY <2>1, <2>2, IInvFacts
      <3> QED
        BY <3>1, <2>2, IInvFacts, AppendTicketFacts
    <2>4. (canAcquire(t, q) /\ Grant(c, t, q)) \/ UNCHANGED lent
      BY <1>1, <2>2, <2>3 DEF Arrive
    <2> QED
      BY <1>0, <2>3, <2>4, GrantRefines DEF Access!Next
  <1>2. ASSUME NEW c \in Callers, Wake(c)
        PROVE  Access!Next \/ UNCHANGED <<Leases, activeBarriers>>
    <2>1. PICK t \in Tickets : t = mine[c]
      BY <1>2, IInvFacts DEF Wake
    <2>2. PICK q \in Seq(Ticket) : q = queue /\ UniqueIds(q)
      BY IInvFacts
    <2>3. t \in ToSet(q)
      BY <1>2, <2>1, <2>2 DEF Wake, IInv, QueueIsWaiters
    <2>4. (canAcquire(t, q) /\ Grant(c, t, q)) \/ UNCHANGED lent
      BY <1>2, <2>1, <2>2 DEF Wake
    <2> QED
      BY <1>0, <2>2, <2>3, <2>4, GrantRefines DEF Access!Next
  <1>3. ASSUME NEW c \in Callers, Release(c)
        PROVE  Access!Next \/ UNCHANGED <<Leases, activeBarriers>>
    <2>1. CASE isActive(mine[c].id) /\ removeActive(mine[c].id)
      <3>1. PICK id : id = mine[c].id
        OBVIOUS
      <3>2. isActive(id) /\ removeActive(id)
        BY <2>1, <3>1
      <3> QED
        BY <1>3, <3>2, RemoveActiveRefines DEF Release, Access!Next
    <2>2. CASE keepActive
      BY <1>3, <2>2 DEF Release, keepActive, Leases
    <2> QED
      BY <1>3, <2>1, <2>2 DEF Release
  <1>4. ASSUME NEW c \in Callers, releaseBarrier(c)
        PROVE  Access!Next \/ UNCHANGED <<Leases, activeBarriers>>
    <2>1. Leases' = Leases
      BY <1>4 DEF releaseBarrier, Leases
    <2>2. activeBarriers' = {b \in activeBarriers : b.id # mine[c].id}
      BY <1>4 DEF releaseBarrier
    <2>3. CASE \E b \in activeBarriers : b.id = mine[c].id
      <3>1. PICK b \in activeBarriers : b.id = mine[c].id
        BY <2>3
      <3>2. b \in Tickets /\ \A u \in activeBarriers : u.id = b.id => u = b
        BY DEF IInv, OutOK, Out
      <3>3. activeBarriers' = activeBarriers \ {b}
        BY <2>2, <3>1, <3>2
      <3> QED
        BY <2>1, <3>2, <3>3 DEF Access!Next, Access!Lower
    <2>4. CASE ~\E b \in activeBarriers : b.id = mine[c].id
      BY <2>1, <2>2, <2>4
    <2> QED
      BY <2>3, <2>4
  <1>5. ASSUME NEW id \in fired, releaseExpired(id)
        PROVE  Access!Next \/ UNCHANGED <<Leases, activeBarriers>>
    <2>1. CASE isActive(id) /\ removeActive(id)
      BY <1>5, <2>1, RemoveActiveRefines DEF releaseExpired, Access!Next
    <2>2. CASE keepActive
      BY <1>5, <2>2 DEF releaseExpired, keepActive, Leases
    <2> QED
      BY <1>5, <2>1, <2>2 DEF releaseExpired
  <1>6. ASSUME NEW c \in Callers,
               \/ GiveUp(c) \/ touch(c) \/ Age(c) \/ WaitIdle(c) \/ WaitIdleGivesUp(c)
        PROVE  UNCHANGED <<Leases, activeBarriers>>
    <2>1. CASE GiveUp(c)
      BY <1>0, <2>1 DEF GiveUp
    <2>2. CASE touch(c)
      BY <1>0, <2>2 DEF touch
    <2>3. CASE Age(c)
      BY <1>0, <2>3 DEF Age
    <2>4. CASE WaitIdle(c) \/ WaitIdleGivesUp(c)
      BY <1>0, <2>4 DEF WaitIdle, WaitIdleGivesUp
    <2> QED
      BY <1>6, <2>1, <2>2, <2>3, <2>4
  <1>7. ASSUME NEW t \in Leases, WatchdogFires(t)
        PROVE  UNCHANGED <<Leases, activeBarriers>>
    BY <1>0, <1>7 DEF WatchdogFires
  <1>8. CASE UNCHANGED vars
    BY <1>0, <1>8 DEF vars
  <1> QED
    BY <1>1, <1>2, <1>3, <1>4, <1>5, <1>6, <1>7, <1>8 DEF Next

LEMMA InitRefines == Init => Access!Init
  BY DEF Init, Access!Init, Leases

(* The arbiter implements ApduAccess: whatever the queue, the classes, the   *)
(* ages, the deadlines and the order of wake-ups select, leases and barriers *)
(* are out together only as ApduAccess allows.                               *)
THEOREM Refinement == Spec => ImplementsAccess
  <1>1. IInv /\ [Next]_vars => [Access!Next]_(Access!vars)
    BY StepRefines
  <1> QED
    BY <1>1, InitRefines, IInvHolds, PTL DEF Spec, ImplementsAccess, Access!Spec

-----------------------------------------------------------------------------
(* No lost wake-up.  The property speaks of the moments at which every       *)
(* channel is open; what each step keeps is the same claim for each sleeper  *)
(* whose own channel is open.                                                *)

SleepersAreRight ==
    \A c \in Callers :
        c \notin notified =>
            /\ pc[c] = "waiting" /\ aged = {} => ~canAcquire(mine[c], queue)
            /\ pc[c] = "idlewait" => ~isIdle

(* A decision reads what is out, the ages, the ticket and the queue, and      *)
(* nothing else.                                                             *)
LEMMA SameRule ==
  ASSUME NEW c \in Callers, NEW t, NEW q, UNCHANGED <<lent, aged>>, mine'[c] = t, queue' = q
  PROVE  canAcquire(mine[c], queue)' <=> canAcquire(t, q)
  <1>1. /\ activeSessions' = activeSessions /\ activeOneshot' = activeOneshot
        /\ activeTransports' = activeTransports /\ activeBarriers' = activeBarriers
        /\ aged' = aged
    BY DEF lent
  <1>2. Leases' = Leases /\ QMITransports' = QMITransports
    BY <1>1 DEF Leases, QMITransports
  <1> QED
    BY <1>1, <1>2 DEF canAcquire, canAcquireBarrier, canAcquireLease, selectedTransport,
       selectedBarrier, Eligible, EndsScan, canAcquireTransportNow, transportWaitGatesQueue,
       isBlockedByActiveBarrier, hasPendingBarrierAhead, queueHeadIs, IdOfFirst

(* A step that leaves those leaves a sleeper where it was.                   *)
LEMMA SameDecision ==
  ASSUME NEW c \in Callers, UNCHANGED <<queue, lent, aged>>, mine'[c] = mine[c]
  PROVE  /\ canAcquire(mine[c], queue)' <=> canAcquire(mine[c], queue)
         /\ isIdle' <=> isIdle
  <1>1. PICK t, q : t = mine[c] /\ q = queue
    OBVIOUS
  <1>2. canAcquire(mine[c], queue)' <=> canAcquire(t, q)
    BY <1>1, SameRule
  <1>3. isIdle' <=> isIdle
    BY DEF isIdle, Leases, lent
  <1> QED
    BY <1>1, <1>2, <1>3

(* Who can be asleep after a step in which everybody asleep was told.        *)
LEMMA EverybodyTold ==
  ASSUME pc \in [Callers -> {"idle", "waiting", "idlewait", "holding"}],
         NEW c \in Callers, NEW s, pc' = [pc EXCEPT ![c] = s], s \notin {"waiting", "idlewait"},
         Asleep \ {c} \subseteq notified'
  PROVE  SleepersAreRight'
  BY DEF SleepersAreRight, Asleep

(* A step that leaves what the decisions read and puts nobody to sleep.      *)
LEMMA NobodyFallsAsleep ==
  ASSUME SleepersAreRight, UNCHANGED <<queue, lent, aged>>, notified' = notified,
         \A c \in Callers : pc'[c] \in {"waiting", "idlewait"} =>
                               pc'[c] = pc[c] /\ mine'[c] = mine[c]
  PROVE  SleepersAreRight'
  BY SameDecision DEF SleepersAreRight

(* Every step keeps it: whoever changes what a decision reads tells all.      *)
LEMMA SleepersStep ==
  ASSUME IInv, SleepersAreRight, [Next]_vars
  PROVE  SleepersAreRight'
  <1>0. /\ pc \in [Callers -> {"idle", "waiting", "idlewait", "holding"}]
        /\ mine \in [Callers -> Ticket]
    BY IInvFacts
  <1>1. ASSUME NEW c \in Callers, NEW r \in Requests, Arrive(c, r) PROVE SleepersAreRight'
    <2>0. PICK t, q : t = TicketOf(r, seq + 1) /\ q = Append(queue, t)
      OBVIOUS
    <2>1. CASE Grant(c, t, q)
      <3>1. pc' = [pc EXCEPT ![c] = "holding"] /\ notified' = Asleep \ {c}
        BY <2>1 DEF Grant
      <3> QED
        BY <3>1, <1>0, EverybodyTold
    <2>2. CASE /\ ~canAcquire(t, q) /\ queue' = q
               /\ pc' = [pc EXCEPT ![c] = "waiting"]
               /\ signal /\ UNCHANGED <<lent, aged>>
      <3>1. \A d \in Callers \ {c} : pc'[d] \in {"waiting", "idlewait"} => d \in notified'
        BY <1>0, <2>2 DEF signal, Asleep
      <3>2. pc'[c] = "waiting" /\ mine'[c] = t
        BY <1>0, <1>1, <2>0, <2>2 DEF Arrive
      <3>3. ~canAcquire(mine[c], queue)'
        BY <2>2, <3>2, SameRule
      <3> QED
        BY <3>1, <3>2, <3>3 DEF SleepersAreRight
    <2> QED
      BY <1>1, <2>0, <2>1, <2>2 DEF Arrive
  <1>2. ASSUME NEW c \in Callers, Wake(c) PROVE SleepersAreRight'
    <2>1. CASE Grant(c, mine[c], queue)
      <3>1. pc' = [pc EXCEPT ![c] = "holding"] /\ notified' = Asleep \ {c}
        BY <2>1 DEF Grant
      <3> QED
        BY <3>1, <1>0, EverybodyTold
    <2>2. CASE /\ ~canAcquire(mine[c], queue)
               /\ notified' = notified \ {c}
               /\ UNCHANGED <<queue, lent, pc, aged>>
      <3>1. mine' = mine
        BY <1>2 DEF Wake
      <3>2. \A d \in Callers : /\ canAcquire(mine[d], queue)' <=> canAcquire(mine[d], queue)
                               /\ isIdle' <=> isIdle
        BY <2>2, <3>1, SameDecision
      <3> QED
        BY <1>2, <2>2, <3>2 DEF Wake, SleepersAreRight
    <2> QED
      BY <1>2, <2>1, <2>2 DEF Wake
  <1>3. ASSUME NEW c \in Callers, GiveUp(c) PROVE SleepersAreRight'
    <2>1. pc' = [pc EXCEPT ![c] = "idle"] /\ notified' = Asleep \ {c}
      BY <1>3 DEF GiveUp
    <2> QED
      BY <2>1, <1>0, EverybodyTold
  <1>4. ASSUME NEW c \in Callers, Release(c) PROVE SleepersAreRight'
    <2>1. CASE signal
      <3>1. pc' = [pc EXCEPT ![c] = "idle"] /\ notified' = Asleep
        BY <1>4, <2>1 DEF Release, signal
      <3> QED
        BY <3>1, <1>0, EverybodyTold
    <2>2. CASE keepActive
      <3>1. UNCHANGED <<queue, lent, aged>> /\ notified' = notified
        BY <1>4, <2>2 DEF Release, keepActive, lent
      <3>2. pc' = [pc EXCEPT ![c] = "idle"] /\ mine' = [mine EXCEPT ![c] = NoTicket]
        BY <1>4 DEF Release
      <3> QED
        BY <3>1, <3>2, <1>0, NobodyFallsAsleep
    <2> QED
      BY <1>4, <2>1, <2>2 DEF Release
  <1>5. ASSUME NEW c \in Callers, releaseBarrier(c) PROVE SleepersAreRight'
    <2>1. pc' = [pc EXCEPT ![c] = "idle"] /\ notified' = Asleep
      BY <1>5 DEF releaseBarrier, signal
    <2> QED
      BY <2>1, <1>0, EverybodyTold
  <1>6. ASSUME NEW c \in Callers, touch(c) PROVE SleepersAreRight'
    BY <1>6, NobodyFallsAsleep DEF touch
  <1>7. ASSUME NEW c \in Callers, Age(c) PROVE SleepersAreRight'
    <2>1. aged' # {} /\ UNCHANGED <<queue, lent, pc, mine, notified>>
      BY <1>7 DEF Age
    <2>2. isIdle' <=> isIdle
      BY <2>1 DEF isIdle, Leases, lent
    <2> QED
      BY <2>1, <2>2 DEF SleepersAreRight
  <1>8. ASSUME NEW c \in Callers, WaitIdle(c) \/ WaitIdleGivesUp(c) PROVE SleepersAreRight'
    <2>1. UNCHANGED <<queue, lent, mine, aged>> /\ notified' = notified \ {c}
      BY <1>8 DEF WaitIdle, WaitIdleGivesUp
    <2>2. \/ pc' = [pc EXCEPT ![c] = "idle"]
          \/ pc' = [pc EXCEPT ![c] = "idlewait"] /\ ~isIdle
      BY <1>8 DEF WaitIdle, WaitIdleGivesUp
    <2>3. \A d \in Callers : /\ canAcquire(mine[d], queue)' <=> canAcquire(mine[d], queue)
                             /\ isIdle' <=> isIdle
      BY <2>1, SameDecision
    <2> QED
      BY <1>0, <2>1, <2>2, <2>3 DEF SleepersAreRight
  <1>9. ASSUME NEW t \in Leases, WatchdogFires(t) PROVE SleepersAreRight'
    BY <1>9, NobodyFallsAsleep DEF WatchdogFires
  <1>10. ASSUME NEW id \in fired, releaseExpired(id) PROVE SleepersAreRight'
    <2>1. pc' = pc
      BY <1>10 DEF releaseExpired
    <2>2. CASE signal
      BY <2>1, <2>2, <1>0 DEF signal, Asleep, SleepersAreRight
    <2>3. CASE keepActive
      <3>1. UNCHANGED <<queue, lent, aged>> /\ notified' = notified /\ mine' = mine
        BY <1>10, <2>3 DEF releaseExpired, keepActive, lent
      <3> QED
        BY <3>1, <2>1, NobodyFallsAsleep
    <2> QED
      BY <1>10, <2>2, <2>3 DEF releaseExpired
  <1>11. CASE UNCHANGED vars
    BY <1>11, NobodyFallsAsleep DEF vars
  <1> QED
    BY <1>1, <1>2, <1>3, <1>4, <1>5, <1>6, <1>7, <1>8, <1>9, <1>10, <1>11 DEF Next

(* For any callers, calls and limits: signalLocked is called wherever it     *)
(* must be.  When no sleeper's channel is closed, and no wait has reached    *)
(* transportPriorityAging, none of the sleepers could proceed.               *)
THEOREM NoWakeupIsLost == Spec => []NoLostWakeup
  <1>1. Init => SleepersAreRight
    BY DEF Init, SleepersAreRight
  <1>2. IInv /\ SleepersAreRight /\ [Next]_vars => SleepersAreRight'
    BY SleepersStep
  <1>3. SleepersAreRight => NoLostWakeup
    BY DEF SleepersAreRight, NoLostWakeup
  <1> QED
    BY <1>1, <1>2, <1>3, IInvHolds, PTL DEF Spec

-----------------------------------------------------------------------------
(* A lease ends by right.  The number by which Release and the watchdog find *)
(* a lease must be its holder's and nobody else's.                           *)

HoldersOwn ==
    \A c \in Callers : pc[c] = "holding" => \A t \in Out : t.id = mine[c].id => t = mine[c]

(* A grant adds its ticket to what is out and takes nothing away.            *)
LEMMA GrantAdds ==
  ASSUME NEW c \in Callers, NEW t \in Tickets, NEW q, canAcquire(t, q), Grant(c, t, q)
  PROVE  Leases \subseteq Leases' /\ Out' = Out \cup {t}
  <1>1. /\ t.leaseType \in LeaseTypes
        /\ t.kind = "barrier" <=> t.leaseType = "barrier"
    BY TicketsFacts
  <1>2. t.leaseType = "oneshot" => activeOneshot = {}
    BY <1>1 DEF canAcquire, canAcquireLease, Leases
  <1>3. CASE t.leaseType = "session"
    BY <1>3 DEF Grant, addActive, Out, Leases
  <1>4. CASE t.leaseType = "oneshot"
    BY <1>2, <1>4 DEF Grant, addActive, Out, Leases
  <1>5. CASE t.leaseType = "transport"
    BY <1>5 DEF Grant, addActive, Out, Leases
  <1>6. CASE t.leaseType = "barrier"
    BY <1>6 DEF Grant, addActive, Out, Leases
  <1> QED
    BY <1>1, <1>3, <1>4, <1>5, <1>6 DEF LeaseTypes

(* The grant in a step: who gets which ticket, decided on which queue.       *)
GrantsIn(c, t, q) ==
    /\ canAcquire(t, q) /\ Grant(c, t, q)
    /\ mine' = [mine EXCEPT ![c] = t]
    /\ UNCHANGED timers
    /\ \/ pc[c] = "idle" /\ q = Append(queue, t) /\ t.id = seq + 1
       \/ pc[c] = "waiting" /\ q = queue /\ t = mine[c]

(* A step that grants nothing: what is out can shrink, by a release or by    *)
(* the watchdog, and nobody becomes a holder.                                *)
OnlyTakes ==
    /\ Out' \subseteq Out
    /\ \A c \in Callers : pc'[c] = "holding" => pc[c] = "holding" /\ mine'[c] = mine[c]
    /\ \/ UNCHANGED lent
       \/ \E c \in Callers : Release(c) \/ releaseBarrier(c)
       \/ \E id \in fired : releaseExpired(id)

(* What a step can do to what is out: grant, or only take away.              *)
LEMMA StepKinds ==
  ASSUME IInv, [Next]_vars
  PROVE  \/ \E c \in Callers, t \in Tickets : \E q \in Seq(Ticket) :
               /\ UniqueIds(q) /\ t \in ToSet(q) /\ GrantsIn(c, t, q)
         \/ OnlyTakes
  <1>0. /\ pc \in [Callers -> {"idle", "waiting", "idlewait", "holding"}]
        /\ mine \in [Callers -> Ticket]
    BY IInvFacts
  <1> DEFINE Gives == \E c \in Callers, t \in Tickets : \E q \in Seq(Ticket) :
                         /\ UniqueIds(q) /\ t \in ToSet(q) /\ GrantsIn(c, t, q)
  <1>a. UNCHANGED lent => Out' \subseteq Out
    BY DEF lent, Out, Leases
  <1>1. ASSUME NEW c \in Callers, NEW r \in Requests, Arrive(c, r) PROVE Gives \/ OnlyTakes
    <2>1. seq \in Nat /\ MaxSeq \in Nat /\ seq < MaxSeq
      BY <1>1, IInvFacts DEF Arrive
    <2>2. PICK t \in Tickets : t = TicketOf(r, seq + 1) /\ t \in Ticket /\ t.id = seq + 1
      <3>1. seq + 1 \in 1..MaxSeq
        BY <2>1
      <3> QED
        BY <3>1, <2>1, TicketOfFacts DEF Tickets
    <2>3. PICK q \in Seq(Ticket) :
            q = Append(queue, t) /\ UniqueIds(q) /\ ToSet(q) = ToSet(queue) \cup {t}
      <3>1. \A i \in DOMAIN queue : queue[i].id # t.id
        BY <2>1, <2>2, IInvFacts
      <3> QED
        BY <3>1, <2>2, IInvFacts, AppendTicketFacts
    <2>4. CASE canAcquire(t, q) /\ Grant(c, t, q)
      <3>1. GrantsIn(c, t, q)
        BY <1>1, <2>2, <2>3, <2>4 DEF Arrive, GrantsIn
      <3> QED
        BY <3>1, <2>3
    <2>5. CASE pc' = [pc EXCEPT ![c] = "waiting"] /\ UNCHANGED lent
      <3>1. mine' = [mine EXCEPT ![c] = t]
        BY <1>1, <2>2 DEF Arrive
      <3> QED
        BY <3>1, <2>5, <1>0, <1>a DEF OnlyTakes
    <2> QED
      BY <1>1, <2>2, <2>3, <2>4, <2>5 DEF Arrive
  <1>2. ASSUME NEW c \in Callers, Wake(c) PROVE Gives \/ OnlyTakes
    <2>1. PICK t \in Tickets : t = mine[c]
      BY <1>2, IInvFacts DEF Wake
    <2>2. PICK q \in Seq(Ticket) : q = queue /\ UniqueIds(q)
      BY IInvFacts
    <2>3. t \in ToSet(q)
      BY <1>2, <2>1, <2>2 DEF Wake, IInv, QueueIsWaiters
    <2>4. CASE canAcquire(t, q) /\ Grant(c, t, q)
      <3>1. mine' = [mine EXCEPT ![c] = t]
        BY <1>2, <2>1, <1>0 DEF Wake
      <3>2. GrantsIn(c, t, q)
        BY <1>2, <2>1, <2>2, <2>4, <3>1 DEF Wake, GrantsIn
      <3> QED
        BY <3>2, <2>2, <2>3
    <2>5. CASE UNCHANGED <<lent, pc>>
      BY <1>2, <2>5, <1>a DEF Wake, OnlyTakes
    <2> QED
      BY <1>2, <2>1, <2>2, <2>4, <2>5 DEF Wake
  <1>3. ASSUME NEW c \in Callers, GiveUp(c) PROVE OnlyTakes
    BY <1>3, <1>0, <1>a DEF GiveUp, OnlyTakes
  <1>4. ASSUME NEW c \in Callers, Release(c) PROVE OnlyTakes
    <2>1. Out' \subseteq Out
      BY <1>4 DEF Release, removeActive, keepActive, Out, Leases
    <2> QED
      BY <2>1, <1>4, <1>0 DEF Release, OnlyTakes
  <1>5. ASSUME NEW c \in Callers, releaseBarrier(c) PROVE OnlyTakes
    <2>1. Out' \subseteq Out
      BY <1>5 DEF releaseBarrier, Out, Leases
    <2> QED
      BY <2>1, <1>5, <1>0 DEF releaseBarrier, OnlyTakes
  <1>6. ASSUME NEW c \in Callers, touch(c) \/ Age(c) PROVE OnlyTakes
    BY <1>6, <1>a DEF touch, Age, OnlyTakes
  <1>7. ASSUME NEW c \in Callers, WaitIdle(c) \/ WaitIdleGivesUp(c) PROVE OnlyTakes
    BY <1>7, <1>0, <1>a DEF WaitIdle, WaitIdleGivesUp, OnlyTakes
  <1>8. ASSUME NEW t \in Leases, WatchdogFires(t) PROVE OnlyTakes
    BY <1>8, <1>a DEF WatchdogFires, OnlyTakes
  <1>9. ASSUME NEW id \in fired, releaseExpired(id) PROVE OnlyTakes
    <2>1. Out' \subseteq Out
      BY <1>9 DEF releaseExpired, removeActive, keepActive, Out, Leases
    <2> QED
      BY <2>1, <1>9 DEF releaseExpired, OnlyTakes
  <1>10. CASE UNCHANGED vars
    BY <1>10, <1>a DEF vars, OnlyTakes
  <1> QED
    BY <1>1, <1>2, <1>3, <1>4, <1>5, <1>6, <1>7, <1>8, <1>9, <1>10 DEF Next

(* Every step keeps it: a grant comes with a number nobody else has.          *)
LEMMA HoldersStep ==
  ASSUME IInv, HoldersOwn, [Next]_vars
  PROVE  HoldersOwn'
  <1>0. /\ pc \in [Callers -> {"idle", "waiting", "idlewait", "holding"}]
        /\ mine \in [Callers -> Ticket] /\ seq \in Nat
    BY IInvFacts
  <1>1. ASSUME NEW c \in Callers, NEW t \in Tickets, NEW q \in Seq(Ticket), GrantsIn(c, t, q)
        PROVE  HoldersOwn'
    <2>1. Out' = Out \cup {t}
      BY <1>1, GrantAdds DEF GrantsIn
    <2>2. \A u \in Out : u.id # t.id
      <3>1. CASE t.id = seq + 1
        <4>1. \A u \in Out : u.id \in Nat /\ u.id <= seq
          BY TicketsFacts DEF IInv, OutOK
        <4> QED
          BY <4>1, <3>1, <1>0
      <3>2. CASE pc[c] = "waiting" /\ t = mine[c]
        BY <3>2 DEF IInv, OutOK
      <3> QED
        BY <1>1, <3>1, <3>2 DEF GrantsIn
    <2>3. \A d \in Callers \ {c} : pc[d] = "holding" => mine[d].id # t.id
      <3>1. CASE t.id = seq + 1
        <4>1. \A d \in Busy : mine[d].id \in Nat /\ mine[d].id <= seq
          BY IInvFacts DEF IInv, MineOK, Busy
        <4> QED
          BY <4>1, <3>1, <1>0 DEF Busy
      <3>2. CASE pc[c] = "waiting" /\ t = mine[c]
        BY <3>2 DEF IInv, MineOK, Busy
      <3> QED
        BY <1>1, <3>1, <3>2 DEF GrantsIn
    <2>4. mine'[c] = t /\ \A d \in Callers \ {c} : mine'[d] = mine[d] /\ pc'[d] = pc[d]
      BY <1>0, <1>1 DEF GrantsIn, Grant
    <2> QED
      BY <2>1, <2>2, <2>3, <2>4 DEF HoldersOwn
  <1>2. CASE OnlyTakes
    BY <1>2 DEF HoldersOwn, OnlyTakes
  <1> QED
    BY <1>1, <1>2, StepKinds

(* The body of LeaseEndsByRight.                                             *)
EndsByRight ==
    \A t \in Leases \ Leases' :
        \/ \E c \in Callers : mine[c] = t /\ pc[c] = "holding" /\ pc'[c] = "idle"
        \/ t.id \in expired /\ t.id \in fired \ fired'

(* Every step that takes a lease away has the right to.                       *)
LEMMA EndsByRightStep ==
  ASSUME IInv, HoldersOwn, [Next]_vars
  PROVE  EndsByRight
  <1>0. pc \in [Callers -> {"idle", "waiting", "idlewait", "holding"}]
    BY IInvFacts
  <1>a. Leases \subseteq Leases' => EndsByRight
    BY DEF EndsByRight
  <1>1. ASSUME NEW c \in Callers, NEW t \in Tickets, NEW q \in Seq(Ticket), GrantsIn(c, t, q)
        PROVE  EndsByRight
    BY <1>1, <1>a, GrantAdds DEF GrantsIn
  <1>2. CASE UNCHANGED lent
    BY <1>2, <1>a DEF lent, Leases
  <1>3. ASSUME NEW c \in Callers, Release(c) PROVE EndsByRight
    <2>1. CASE removeActive(mine[c].id)
      <3>1. SUFFICES ASSUME NEW t \in Leases \ Leases'
                     PROVE  mine[c] = t /\ pc[c] = "holding" /\ pc'[c] = "idle"
        BY DEF EndsByRight
      <3>2. t.id = mine[c].id
        BY <2>1 DEF removeActive, Leases
      <3>3. pc[c] = "holding" /\ pc'[c] = "idle"
        BY <1>0, <1>3 DEF Release
      <3> QED
        BY <3>2, <3>3 DEF HoldersOwn, Out
    <2>2. CASE keepActive
      BY <2>2, <1>a DEF keepActive, Leases
    <2> QED
      BY <1>3, <2>1, <2>2 DEF Release
  <1>4. ASSUME NEW c \in Callers, releaseBarrier(c) PROVE EndsByRight
    BY <1>4, <1>a DEF releaseBarrier, Leases
  <1>5. ASSUME NEW id \in fired, releaseExpired(id) PROVE EndsByRight
    <2>1. CASE id \in expired /\ removeActive(id)
      <3>1. SUFFICES ASSUME NEW t \in Leases \ Leases'
                     PROVE  t.id \in expired /\ t.id \in fired \ fired'
        BY DEF EndsByRight
      <3>2. t.id = id
        BY <2>1 DEF removeActive, Leases
      <3> QED
        BY <1>5, <2>1, <3>2 DEF releaseExpired
    <2>2. CASE keepActive
      BY <2>2, <1>a DEF keepActive, Leases
    <2> QED
      BY <1>5, <2>1, <2>2 DEF releaseExpired
  <1> QED
    BY <1>1, <1>2, <1>3, <1>4, <1>5, StepKinds DEF OnlyTakes

(* The numbers are the holders' in every reachable state.                     *)
LEMMA HoldersOwnHolds == Spec => [](IInv /\ HoldersOwn)
  <1>1. Init => HoldersOwn
    BY DEF Init, HoldersOwn
  <1>2. IInv /\ HoldersOwn /\ [Next]_vars => HoldersOwn'
    BY HoldersStep
  <1> QED
    BY <1>1, <1>2, IInvHolds, PTL DEF Spec

(* For any callers, calls and limits: a lease ends because its holder gives  *)
(* it back or because the watchdog finds it past its deadline; neither the   *)
(* late Release of a former holder nor a callback that raced with Touch      *)
(* takes a lease away.                                                       *)
THEOREM LeasesEndByRight == Spec => LeaseEndsByRight
  <1>1. IInv /\ HoldersOwn /\ [Next]_vars => [EndsByRight]_vars
    BY EndsByRightStep
  <1>2. Spec => [][EndsByRight]_vars
    BY <1>1, HoldersOwnHolds, PTL DEF Spec
  <1> QED
    BY <1>2 DEF LeaseEndsByRight, EndsByRight

-----------------------------------------------------------------------------
(* No overtaking of a barrier.  Each kind of ticket has its own reason: a    *)
(* session or oneshot is served at the head of the queue only, a barrier     *)
(* only as the first of its kind, and the scan for a transport stops at      *)
(* whatever is not one.                                                      *)

(* IdOfFirst gives the number of the first entry it was asked to look among. *)
LEMMA IdOfFirstIsFirst ==
  ASSUME NEW q \in Seq(Ticket), NEW S \in SUBSET DOMAIN q, S # {}
  PROVE  \E i \in S : IdOfFirst(q, S) = q[i].id /\ \A j \in S : i <= j
  <1>1. S \in SUBSET Nat
    BY LenProperties
  <1>2. \E i \in S : \A j \in S : i <= j
    BY <1>1, LeastExists
  <1> QED
    BY <1>2 DEF IdOfFirst

(* The place of the selected transport is one the scan reaches.              *)
LEMMA SelectedTransportIsReached ==
  ASSUME NEW q \in Seq(Ticket), UniqueIds(q), NEW j \in DOMAIN q, q[j].id # 0,
         selectedTransport(q) = q[j].id
  PROVE  j \in Eligible(q)
  <1> DEFINE aka == {i \in Eligible(q) : q[i].class = "USIMAKA"}
             old == {i \in Eligible(q) \ aka : q[i].id \in aged}
  <1>1. Eligible(q) \in SUBSET DOMAIN q
    BY DEF Eligible
  <1>2. selectedTransport(q) =
          IF old # {} THEN IdOfFirst(q, old)
          ELSE IF aka # {} THEN IdOfFirst(q, aka)
          ELSE IF Eligible(q) # {} THEN IdOfFirst(q, Eligible(q)) ELSE 0
    BY DEF selectedTransport
  <1>3. old \in SUBSET Eligible(q) /\ aka \in SUBSET Eligible(q)
    OBVIOUS
  <1> HIDE DEF old, aka
  <1>4. PICK S \in SUBSET Eligible(q) : S # {} /\ IdOfFirst(q, S) = q[j].id
    BY <1>2, <1>3
  <1>5. PICK i \in S : q[i].id = q[j].id
    BY <1>1, <1>4, IdOfFirstFacts
  <1> QED
    BY <1>1, <1>5 DEF UniqueIds

(* Whoever may proceed has no barrier ahead of it in the queue.              *)
LEMMA NoBarrierAhead ==
  ASSUME NEW q \in Seq(Ticket), UniqueIds(q), NEW j \in DOMAIN q, q[j] \in Tickets,
         canAcquire(q[j], q), NEW i \in DOMAIN q, i < j,
         q[i].kind = "barrier", q[i].leaseType = "barrier"
  PROVE  FALSE
  <1>0. DOMAIN q = 1..Len(q) /\ Len(q) \in Nat
    BY LenProperties
  <1>1. /\ q[j].id # 0 /\ q[j].leaseType \in LeaseTypes
        /\ q[j].kind = "barrier" <=> q[j].leaseType = "barrier"
    BY TicketsFacts
  <1>2. CASE q[j].kind = "barrier"
    <2> DEFINE barriers == {k \in DOMAIN q : q[k].kind = "barrier"}
    <2>1. barriers \in SUBSET DOMAIN q /\ i \in barriers
      OBVIOUS
    <2>2. IdOfFirst(q, barriers) = q[j].id
      BY <1>2, <2>1 DEF canAcquire, canAcquireBarrier, selectedBarrier
    <2>3. PICK k \in barriers : IdOfFirst(q, barriers) = q[k].id /\ \A l \in barriers : k <= l
      BY <2>1, IdOfFirstIsFirst
    <2>4. k = j /\ k <= i
      BY <2>1, <2>2, <2>3 DEF UniqueIds
    <2> QED
      BY <2>4, <1>0
  <1>3. CASE q[j].leaseType \in {"session", "oneshot"}
    <2>1. q[1].id = q[j].id
      BY <1>1, <1>3 DEF canAcquire, canAcquireLease, queueHeadIs
    <2>2. 1 \in DOMAIN q
      BY <1>0
    <2>3. j = 1
      BY <2>1, <2>2 DEF UniqueIds
    <2> QED
      BY <2>3, <1>0
  <1>4. CASE q[j].leaseType = "transport"
    <2>1. selectedTransport(q) = q[j].id
      BY <1>1, <1>4 DEF canAcquire, canAcquireLease
    <2>2. j \in Eligible(q)
      BY <2>1, <1>1, SelectedTransportIsReached
    <2>3. i \in 1..j
      BY <1>0
    <2>4. ~EndsScan(q[i])
      BY <2>2, <2>3 DEF Eligible
    <2> QED
      BY <2>4 DEF EndsScan
  <1> QED
    BY <1>1, <1>2, <1>3, <1>4 DEF LeaseTypes

(* The body of NoOvertakingBarrier.                                          *)
NobodyOvertakes ==
    \A i, j \in DOMAIN queue :
        /\ i < j /\ queue[i].kind = "barrier"
        /\ queue[j] \in (Leases \cup activeBarriers)'
        => queue[i] \notin ToSet(queue')

(* No step serves a ticket with a barrier ahead of it.                        *)
LEMMA NobodyOvertakesStep ==
  ASSUME IInv, [Next]_vars
  PROVE  NobodyOvertakes
  <1>1. SUFFICES ASSUME NEW i \in DOMAIN queue, NEW j \in DOMAIN queue,
                        i < j, queue[i].kind = "barrier", queue[j] \in Out'
                 PROVE  FALSE
    BY DEF NobodyOvertakes, Out
  <1>2. queue \in Seq(Ticket) /\ UniqueIds(queue) /\ seq \in Nat
    BY IInvFacts
  <1>3. ASSUME NEW k \in DOMAIN queue
        PROVE  /\ queue[k] \in Tickets /\ queue[k].id \in Nat /\ queue[k].id <= seq
               /\ \A u \in Out : u.id # queue[k].id
    <2>1. queue[k] \in ToSet(queue)
      BY DEF ToSet
    <2>2. PICK c \in Callers : pc[c] = "waiting" /\ queue[k] = mine[c]
      BY <2>1 DEF IInv, QueueIsWaiters
    <2>3. queue[k] \in Tickets /\ \A u \in Out : u.id # queue[k].id
      BY <2>2, IInvFacts DEF IInv, OutOK
    <2> QED
      BY <2>3, IInvFacts
  <1>4. CASE OnlyTakes
    BY <1>1, <1>3, <1>4 DEF OnlyTakes
  <1>5. ASSUME NEW c \in Callers, NEW t \in Tickets, NEW q \in Seq(Ticket),
               UniqueIds(q), t \in ToSet(q), GrantsIn(c, t, q)
        PROVE  FALSE
    <2>1. queue[j] = t
      BY <1>1, <1>3, <1>5, GrantAdds DEF GrantsIn
    <2>2. t.id # seq + 1
      BY <2>1, <1>2, <1>3
    <2>3. q = queue /\ canAcquire(queue[j], queue)
      BY <1>5, <2>1, <2>2 DEF GrantsIn
    <2>4. queue[i].leaseType = "barrier" /\ queue[j] \in Tickets
      BY <1>1, <1>3, TicketsFacts
    <2> QED
      BY <1>1, <1>2, <2>3, <2>4, NoBarrierAhead
  <1> QED
    BY <1>4, <1>5, StepKinds

(* For any callers, calls and limits: nobody who queued behind a barrier is  *)
(* served while the barrier is still queued, so a stream of APDUs cannot     *)
(* hold a switch off.                                                        *)
THEOREM BarriersAreNotOvertaken == Spec => NoOvertakingBarrier
  <1>1. IInv /\ [Next]_vars => [NobodyOvertakes]_vars
    BY NobodyOvertakesStep
  <1>2. Spec => [][NobodyOvertakes]_vars
    BY <1>1, IInvHolds, PTL DEF Spec
  <1> QED
    BY <1>2 DEF NoOvertakingBarrier, NobodyOvertakes
-----------------------------------------------------------------------------
(* How the device is shared.  The limits are read off what ApduAccess lets   *)
(* join, so the refinement carries them over: every step is a Lend, which    *)
(* keeps them, or takes a lease away, or leaves the leases alone.            *)

Sessions == {t \in Leases : t.leaseType = "session"}
Channels == {t \in Leases : t.leaseType = "transport" /\ t.scope = "qmi_channel"}

SharedWithinLimits ==
    /\ IsFiniteSet(Leases)
    /\ Cardinality(Sessions) <= MaxSessions
    /\ Cardinality(Channels) <= MaxQMITransports
    /\ \A t, u \in Leases :
          \/ t = u
          \/ t \in Sessions /\ u \in Sessions
          \/ t \in Channels /\ u \in Channels /\ t.channel # u.channel

(* Fewer leases are within the limits if more were.                          *)
LEMMA FewerLeases ==
  ASSUME SharedWithinLimits, Leases' \subseteq Leases
  PROVE  SharedWithinLimits'
  <1>1. Sessions' \subseteq Sessions /\ Channels' \subseteq Channels
    BY DEF Sessions, Channels
  <1>2. IsFiniteSet(Leases') /\ IsFiniteSet(Sessions) /\ IsFiniteSet(Channels)
    BY FS_Subset DEF SharedWithinLimits, Sessions, Channels
  <1>3. /\ Cardinality(Sessions') <= Cardinality(Sessions)
        /\ Cardinality(Channels') <= Cardinality(Channels)
        /\ Cardinality(Sessions) \in Nat /\ Cardinality(Channels) \in Nat
        /\ Cardinality(Sessions') \in Nat /\ Cardinality(Channels') \in Nat
    BY <1>1, <1>2, FS_Subset, FS_CardinalityType
  <1>4. Cardinality(Sessions') <= MaxSessions /\ Cardinality(Channels') <= MaxQMITransports
    BY <1>3, ArbiterAssumption DEF SharedWithinLimits, ArbiterAssumption
  <1>5. \A t \in Leases' : /\ t \in Sessions => t \in Sessions'
                           /\ t \in Channels => t \in Channels'
    BY DEF Sessions, Channels
  <1> QED
    BY <1>2, <1>4, <1>5 DEF SharedWithinLimits

(* What can join the leases that are out joins them within the limits.       *)
LEMMA LendKeepsLimits ==
  ASSUME SharedWithinLimits, NEW t, Access!Lend(t)
  PROVE  SharedWithinLimits'
  <1>1. Access!Compatible(t, Leases) /\ Leases' = Leases \cup {t}
    BY DEF Access!Lend
  <1>2. IsFiniteSet(Leases) /\ IsFiniteSet(Leases') /\ Cardinality(Leases) \in Nat
    BY <1>1, FS_AddElement, FS_CardinalityType DEF SharedWithinLimits
  <1>3. Cardinality(Leases') <= Cardinality(Leases) + 1
    BY <1>1, <1>2, FS_AddElement
  <1>4. MaxSessions \in Nat /\ MaxSessions >= 1 /\ MaxQMITransports \in Nat /\ MaxQMITransports >= 1
    BY ArbiterAssumption DEF ArbiterAssumption
  <1>5. Sessions' \subseteq Leases' /\ Channels' \subseteq Leases'
    BY DEF Sessions, Channels
  <1>6. /\ Cardinality(Sessions') <= Cardinality(Leases') /\ Cardinality(Sessions') \in Nat
        /\ Cardinality(Channels') <= Cardinality(Leases') /\ Cardinality(Channels') \in Nat
        /\ Cardinality(Leases') \in Nat
    BY <1>2, <1>5, FS_Subset, FS_CardinalityType
  <1>7. CASE Leases = {}
    <2>1. Leases' = {t} /\ Cardinality(Leases) = 0
      BY <1>1, <1>7, FS_EmptySet
    <2>2. Cardinality(Sessions') <= MaxSessions /\ Cardinality(Channels') <= MaxQMITransports
      BY <2>1, <1>3, <1>4, <1>6
    <2> QED
      BY <2>1, <2>2, <1>2 DEF SharedWithinLimits
  <1>8. CASE /\ t.leaseType = "session" /\ Leases = Access!OfType(Leases, "session")
             /\ Cardinality(Leases) < MaxSessions
    <2>1. \A u \in Leases' : u.leaseType = "session"
      BY <1>1, <1>8 DEF Access!OfType
    <2>2. Sessions' = Leases' /\ Channels' = {}
      BY <2>1 DEF Sessions, Channels
    <2>3. Cardinality(Sessions') <= MaxSessions
      BY <2>2, <1>2, <1>3, <1>4, <1>6, <1>8
    <2>4. Cardinality(Channels') <= MaxQMITransports
      BY <2>2, <1>4, FS_EmptySet
    <2> QED
      BY <2>2, <2>3, <2>4, <1>2 DEF SharedWithinLimits
  <1>9. CASE /\ t.leaseType = "transport" /\ t.scope = "qmi_channel"
             /\ Leases = Access!QMIOnly(Leases)
             /\ Cardinality(Leases) < MaxQMITransports
             /\ \A u \in Leases : u.channel # t.channel
    <2>1. \A u \in Leases' : u.leaseType = "transport" /\ u.scope = "qmi_channel"
      BY <1>1, <1>9 DEF Access!QMIOnly, Access!OfType
    <2>2. Channels' = Leases' /\ Sessions' = {} /\ Sessions = {}
      BY <2>1, <1>1 DEF Sessions, Channels
    <2>3. Cardinality(Channels') <= MaxQMITransports
      BY <2>2, <1>2, <1>3, <1>4, <1>6, <1>9
    <2>4. Cardinality(Sessions') <= MaxSessions
      BY <2>2, <1>4, FS_EmptySet
    <2>5. \A u, v \in Leases' : u = v \/ u.channel # v.channel
      BY <2>2, <1>1, <1>9 DEF SharedWithinLimits
    <2> QED
      BY <2>2, <2>3, <2>4, <2>5, <1>2 DEF SharedWithinLimits
  <1> QED
    BY <1>1, <1>7, <1>8, <1>9, SameCardinality DEF Access!Compatible

(* For any callers, calls and limits: sessions never exceed MaxSessions and  *)
(* QMI transports never MaxQMITransports, every two of those on different    *)
(* logical channels, and no other two leases are ever out together, whatever *)
(* order releases, the watchdog and the wake-ups come in.                    *)
THEOREM DeviceIsSharedWithinLimits == Spec => []SharedWithinLimits
  <1>1. Init => SharedWithinLimits
    <2> SUFFICES ASSUME Init PROVE SharedWithinLimits
      OBVIOUS
    <2>1. Leases = {} /\ Sessions = {} /\ Channels = {}
      BY DEF Init, Leases, Sessions, Channels
    <2> QED
      BY <2>1, FS_EmptySet, ArbiterAssumption DEF SharedWithinLimits, ArbiterAssumption
  <1>2. ASSUME IInv, SharedWithinLimits, [Next]_vars PROVE SharedWithinLimits'
    <2>1. Access!Next \/ UNCHANGED <<Leases, activeBarriers>>
      BY <1>2, StepRefines DEF Access!vars
    <2>2. CASE \E t \in Tickets : Access!Lend(t)
      BY <1>2, <2>2, LendKeepsLimits
    <2>3. CASE Leases' \subseteq Leases
      BY <1>2, <2>3, FewerLeases
    <2>4. Access!Next => (\E t \in Tickets : Access!Lend(t)) \/ Leases' \subseteq Leases
      BY DEF Access!Next, Access!Return, Access!Raise, Access!Lower
    <2> QED
      BY <2>1, <2>2, <2>3, <2>4
  <1> QED
    BY <1>1, <1>2, IInvHolds, PTL DEF Spec

-----------------------------------------------------------------------------
(* A free device serves.  The admission rules are many, and each of them can *)
(* refuse; together they must not refuse everybody.                          *)

(* The callers that wait and would be let through.                           *)
Admissible == {c \in Callers : pc[c] = "waiting" /\ canAcquire(mine[c], queue)}

FreeDeviceServes ==
    Leases = {} /\ activeBarriers = {} /\ queue # <<>> =>
        /\ Admissible # {}
        /\ aged = {} => Admissible \cap notified # {}

(* With nothing out, a transport at the head of the queue is eligible.       *)
LEMMA HeadTransportIsEligible ==
  ASSUME Leases = {}, activeBarriers = {}, NEW q \in Seq(Ticket), q # <<>>,
         q[1].leaseType = "transport", q[1].scope \in Scopes
  PROVE  1 \in Eligible(q)
  <1>1. 1 \in DOMAIN q /\ 1..1 = {1}
    BY LenProperties, EmptySeq
  <1>2. activeTransports = {} /\ QMITransports = {}
    BY DEF Leases, QMITransports
  <1>3. Cardinality(QMITransports) < MaxQMITransports
    BY <1>2, FS_EmptySet, ArbiterAssumption DEF ArbiterAssumption
  <1>4. canAcquireTransportNow(q[1])
    BY <1>2, <1>3 DEF canAcquireTransportNow
  <1>5. ~isBlockedByActiveBarrier(q[1].class)
    BY DEF isBlockedByActiveBarrier
  <1>6. ~EndsScan(q[1])
    BY <1>4 DEF EndsScan
  <1> QED
    BY <1>1, <1>4, <1>5, <1>6 DEF Eligible

(* With something eligible, what is selected is.                             *)
LEMMA SomethingIsSelected ==
  ASSUME NEW q \in Seq(Ticket), Eligible(q) # {}
  PROVE  \E i \in Eligible(q) : selectedTransport(q) = q[i].id
  <1> DEFINE aka == {i \in Eligible(q) : q[i].class = "USIMAKA"}
             old == {i \in Eligible(q) \ aka : q[i].id \in aged}
  <1>1. Eligible(q) \in SUBSET DOMAIN q
    BY DEF Eligible
  <1>2. selectedTransport(q) =
          IF old # {} THEN IdOfFirst(q, old)
          ELSE IF aka # {} THEN IdOfFirst(q, aka)
          ELSE IF Eligible(q) # {} THEN IdOfFirst(q, Eligible(q)) ELSE 0
    BY DEF selectedTransport
  <1>3. old \in SUBSET Eligible(q) /\ aka \in SUBSET Eligible(q)
    OBVIOUS
  <1> HIDE DEF old, aka
  <1>4. PICK S \in SUBSET Eligible(q) : S # {} /\ selectedTransport(q) = IdOfFirst(q, S)
    BY <1>2, <1>3
  <1>5. S \in SUBSET DOMAIN q
    BY <1>1
  <1> QED
    BY <1>4, <1>5, IdOfFirstFacts

(* With nothing out, some entry of the queue may proceed: the first barrier, *)
(* or without one the head, or the transport selected before the head.       *)
LEMMA SomebodyMayProceed ==
  ASSUME Leases = {}, activeBarriers = {}, NEW q \in Seq(Ticket), q # <<>>,
         \A i \in DOMAIN q : q[i] \in Tickets
  PROVE  \E i \in DOMAIN q : canAcquire(q[i], q)
  <1>0. 1 \in DOMAIN q /\ \A i \in DOMAIN q : q[i].leaseType \in LeaseTypes
                              /\ (q[i].kind = "barrier" <=> q[i].leaseType = "barrier")
                              /\ q[i].scope \in Scopes
    <2>1. 1 \in DOMAIN q
      BY LenProperties, EmptySeq
    <2>2. \A i \in DOMAIN q : q[i] \in Ticket
      BY TicketsFacts
    <2> QED
      BY <2>1, <2>2, TicketsFacts DEF Ticket
  <1>1. activeSessions = {} /\ activeOneshot = {} /\ activeTransports = {}
    BY DEF Leases
  <1>2. \A t : ~isBlockedByActiveBarrier(t)
    BY DEF isBlockedByActiveBarrier
  <1> DEFINE barriers == {i \in DOMAIN q : q[i].kind = "barrier"}
  <1>3. CASE barriers # {}
    <2>1. PICK i \in barriers : IdOfFirst(q, barriers) = q[i].id
      BY <1>3, IdOfFirstFacts
    <2>2. selectedBarrier(q) = q[i].id
      BY <1>3, <2>1 DEF selectedBarrier
    <2> QED
      BY <2>2 DEF canAcquire, canAcquireBarrier
  <1>4. CASE barriers = {}
    <2>1. \A i \in DOMAIN q : q[i].kind # "barrier" /\ ~hasPendingBarrierAhead(q[i], q)
      BY <1>4 DEF hasPendingBarrierAhead
    <2>2. CASE q[1].leaseType = "session"
      <3>1. Cardinality(activeSessions) < MaxSessions
        BY <1>1, FS_EmptySet, ArbiterAssumption DEF ArbiterAssumption
      <3>2. canAcquireLease(q[1], q)
        BY <3>1, <2>1, <2>2, <1>0, <1>1, <1>2 DEF canAcquireLease, queueHeadIs
      <3> QED
        BY <3>2, <2>1, <1>0 DEF canAcquire
    <2>3. CASE q[1].leaseType = "oneshot"
      <3>1. canAcquireLease(q[1], q)
        BY <2>1, <2>3, <1>0, <1>2 DEF canAcquireLease, queueHeadIs
      <3> QED
        BY <3>1, <2>1, <1>0 DEF canAcquire
    <2>4. CASE q[1].leaseType = "transport"
      <3>1. Eligible(q) # {}
        BY <2>4, <1>0, HeadTransportIsEligible
      <3>2. PICK i \in Eligible(q) : selectedTransport(q) = q[i].id
        BY <3>1, SomethingIsSelected
      <3>3. i \in DOMAIN q /\ q[i].leaseType = "transport"
        <4>1. i \in DOMAIN q /\ \A j \in 1..i : ~EndsScan(q[j])
          BY DEF Eligible
        <4>2. i \in 1..i
          BY <4>1, LenProperties
        <4> QED
          BY <4>1, <4>2 DEF EndsScan
      <3>4. canAcquireLease(q[i], q)
        BY <3>2, <3>3, <2>1, <1>1, <1>2 DEF canAcquireLease
      <3> QED
        BY <3>3, <3>4, <2>1 DEF canAcquire
    <2> QED
      BY <2>1, <2>2, <2>3, <2>4, <1>0 DEF LeaseTypes
  <1> QED
    BY <1>3, <1>4

(* For any callers, calls and limits: while nothing is out and somebody      *)
(* waits, the rules let one of the waiting callers through; and as long as   *)
(* no wait reached transportPriorityAging, such a caller has been told, so   *)
(* the device is not left idle with callers asleep in the queue.             *)
THEOREM AFreeDeviceServes == Spec => []FreeDeviceServes
  <1>1. Init => SleepersAreRight
    BY DEF Init, SleepersAreRight
  <1>2. IInv /\ SleepersAreRight /\ [Next]_vars => SleepersAreRight'
    BY SleepersStep
  <1>3. ASSUME IInv, SleepersAreRight PROVE FreeDeviceServes
    <2> SUFFICES ASSUME Leases = {}, activeBarriers = {}, queue # <<>>
                 PROVE  /\ Admissible # {}
                        /\ aged = {} => Admissible \cap notified # {}
      BY DEF FreeDeviceServes
    <2>1. PICK q \in Seq(Ticket) : q = queue
      BY <1>3, IInvFacts
    <2>2. \A i \in DOMAIN q : \E c \in Callers : pc[c] = "waiting" /\ q[i] = mine[c]
      <3>1. \A i \in DOMAIN q : q[i] \in ToSet(queue)
        BY <2>1 DEF ToSet
      <3> QED
        BY <3>1, <1>3 DEF IInv, QueueIsWaiters
    <2>3. \A i \in DOMAIN q : q[i] \in Tickets
      BY <2>2, <1>3, IInvFacts
    <2>4. PICK i \in DOMAIN q : canAcquire(q[i], q)
      BY <2>1, <2>3, SomebodyMayProceed
    <2>5. PICK c \in Callers : pc[c] = "waiting" /\ q[i] = mine[c]
      BY <2>2
    <2>6. c \in Admissible
      BY <2>1, <2>4, <2>5 DEF Admissible
    <2>7. aged = {} => c \in notified
      BY <2>6, <1>3 DEF SleepersAreRight, Admissible
    <2> QED
      BY <2>6, <2>7
  <1> QED
    BY <1>1, <1>2, <1>3, IInvHolds, PTL DEF Spec

-----------------------------------------------------------------------------
(* Nobody passes a gate.  QMI transports may pass one another in the queue,  *)
(* and that is how a stream of them could keep others out for good.          *)

(* The waiting tickets nothing but a barrier may pass: sessions and one-     *)
(* shots, and a transport that needs the device for itself while others are  *)
(* on it, unless a barrier that is up holds its class back.                  *)
Gates(t) ==
    \/ t.leaseType \in {"session", "oneshot"}
    \/ /\ t.leaseType = "transport" /\ t.scope = "exclusive"
       /\ ~isBlockedByActiveBarrier(t.class)
       /\ activeTransports # {}

NobodyPassesGates ==
    \A i, j \in DOMAIN queue :
        /\ i < j /\ Gates(queue[i])
        /\ queue[j] \in Out'
        => queue[j].kind = "barrier"

(* Whoever may proceed past a gate is a barrier.                             *)
LEMMA NoGateAhead ==
  ASSUME NEW q \in Seq(Ticket), UniqueIds(q), NEW j \in DOMAIN q, q[j] \in Tickets,
         canAcquire(q[j], q), NEW i \in DOMAIN q, i < j, Gates(q[i])
  PROVE  q[j].kind = "barrier"
  <1>0. DOMAIN q = 1..Len(q) /\ Len(q) \in Nat
    BY LenProperties
  <1>1. /\ q[j].id # 0 /\ q[j].leaseType \in LeaseTypes
        /\ q[j].kind = "barrier" <=> q[j].leaseType = "barrier"
    BY TicketsFacts
  <1>2. CASE q[j].leaseType \in {"session", "oneshot"}
    <2>1. q[1].id = q[j].id
      BY <1>1, <1>2 DEF canAcquire, canAcquireLease, queueHeadIs
    <2>2. 1 \in DOMAIN q
      BY <1>0
    <2>3. j = 1
      BY <2>1, <2>2 DEF UniqueIds
    <2> QED
      BY <2>3, <1>0
  <1>3. CASE q[j].leaseType = "transport"
    <2>1. selectedTransport(q) = q[j].id
      BY <1>1, <1>3 DEF canAcquire, canAcquireLease
    <2>2. j \in Eligible(q)
      BY <2>1, <1>1, SelectedTransportIsReached
    <2>3. i \in 1..j
      BY <1>0
    <2>4. ~EndsScan(q[i])
      BY <2>2, <2>3 DEF Eligible
    <2>5. EndsScan(q[i])
      BY DEF Gates, EndsScan, canAcquireTransportNow, transportWaitGatesQueue
    <2> QED
      BY <2>4, <2>5
  <1> QED
    BY <1>1, <1>2, <1>3 DEF LeaseTypes

(* No step serves a ticket with a gate ahead of it, other than a barrier.    *)
LEMMA NobodyPassesStep ==
  ASSUME IInv, [Next]_vars
  PROVE  NobodyPassesGates
  <1>1. SUFFICES ASSUME NEW i \in DOMAIN queue, NEW j \in DOMAIN queue,
                        i < j, Gates(queue[i]), queue[j] \in Out'
                 PROVE  queue[j].kind = "barrier"
    BY DEF NobodyPassesGates
  <1>2. queue \in Seq(Ticket) /\ UniqueIds(queue) /\ seq \in Nat
    BY IInvFacts
  <1>3. queue[j] \in Tickets /\ queue[j].id \in Nat /\ queue[j].id <= seq /\ queue[j] \notin Out
    <2>1. queue[j] \in ToSet(queue)
      BY DEF ToSet
    <2>2. PICK c \in Callers : pc[c] = "waiting" /\ queue[j] = mine[c]
      BY <2>1 DEF IInv, QueueIsWaiters
    <2>3. queue[j] \in Tickets /\ queue[j] \notin Out
      BY <2>2, IInvFacts DEF IInv, OutOK
    <2> QED
      BY <2>3, IInvFacts
  <1>4. CASE OnlyTakes
    BY <1>1, <1>3, <1>4 DEF OnlyTakes
  <1>5. ASSUME NEW c \in Callers, NEW t \in Tickets, NEW q \in Seq(Ticket),
               UniqueIds(q), t \in ToSet(q), GrantsIn(c, t, q)
        PROVE  queue[j].kind = "barrier"
    <2>1. queue[j] = t
      BY <1>1, <1>3, <1>5, GrantAdds DEF GrantsIn
    <2>2. q = queue /\ canAcquire(queue[j], queue)
      BY <1>2, <1>3, <1>5, <2>1 DEF GrantsIn
    <2> QED
      BY <1>1, <1>2, <1>3, <2>2, NoGateAhead
  <1> QED
    BY <1>4, <1>5, StepKinds

(* For any callers, calls and limits: a session, a one-shot, or a transport  *)
(* that waits for the QMI channels to clear is passed by barriers only; the  *)
(* channels that queued behind it are not served before it.                  *)
THEOREM GatesAreNotPassed == Spec => [][NobodyPassesGates]_vars
  <1>1. IInv /\ [Next]_vars => [NobodyPassesGates]_vars
    BY NobodyPassesStep
  <1> QED
    BY <1>1, IInvHolds, PTL DEF Spec
=============================================================================

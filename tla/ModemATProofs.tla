---------------------------- MODULE ModemATProofs -----------------------------
(***************************************************************************)
(* Proofs about ModemAT: its type invariant; that a caller has the answer   *)
(* to its own command as long as the manager runs and no command has timed  *)
(* out; and that neither runLoop nor a caller waits for the other in vain.  *)
(***************************************************************************)
EXTENDS ModemAT, SequenceTheorems, TLAPS


(* A queue carries a request, and one its caller has given up. *)
Disowned(q, r) == \E i \in DOMAIN q : q[i].req = r /\ ~q[i].mine

(* A request is entered while an entry of a queue, or the command under way, *)
(* carries it; it is lost when its caller waits for that entry no more.      *)
Entered(r) == Queued(qNormal, r) \/ Queued(qHigh, r) \/ cur.req = r
Lost(r) == Disowned(qNormal, r) \/ Disowned(qHigh, r) \/ (cur.req = r /\ ~cur.mine)

Distinct(q) == \A i, j \in DOMAIN q : q[i].req = q[j].req => i = j

(* No request is entered twice. *)
Once ==
    /\ Distinct(qNormal) /\ Distinct(qHigh)
    /\ \A r \in Requests :
         /\ Queued(qNormal, r) => ~Queued(qHigh, r) /\ cur.req # r
         /\ Queued(qHigh, r) => cur.req # r

(* As long as the manager runs, a request that is entered is not answered, and *)
(* the entry of one that a caller holds is its own; a pooled request is not    *)
(* entered and is empty; and no foreign answer is where a caller could find it. *)
Holding(c) ==
    /\ Entered(held[c]) => pc[c] = "wait"
    /\ pc[c] = "send" \/ Entered(held[c]) => out[held[c]] = Empty
    /\ out[held[c]].resp # "foreign" /\ out[held[c]].err # "foreign"
    /\ ~Lost(held[c])
Pooled(r) == ~Entered(r) /\ out[r] = Empty
Own == Once /\ (\A c \in Callers : pc[c] \in {"send", "wait"} => Holding(c)) /\ (\A r \in pool : Pooled(r))

Answer(line) == line.kind \notin {"eof", "ioerr"}

(* As long as no command has timed out and nothing has passed for an answer, *)
(* a line that answers is the answer to the command under way.               *)
NoneLate == \A r \in Requests : out[r].resp # "late" /\ out[r].err # "late"
InTime ==
    /\ \A i \in DOMAIN rx : Answer(rx[i]) => i = 1 /\ loop = "command" /\ ~rx[i].stray
    /\ reader \in {"check", "read"} =>
         /\ Len(rx) + Len(pending) <= IF loop = "command" THEN 1 ELSE 0
         /\ \A i \in DOMAIN rx : Answer(rx[i])
         /\ \A i \in DOMAIN pending : ~pending[i].stray

IInv == TypeOK /\ (~stopped => Own) /\ (~outOfStep => NoneLate /\ InTime) /\ AnswersAreOwn

-----------------------------------------------------------------------------
(* Sequences.                                                               *)

(* What Append does. *)
LEMMA AppendFacts ==
    ASSUME NEW S, NEW q \in Seq(S), NEW e \in S
    PROVE  /\ Append(q, e) \in Seq(S) /\ Len(Append(q, e)) = Len(q) + 1
           /\ DOMAIN q = 1..Len(q) /\ DOMAIN Append(q, e) = 1..(Len(q) + 1) /\ Len(q) \in Nat
           /\ \A i \in DOMAIN q : Append(q, e)[i] = q[i]
           /\ Append(q, e)[Len(q) + 1] = e
BY AppendProperties, LenProperties

(* What Head and Tail do. *)
LEMMA TailFacts ==
    ASSUME NEW S, NEW q \in Seq(S), q # <<>>
    PROVE  /\ Tail(q) \in Seq(S) /\ Len(Tail(q)) = Len(q) - 1 /\ Len(q) \in Nat \ {0}
           /\ DOMAIN q = 1..Len(q) /\ DOMAIN Tail(q) = 1..(Len(q) - 1)
           /\ \A i \in DOMAIN Tail(q) : i + 1 \in DOMAIN q /\ Tail(q)[i] = q[i + 1]
           /\ 1 \in DOMAIN q /\ Head(q) = q[1] /\ Head(q) \in S
<1>1. Len(q) \in Nat \ {0} /\ DOMAIN q = 1..Len(q)
  BY LenProperties, EmptySeq
<1>2. /\ Head(q) \in S /\ Tail(q) \in Seq(S) /\ Len(Tail(q)) = Len(q) - 1
      /\ \A i \in 1..Len(Tail(q)) : Tail(q)[i] = q[i + 1]
  BY HeadTailProperties
<1>3. DOMAIN Tail(q) = 1..Len(Tail(q))
  BY <1>2, LenProperties
<1>4. Head(q) = q[1]
  OBVIOUS
<1> QED BY <1>1, <1>2, <1>3, <1>4

(* A map over a sequence is one of the same length. *)
LEMMA MapFacts ==
    ASSUME NEW S, NEW q \in Seq(S), NEW m, m = [i \in DOMAIN q |-> m[i]], \A i \in DOMAIN q : m[i] \in S
    PROVE  m \in Seq(S) /\ Len(m) = Len(q) /\ DOMAIN m = DOMAIN q /\ DOMAIN q = 1..Len(q)
<1>1. DOMAIN q = 1..Len(q) /\ Len(q) \in Nat
  BY LenProperties
<1>2. m \in [1..Len(q) -> S]
  BY <1>1
<1> QED BY <1>1, <1>2, IsASeq, LenProperties

Pending == [sms : BOOLEAN, stray : BOOLEAN]

(* Disowned entries are entries, and stray lines are lines. *)
LEMMA DisownFacts ==
    ASSUME NEW r, NEW q \in Seq(Entries)
    PROVE  /\ DisownAll(r, q) \in Seq(Entries) /\ Len(DisownAll(r, q)) = Len(q)
           /\ DOMAIN DisownAll(r, q) = DOMAIN q
           /\ \A i \in DOMAIN q : DisownAll(r, q)[i] = Disown(r, q[i])
<1>1. \A i \in DOMAIN q : q[i] \in Entries
  BY ElementOfSeq, LenProperties
<1>2. \A e \in Entries : Disown(r, e) \in Entries
  BY DEF Disown, Entries
<1>3. \A i \in DOMAIN q : DisownAll(r, q)[i] = Disown(r, q[i])
  BY DEF DisownAll
<1>4. DisownAll(r, q) = [i \in DOMAIN q |-> DisownAll(r, q)[i]]
  BY DEF DisownAll
<1> QED BY <1>1, <1>2, <1>3, <1>4, MapFacts

(* What every line is when its command has ended. *)
LEMMA StrayFacts ==
    ASSUME NEW S \in {Lines, Pending}, NEW q \in Seq(S)
    PROVE  /\ Stray(q) \in Seq(S) /\ Len(Stray(q)) = Len(q) /\ DOMAIN Stray(q) = DOMAIN q
           /\ \A i \in DOMAIN q : Stray(q)[i] = [q[i] EXCEPT !.stray = TRUE]
<1>1. \A i \in DOMAIN q : q[i] \in S
  BY ElementOfSeq, LenProperties
<1>2. \A e \in S : [e EXCEPT !.stray = TRUE] \in S
  <2>1. \A e \in Lines : [e EXCEPT !.stray = TRUE] \in Lines
    BY DEF Lines
  <2>2. \A e \in Pending : [e EXCEPT !.stray = TRUE] \in Pending
    BY DEF Pending
  <2> QED BY <2>1, <2>2
<1>3. \A i \in DOMAIN q : Stray(q)[i] = [q[i] EXCEPT !.stray = TRUE]
  BY DEF Stray
<1>4. Stray(q) = [i \in DOMAIN q |-> Stray(q)[i]]
  BY DEF Stray
<1> QED BY <1>1, <1>2, <1>3, <1>4, MapFacts

-----------------------------------------------------------------------------
(* Types, in three parts: the callers, the queues with runLoop, the port.   *)

CallersOK ==
    /\ pc \in [Callers -> {"idle", "checked", "send", "wait"}]
    /\ kind \in [Callers -> {"normal", "high", "sms"}]
    /\ held \in [Callers -> Requests \cup {NoRequest}]
    /\ \A c \in Callers : held[c] = NoRequest <=> pc[c] \in {"idle", "checked"}
    /\ got \in [Callers -> Results]
    /\ pool \subseteq Requests /\ \A c \in Callers : held[c] \notin pool
    /\ \A c, d \in Callers : held[c] = held[d] => c = d \/ held[c] = NoRequest
OutOK == out \in [Requests -> [resp : Results, err : Results]]
LoopOK ==
    /\ qNormal \in Seq(Entries) /\ qHigh \in Seq(Entries)
    /\ Len(qNormal) <= QueueCap /\ Len(qHigh) <= QueueCap
    /\ loop \in {"top", "held", "select", "command", "ended"}
    /\ cur \in Entries \cup {NoEntry} /\ (cur = NoEntry <=> loop # "command")
    /\ streak \in 0..Threshold
PortOK ==
    /\ reader \in {"check", "read", "eof", "ioerr", "ended"}
    /\ rx \in Seq(Lines) /\ Len(rx) <= RxCap
    /\ pending \in Seq(Pending) /\ Len(pending) <= MaxPending
    /\ stopped \in BOOLEAN /\ paused \in BOOLEAN /\ outOfStep \in BOOLEAN
    /\ pauses \in 0..MaxPauses /\ highs \in 0..MaxHigh

(* The parts are the type invariant. *)
LEMMA TypeSplit == /\ TypeOK <=> CallersOK /\ OutOK /\ LoopOK /\ PortOK
                   /\ (TypeOK <=> CallersOK /\ OutOK /\ LoopOK /\ PortOK)'
BY DEF TypeOK, CallersOK, OutOK, LoopOK, PortOK, Pending

Types == CallersOK /\ OutOK /\ LoopOK /\ PortOK

(* A reply keeps the types of the channels. *)
LEMMA ReplyFacts ==
    ASSUME OutOK, NEW e \in Entries, NEW ch \in {"resp", "err"}, NEW what \in Results, Reply(e, ch, what)
    PROVE  /\ OutOK' /\ e.req \in Requests
           /\ \A r \in Requests \ {e.req} : out'[r] = out[r]
           /\ out'[e.req] = [out[e.req] EXCEPT ![ch] = IF e.mine THEN what ELSE "foreign"]
<1>1. e.req \in Requests /\ "foreign" \in Results
  BY DEF Entries, Results
<1>2. out[e.req] \in [resp : Results, err : Results]
  BY <1>1 DEF OutOK
<1>3. [out[e.req] EXCEPT ![ch] = IF e.mine THEN what ELSE "foreign"] \in [resp : Results, err : Results]
  BY <1>1, <1>2
<1>4. out' = [out EXCEPT ![e.req] = [out[e.req] EXCEPT ![ch] = IF e.mine THEN what ELSE "foreign"]]
  BY DEF Reply
<1> QED BY <1>1, <1>3, <1>4 DEF OutOK

(* The request a call takes is in nobody else's hands. *)
LEMMA AvailableFacts ==
    ASSUME NEW k, NEW r \in Available(k), pool \subseteq Requests, \A c \in Callers : held[c] \notin pool
    PROVE  r \in Requests /\ (r \in pool \/ ~InUse(r)) /\ \A c \in Callers : held[c] # r
BY DEF Available, InUse

(* A call that begins keeps the types. *)
LEMMA CallTypes ==
    ASSUME Types, NEW c \in Callers, NEW k \in Kinds[c], Call(c, k) PROVE Types'
<1>1. k \in {"normal", "high", "sms"}
  BY ModemAssumption
<1>2. CallersOK'
  BY <1>1 DEF Call, Types, CallersOK, Results
<1>3. OutOK' /\ LoopOK'
  BY DEF Call, queues, Types, OutOK, LoopOK
<1>4. PortOK'
  BY ModemAssumption DEF Call, port, Types, PortOK
<1> QED BY <1>2, <1>3, <1>4 DEF Types

(* A call that takes its request keeps the types. *)
LEMMA GetTypes ==
    ASSUME Types, NEW c \in Callers, Get(c) PROVE Types'
<1>1. PICK r \in Available(kind[c]) :
         /\ held' = [held EXCEPT ![c] = r]
         /\ pool' = pool \ {r}
         /\ out' = IF r \in pool THEN out ELSE [out EXCEPT ![r] = Empty]
  BY DEF Get
<1>2. r \in Requests /\ \A d \in Callers : held[d] # r
  BY AvailableFacts DEF Types, CallersOK
<1>3. CallersOK'
  BY <1>1, <1>2, ModemAssumption DEF Get, Types, CallersOK
<1>4. OutOK'
  BY <1>1, <1>2 DEF Types, OutOK, Empty, Results
<1>5. LoopOK' /\ PortOK'
  BY DEF Get, queues, port, bounds, Types, LoopOK, PortOK
<1> QED BY <1>3, <1>4, <1>5 DEF Types

(* A call that is queued keeps the types. *)
LEMMA EnqueueTypes ==
    ASSUME Types, NEW c \in Callers, Enqueue(c) PROVE Types'
<1> DEFINE e == [req |-> held[c], kind |-> kind[c], mine |-> TRUE]
<1>1. e \in Entries
  BY DEF Enqueue, Types, CallersOK, Entries
<1>2. CallersOK'
  BY DEF Enqueue, Sent, Types, CallersOK
<1>3. /\ qNormal' \in Seq(Entries) /\ qHigh' \in Seq(Entries)
      /\ Len(qNormal') <= QueueCap /\ Len(qHigh') <= QueueCap
  <2>1. CASE kind[c] = "normal"
    <3>1. Len(qNormal) < QueueCap /\ qNormal' = Append(qNormal, e) /\ qHigh' = qHigh
      BY <2>1 DEF Enqueue
    <3> QED BY <1>1, <3>1, AppendFacts, ModemAssumption DEF Types, LoopOK
  <2>2. CASE kind[c] # "normal"
    <3>1. Len(qHigh) < QueueCap /\ qHigh' = Append(qHigh, e) /\ qNormal' = qNormal
      BY <2>2 DEF Enqueue
    <3> QED BY <1>1, <3>1, AppendFacts, ModemAssumption DEF Types, LoopOK
  <2> QED BY <2>1, <2>2
<1>4. LoopOK'
  BY <1>3 DEF Enqueue, Types, LoopOK
<1>5. OutOK' /\ PortOK'
  BY DEF Enqueue, port, bounds, Types, OutOK, PortOK
<1> QED BY <1>2, <1>4, <1>5 DEF Types

(* A call that returns keeps the types. *)
LEMMA LeaveTypes ==
    ASSUME Types, NEW c \in Callers, pc[c] \in {"send", "wait"}, NEW how \in Results, Leave(c, how)
    PROVE  /\ Types' /\ held[c] \in Requests
           /\ cur' = Disown(held[c], cur) /\ cur'.req = cur.req /\ (cur' = NoEntry <=> cur = NoEntry)
<1> DEFINE r == held[c]
<1>1. r \in Requests
  BY DEF Types, CallersOK
<1>2. CallersOK'
  BY <1>1, ModemAssumption DEF Leave, Types, CallersOK
<1>3. OutOK'
  BY <1>1 DEF Leave, Types, OutOK, Empty, Results
<1>4. qNormal' = DisownAll(r, qNormal) /\ qHigh' = DisownAll(r, qHigh) /\ cur' = Disown(r, cur)
      /\ UNCHANGED <<loop, streak>>
  BY DEF Leave
<1>5. cur' \in Entries \cup {NoEntry} /\ cur'.req = cur.req /\ (cur' = NoEntry <=> cur = NoEntry)
  <2>1. CASE cur = NoEntry
    BY <1>1, <1>4, <2>1, ModemAssumption DEF NoEntry, Disown
  <2>2. CASE cur \in Entries
    <3>1. cur' \in Entries /\ cur'.req = cur.req
      BY <1>4, <2>2 DEF Disown, Entries
    <3>2. NoEntry \notin Entries
      BY ModemAssumption DEF NoEntry, Entries
    <3> QED BY <2>2, <3>1, <3>2
  <2> QED BY <2>1, <2>2 DEF Types, LoopOK
<1>6. LoopOK'
  BY <1>4, <1>5, DisownFacts DEF Types, LoopOK
<1>7. PortOK'
  BY DEF Leave, port, bounds, Types, PortOK
<1> QED BY <1>1, <1>2, <1>3, <1>4, <1>5, <1>6, <1>7 DEF Types

-----------------------------------------------------------------------------
(* Requests in the queues.                                                  *)

(* What a longer queue carries. *)
LEMMA AppendCarries ==
    ASSUME NEW q \in Seq(Entries), NEW e \in Entries
    PROVE  /\ \A r : Queued(Append(q, e), r) => Queued(q, r) \/ r = e.req
           /\ \A r : Disowned(Append(q, e), r) => Disowned(q, r) \/ (r = e.req /\ ~e.mine)
           /\ Distinct(q) /\ ~Queued(q, e.req) => Distinct(Append(q, e))
<1>1. /\ DOMAIN q = 1..Len(q) /\ DOMAIN Append(q, e) = 1..(Len(q) + 1) /\ Len(q) \in Nat
      /\ \A i \in DOMAIN q : Append(q, e)[i] = q[i]
      /\ Append(q, e)[Len(q) + 1] = e
  BY AppendFacts
<1>2. ASSUME NEW i \in DOMAIN Append(q, e) PROVE i \in DOMAIN q \/ i = Len(q) + 1
  BY <1>1
<1>3. \A r : Queued(Append(q, e), r) => Queued(q, r) \/ r = e.req
  BY <1>1, <1>2 DEF Queued
<1>4. \A r : Disowned(Append(q, e), r) => Disowned(q, r) \/ (r = e.req /\ ~e.mine)
  BY <1>1, <1>2 DEF Disowned
<1>5. ASSUME Distinct(q), ~Queued(q, e.req) PROVE Distinct(Append(q, e))
  BY <1>1, <1>2, <1>5 DEF Distinct, Queued
<1> QED BY <1>3, <1>4, <1>5

(* What a queue without its head carries. *)
LEMMA TailCarries ==
    ASSUME NEW q \in Seq(Entries), q # <<>>
    PROVE  /\ Head(q) \in Entries /\ Queued(q, Head(q).req) /\ (~Head(q).mine => Disowned(q, Head(q).req))
           /\ \A r : Queued(Tail(q), r) => Queued(q, r)
           /\ \A r : Disowned(Tail(q), r) => Disowned(q, r)
           /\ Distinct(q) => Distinct(Tail(q)) /\ ~Queued(Tail(q), Head(q).req)
<1>1. /\ DOMAIN q = 1..Len(q) /\ DOMAIN Tail(q) = 1..(Len(q) - 1) /\ Len(q) \in Nat \ {0}
      /\ \A i \in DOMAIN Tail(q) : i + 1 \in DOMAIN q /\ Tail(q)[i] = q[i + 1]
      /\ 1 \in DOMAIN q /\ Head(q) = q[1] /\ Head(q) \in Entries
  BY TailFacts
<1>2. Queued(q, Head(q).req) /\ (~Head(q).mine => Disowned(q, Head(q).req))
  BY <1>1 DEF Queued, Disowned
<1>3. \A r : Queued(Tail(q), r) => Queued(q, r)
  BY <1>1 DEF Queued
<1>4. \A r : Disowned(Tail(q), r) => Disowned(q, r)
  BY <1>1 DEF Disowned
<1>5. ASSUME Distinct(q) PROVE Distinct(Tail(q)) /\ ~Queued(Tail(q), Head(q).req)
  <2>1. ASSUME NEW i \in DOMAIN Tail(q), NEW j \in DOMAIN Tail(q), Tail(q)[i].req = Tail(q)[j].req
        PROVE  i = j
    <3>1. i + 1 = j + 1
      BY <1>1, <1>5, <2>1 DEF Distinct
    <3> QED BY <1>1, <3>1
  <2>2. ASSUME NEW i \in DOMAIN Tail(q), Tail(q)[i].req = Head(q).req PROVE FALSE
    <3>1. i + 1 = 1
      BY <1>1, <1>5, <2>2 DEF Distinct
    <3> QED BY <1>1, <3>1
  <2> QED BY <2>1, <2>2 DEF Distinct, Queued
<1> QED BY <1>1, <1>2, <1>3, <1>4, <1>5

(* What a queue carries when the caller of a request has left. *)
LEMMA DisownCarries ==
    ASSUME NEW r, NEW q \in Seq(Entries)
    PROVE  /\ \A s : Queued(DisownAll(r, q), s) <=> Queued(q, s)
           /\ \A s : Disowned(DisownAll(r, q), s) => s = r \/ Disowned(q, s)
           /\ Distinct(q) => Distinct(DisownAll(r, q))
<1>1. /\ DOMAIN DisownAll(r, q) = DOMAIN q
      /\ \A i \in DOMAIN q : DisownAll(r, q)[i] = Disown(r, q[i])
  BY DisownFacts
<1>2. \A i \in DOMAIN q : q[i] \in Entries
  BY ElementOfSeq, LenProperties
<1>3. ASSUME NEW i \in DOMAIN q
      PROVE  /\ DisownAll(r, q)[i].req = q[i].req
             /\ q[i].req # r => DisownAll(r, q)[i].mine = q[i].mine
  BY <1>1, <1>2 DEF Disown, Entries
<1>4. \A s : Queued(DisownAll(r, q), s) <=> Queued(q, s)
  BY <1>1, <1>3 DEF Queued
<1>5. \A s : Disowned(DisownAll(r, q), s) => s = r \/ Disowned(q, s)
  BY <1>1, <1>3 DEF Disowned
<1>6. Distinct(q) => Distinct(DisownAll(r, q))
  BY <1>1, <1>3 DEF Distinct
<1> QED BY <1>4, <1>5, <1>6

-----------------------------------------------------------------------------
(* A caller has its own entry.                                              *)

Owned == (\A c \in Callers : pc[c] \in {"send", "wait"} => Holding(c)) /\ (\A r \in pool : Pooled(r))

(* A step of runLoop that answers nothing, and enters nothing. *)
LEMMA OwnedKept ==
    ASSUME Types, Owned, UNCHANGED <<pc, held, pool, out>>,
           \A r \in Requests : (Entered(r)' => Entered(r)) /\ (Lost(r)' => Lost(r))
    PROVE  Owned'
<1>1. ASSUME NEW c \in Callers, pc'[c] \in {"send", "wait"} PROVE Holding(c)'
  <2>1. PICK r \in Requests : r = held[c] /\ r = held'[c]
    BY <1>1 DEF Types, CallersOK
  <2>2. pc'[c] = pc[c] /\ out' = out /\ Holding(c)
    BY <1>1 DEF Owned
  <2>3. (Entered(r)' => Entered(r)) /\ (Lost(r)' => Lost(r))
    BY <2>1
  <2> QED BY <2>1, <2>2, <2>3 DEF Holding, Entered, Lost
<1>2. ASSUME NEW r \in pool' PROVE Pooled(r)'
  <2>1. r \in Requests /\ Pooled(r)
    BY <1>2 DEF Owned, Types, CallersOK
  <2> QED BY <2>1 DEF Pooled
<1> QED BY <1>1, <1>2 DEF Owned

(* The answer to the request of an entry that is taken out. *)
LEMMA OwnedReply ==
    ASSUME Types, Owned, UNCHANGED <<pc, held, pool>>,
           NEW e \in Entries, NEW ch \in {"resp", "err"}, NEW what \in {"own", "late"}, Reply(e, ch, what),
           Entered(e.req), ~e.mine => Lost(e.req),
           \A r \in Requests : (Entered(r)' => Entered(r) /\ r # e.req) /\ (Lost(r)' => Lost(r))
    PROVE  Owned'
<1>1. /\ e.req \in Requests
      /\ \A r \in Requests \ {e.req} : out'[r] = out[r]
      /\ out'[e.req] = [out[e.req] EXCEPT ![ch] = IF e.mine THEN what ELSE "foreign"]
  BY ReplyFacts DEF Types, Results
<1>2. ASSUME NEW c \in Callers, pc'[c] \in {"send", "wait"} PROVE Holding(c)'
  <2>1. PICK r \in Requests : r = held[c] /\ r = held'[c]
    BY <1>2 DEF Types, CallersOK
  <2>2. pc'[c] = pc[c] /\ Holding(c)
    BY <1>2 DEF Owned
  <2>3. (Entered(r)' => Entered(r) /\ r # e.req) /\ (Lost(r)' => Lost(r))
    BY <2>1
  <2>4. CASE r # e.req
    <3>1. out'[r] = out[r]
      BY <1>1, <2>4
    <3> QED BY <2>1, <2>2, <2>3, <3>1 DEF Holding, Entered, Lost
  <2>5. CASE r = e.req
    <3>1. pc[c] = "wait" /\ out[r] = Empty /\ ~Lost(r) /\ e.mine
      BY <2>1, <2>2, <2>5 DEF Holding
    <3>2. out'[r] = [Empty EXCEPT ![ch] = what]
      BY <1>1, <2>5, <3>1
    <3>3. out'[r].resp # "foreign" /\ out'[r].err # "foreign"
      BY <3>2 DEF Empty
    <3>4. ~Entered(r)' /\ ~Lost(r)'
      BY <2>3, <2>5, <3>1
    <3> QED BY <2>1, <2>2, <3>1, <3>3, <3>4 DEF Holding, Entered, Lost
  <2> QED BY <2>4, <2>5
<1>3. ASSUME NEW r \in pool' PROVE Pooled(r)'
  <2>1. r \in Requests /\ Pooled(r)
    BY <1>3 DEF Owned, Types, CallersOK
  <2>2. r # e.req
    BY <2>1 DEF Pooled
  <2> QED BY <1>1, <2>1, <2>2 DEF Pooled
<1> QED BY <1>2, <1>3 DEF Owned

(* An entry that is taken out of its queue, and thrown out or begun. *)
LEMMA Taken ==
    ASSUME Types, Once, NEW e,
           \/ qHigh # <<>> /\ e = Head(qHigh) /\ qHigh' = Tail(qHigh) /\ UNCHANGED qNormal
           \/ qNormal # <<>> /\ e = Head(qNormal) /\ qNormal' = Tail(qNormal) /\ UNCHANGED qHigh
    PROVE  /\ e \in Entries /\ Entered(e.req) /\ (~e.mine => Lost(e.req))
           /\ cur' = cur => Once' /\ \A r \in Requests : (Entered(r)' => Entered(r) /\ r # e.req) /\ (Lost(r)' => Lost(r))
           /\ cur = NoEntry /\ cur' = e => Once' /\ \A r \in Requests : (Entered(r)' => Entered(r)) /\ (Lost(r)' => Lost(r))
<1>1. qNormal \in Seq(Entries) /\ qHigh \in Seq(Entries)
  BY DEF Types, LoopOK
<1>2. NoEntry.req \notin Requests
  BY ModemAssumption DEF NoEntry
<1>3. CASE qHigh # <<>> /\ e = Head(qHigh) /\ qHigh' = Tail(qHigh) /\ UNCHANGED qNormal
  <2>1. /\ e \in Entries /\ Queued(qHigh, e.req) /\ (~e.mine => Disowned(qHigh, e.req))
        /\ \A r : Queued(qHigh', r) => Queued(qHigh, r)
        /\ \A r : Disowned(qHigh', r) => Disowned(qHigh, r)
        /\ Distinct(qHigh') /\ ~Queued(qHigh', e.req)
    BY <1>1, <1>3, TailCarries DEF Once
  <2>2. e.req \in Requests
    BY <2>1 DEF Entries
  <2>3. ~Queued(qNormal, e.req) /\ cur.req # e.req
    BY <2>1, <2>2 DEF Once
  <2>4. ASSUME cur' = cur
        PROVE  Once' /\ \A r \in Requests : (Entered(r)' => Entered(r) /\ r # e.req) /\ (Lost(r)' => Lost(r))
    BY <1>3, <2>1, <2>3, <2>4 DEF Once, Entered, Lost
  <2>5. ASSUME cur = NoEntry, cur' = e
        PROVE  Once' /\ \A r \in Requests : (Entered(r)' => Entered(r)) /\ (Lost(r)' => Lost(r))
    BY <1>2, <1>3, <2>1, <2>3, <2>5 DEF Once, Entered, Lost
  <2> QED BY <2>1, <2>4, <2>5 DEF Entered, Lost
<1>4. CASE qNormal # <<>> /\ e = Head(qNormal) /\ qNormal' = Tail(qNormal) /\ UNCHANGED qHigh
  <2>1. /\ e \in Entries /\ Queued(qNormal, e.req) /\ (~e.mine => Disowned(qNormal, e.req))
        /\ \A r : Queued(qNormal', r) => Queued(qNormal, r)
        /\ \A r : Disowned(qNormal', r) => Disowned(qNormal, r)
        /\ Distinct(qNormal') /\ ~Queued(qNormal', e.req)
    BY <1>1, <1>4, TailCarries DEF Once
  <2>2. e.req \in Requests
    BY <2>1 DEF Entries
  <2>3. ~Queued(qHigh, e.req) /\ cur.req # e.req
    BY <2>1, <2>2 DEF Once
  <2>4. ASSUME cur' = cur
        PROVE  Once' /\ \A r \in Requests : (Entered(r)' => Entered(r) /\ r # e.req) /\ (Lost(r)' => Lost(r))
    BY <1>4, <2>1, <2>3, <2>4 DEF Once, Entered, Lost
  <2>5. ASSUME cur = NoEntry, cur' = e
        PROVE  Once' /\ \A r \in Requests : (Entered(r)' => Entered(r)) /\ (Lost(r)' => Lost(r))
    BY <1>2, <1>4, <2>1, <2>3, <2>5 DEF Once, Entered, Lost
  <2> QED BY <2>1, <2>4, <2>5 DEF Entered, Lost
<1> QED BY <1>3, <1>4

(* A call that begins holds nothing yet. *)
LEMMA OwnCall ==
    ASSUME Types, Once, Owned, NEW c \in Callers, NEW k \in Kinds[c], Call(c, k) PROVE Once' /\ Owned'
<1>1. UNCHANGED <<held, pool, out, qNormal, qHigh, cur>> /\ pc' = [pc EXCEPT ![c] = "checked"]
  BY DEF Call, queues
<1>2. Once'
  BY <1>1 DEF Once
<1>3. ASSUME NEW d \in Callers, pc'[d] \in {"send", "wait"} PROVE Holding(d)'
  <2>1. pc'[d] = pc[d] /\ Holding(d)
    BY <1>1, <1>3 DEF Owned, Types, CallersOK
  <2> QED BY <1>1, <2>1 DEF Holding, Entered, Lost
<1>4. ASSUME NEW r \in pool' PROVE Pooled(r)'
  BY <1>1, <1>4 DEF Owned, Pooled, Entered
<1> QED BY <1>2, <1>3, <1>4 DEF Owned

(* A call that takes its request has one that nothing carries. *)
LEMMA OwnGet ==
    ASSUME Types, Once, Owned, NEW c \in Callers, Get(c) PROVE Once' /\ Owned'
<1>1. PICK r \in Available(kind[c]) :
         /\ held' = [held EXCEPT ![c] = r]
         /\ pool' = pool \ {r}
         /\ out' = IF r \in pool THEN out ELSE [out EXCEPT ![r] = Empty]
  BY DEF Get
<1>2. r \in Requests /\ (r \in pool \/ ~InUse(r)) /\ \A d \in Callers : held[d] # r
  BY AvailableFacts DEF Types, CallersOK
<1>3. UNCHANGED <<qNormal, qHigh, cur>> /\ pc' = [pc EXCEPT ![c] = "send"]
  BY DEF Get, queues
<1>4. Once'
  BY <1>3 DEF Once
<1>5. ~Entered(r)
  BY <1>2 DEF InUse, Entered, Owned, Pooled
<1>6. ~Lost(r)
  BY <1>5 DEF Entered, Lost, Queued, Disowned
<1>7. out'[r] = Empty /\ \A s \in Requests \ {r} : out'[s] = out[s]
  BY <1>1, <1>2 DEF Owned, Pooled, Types, OutOK
<1>8. \A s : (Entered(s)' <=> Entered(s)) /\ (Lost(s)' <=> Lost(s))
  BY <1>3 DEF Entered, Lost
<1>9. ASSUME NEW d \in Callers, pc'[d] \in {"send", "wait"} PROVE Holding(d)'
  <2>1. CASE d = c
    <3>1. held'[d] = r /\ pc'[d] = "send"
      BY <1>1, <1>3, <2>1 DEF Types, CallersOK
    <3>2. ~Entered(held[d])' /\ ~Lost(held[d])'
      BY <1>3, <1>5, <1>6, <3>1 DEF Entered, Lost
    <3> QED BY <1>7, <3>1, <3>2 DEF Holding, Empty
  <2>2. CASE d # c
    <3>1. held'[d] = held[d] /\ pc'[d] = pc[d] /\ held[d] \in Requests /\ held[d] # r
      BY <1>1, <1>2, <1>3, <1>9, <2>2 DEF Types, CallersOK
    <3>2. out'[held[d]] = out[held[d]] /\ Holding(d)
      BY <1>7, <1>9, <3>1 DEF Owned
    <3> QED BY <1>3, <3>1, <3>2 DEF Holding, Entered, Lost
  <2> QED BY <2>1, <2>2
<1>10. ASSUME NEW s \in pool' PROVE Pooled(s)'
  <2>1. s \in pool /\ s \in Requests /\ s # r
    BY <1>1, <1>10 DEF Types, CallersOK
  <2> QED BY <1>7, <1>8, <2>1 DEF Owned, Pooled
<1> QED BY <1>4, <1>9, <1>10 DEF Owned

(* A call enters its request, which nothing carries yet. *)
LEMMA OwnEnqueue ==
    ASSUME Types, Once, Owned, NEW c \in Callers, Enqueue(c) PROVE Once' /\ Owned'
<1> DEFINE e == [req |-> held[c], kind |-> kind[c], mine |-> TRUE]
<1>1. e \in Entries /\ e.req = held[c] /\ e.mine /\ held[c] \in Requests /\ pc[c] = "send"
  BY DEF Enqueue, Types, CallersOK, Entries
<1>2. qNormal \in Seq(Entries) /\ qHigh \in Seq(Entries)
  BY DEF Types, LoopOK
<1>3. UNCHANGED <<held, out, cur, pool>> /\ pc' = [pc EXCEPT ![c] = "wait"]
  BY DEF Enqueue, Sent
<1>4. ~Entered(held[c]) /\ out[held[c]] = Empty
  BY <1>1 DEF Owned, Holding
<1>5. /\ Once'
      /\ \A r \in Requests : (Entered(r)' => Entered(r) \/ r = held[c]) /\ (Lost(r)' => Lost(r))
  <2>1. CASE qNormal' = Append(qNormal, e) /\ qHigh' = qHigh
    <3>1. /\ \A r : Queued(qNormal', r) => Queued(qNormal, r) \/ r = held[c]
          /\ \A r : Disowned(qNormal', r) => Disowned(qNormal, r)
          /\ Distinct(qNormal')
      BY <1>1, <1>2, <1>4, <2>1, AppendCarries DEF Once, Entered
    <3> QED BY <1>3, <1>4, <2>1, <3>1 DEF Once, Entered, Lost
  <2>2. CASE qHigh' = Append(qHigh, e) /\ qNormal' = qNormal
    <3>1. /\ \A r : Queued(qHigh', r) => Queued(qHigh, r) \/ r = held[c]
          /\ \A r : Disowned(qHigh', r) => Disowned(qHigh, r)
          /\ Distinct(qHigh')
      BY <1>1, <1>2, <1>4, <2>2, AppendCarries DEF Once, Entered
    <3> QED BY <1>3, <1>4, <2>2, <3>1 DEF Once, Entered, Lost
  <2> QED BY <2>1, <2>2 DEF Enqueue
<1>6. ASSUME NEW d \in Callers, pc'[d] \in {"send", "wait"} PROVE Holding(d)'
  <2>1. PICK r \in Requests : r = held[d] /\ r = held'[d]
    BY <1>1, <1>3, <1>6 DEF Types, CallersOK
  <2>2. Holding(d) /\ out' = out
    BY <1>1, <1>3, <1>6 DEF Owned, Types, CallersOK
  <2>3. CASE d = c
    <3>1. pc'[d] = "wait" /\ out[r] = Empty
      BY <1>3, <1>4, <2>1, <2>3 DEF Types, CallersOK
    <3> QED BY <1>5, <2>1, <2>2, <3>1 DEF Holding, Entered, Lost
  <2>4. CASE d # c
    <3>1. pc'[d] = pc[d] /\ r # held[c]
      BY <1>1, <1>3, <2>1, <2>4, ModemAssumption DEF Types, CallersOK
    <3>2. (Entered(r)' => Entered(r)) /\ (Lost(r)' => Lost(r))
      BY <1>5, <3>1
    <3> QED BY <2>1, <2>2, <3>1, <3>2 DEF Holding, Entered, Lost
  <2> QED BY <2>3, <2>4
<1>7. ASSUME NEW r \in pool' PROVE Pooled(r)'
  <2>1. r \in Requests /\ Pooled(r) /\ r # held[c]
    BY <1>3, <1>7 DEF Owned, Types, CallersOK
  <2> QED BY <1>3, <1>5, <2>1 DEF Pooled
<1> QED BY <1>5, <1>6, <1>7 DEF Owned

(* What every command that ends leaves: nothing under way, stray lines. *)
LEMMA CommandEndsFacts ==
    ASSUME LoopOK, PortOK, NEW rest \in Seq(Lines), Len(rest) <= RxCap, CommandEnds(rest)
    PROVE  /\ loop' = "top" /\ cur' = NoEntry
           /\ rx' \in Seq(Lines) /\ Len(rx') = Len(rest) /\ DOMAIN rx' = DOMAIN rest
           /\ \A i \in DOMAIN rest : rx'[i] = [rest[i] EXCEPT !.stray = TRUE]
           /\ pending' \in Seq(Pending) /\ Len(pending') = Len(pending)
BY StrayFacts DEF CommandEnds, PortOK

(* A request that is refused or sent on keeps the types. *)
LEMMA HeldTypes == ASSUME Types, Held PROVE Types'
<1>1. CallersOK' /\ PortOK' /\ cur' = cur /\ streak' = streak /\ loop = "held" /\ loop' = "top"
  BY DEF Held, calls, port, bounds, Types, CallersOK, PortOK
<1>2. "own" \in Results /\ "err" \in {"resp", "err"}
  BY DEF Results
<1>3. CASE UNCHANGED <<out, queues>>
  BY <1>1, <1>3 DEF queues, Types, OutOK, LoopOK
<1>4. CASE qHigh # <<>> /\ Reply(Head(qHigh), "err", "own") /\ qHigh' = Tail(qHigh) /\ UNCHANGED qNormal
  <2>1. Head(qHigh) \in Entries /\ Tail(qHigh) \in Seq(Entries) /\ Len(Tail(qHigh)) <= QueueCap
    BY <1>4, TailFacts, ModemAssumption DEF Types, LoopOK
  <2>2. OutOK'
    BY <1>2, <1>4, <2>1, ReplyFacts DEF Types
  <2> QED BY <1>1, <1>4, <2>1, <2>2 DEF Types, LoopOK
<1>5. CASE qNormal # <<>> /\ Reply(Head(qNormal), "err", "own") /\ qNormal' = Tail(qNormal) /\ UNCHANGED qHigh
  <2>1. Head(qNormal) \in Entries /\ Tail(qNormal) \in Seq(Entries) /\ Len(Tail(qNormal)) <= QueueCap
    BY <1>5, TailFacts, ModemAssumption DEF Types, LoopOK
  <2>2. OutOK'
    BY <1>2, <1>5, <2>1, ReplyFacts DEF Types
  <2> QED BY <1>1, <1>5, <2>1, <2>2 DEF Types, LoopOK
<1> QED BY <1>3, <1>4, <1>5 DEF Held

(* A command that is written, or fails to be. *)
LEMMA WriteTypes ==
    ASSUME Types, NEW e \in Entries, WriteCommand(e), loop # "command"
    PROVE  /\ OutOK'
           /\ loop' \in {"command", "top"} /\ cur' \in Entries \cup {NoEntry}
           /\ (cur' = NoEntry <=> loop' # "command")
           /\ pending' \in Seq(Pending) /\ Len(pending') <= MaxPending
           /\ stopped' \in BOOLEAN
<1>1. e # NoEntry /\ cur = NoEntry
  BY ModemAssumption DEF Entries, NoEntry, Types, LoopOK
<1>2. CASE ~stopped /\ cur' = e /\ loop' = "command" /\ UNCHANGED <<out, stopped>>
           /\ pending' \in {Append(pending, [sms |-> e.kind = "sms", stray |-> FALSE]), pending}
           /\ (pending' # pending => Len(pending) < MaxPending)
  <2>1. [sms |-> e.kind = "sms", stray |-> FALSE] \in Pending
    BY DEF Pending
  <2>2. pending' \in Seq(Pending) /\ Len(pending') <= MaxPending
    BY <1>2, <2>1, AppendFacts, ModemAssumption DEF Types, PortOK
  <2> QED BY <1>1, <1>2, <2>2 DEF Types, OutOK, PortOK
<1>3. CASE Reply(e, "err", "own") /\ loop' = "top" /\ stopped' \in {stopped, TRUE} /\ UNCHANGED <<cur, pending>>
  <2>1. OutOK'
    BY <1>3, ReplyFacts DEF Types, Results
  <2> QED BY <1>1, <1>3, <2>1 DEF Types, PortOK
<1> QED BY <1>2, <1>3 DEF WriteCommand

(* A command that is taken from its queue keeps the types. *)
LEMMA TakeTypes == ASSUME Types, TakeHigh \/ TakeNormal PROVE Types'
<1>1. CallersOK'
  BY DEF TakeHigh, TakeNormal, calls, Types, CallersOK
<1>2. CASE TakeHigh
  <2>1. Head(qHigh) \in Entries /\ Tail(qHigh) \in Seq(Entries) /\ Len(Tail(qHigh)) <= QueueCap
    BY <1>2, TailFacts, ModemAssumption DEF TakeHigh, Types, LoopOK
  <2>2. /\ OutOK' /\ loop' \in {"command", "top"} /\ cur' \in Entries \cup {NoEntry}
        /\ (cur' = NoEntry <=> loop' # "command")
        /\ pending' \in Seq(Pending) /\ Len(pending') <= MaxPending /\ stopped' \in BOOLEAN
    BY <1>2, <2>1, WriteTypes DEF TakeHigh
  <2>3. LoopOK'
    BY <1>2, <2>1, <2>2 DEF TakeHigh, Types, LoopOK
  <2>4. PortOK'
    BY <1>2, <2>2 DEF TakeHigh, bounds, Types, PortOK
  <2> QED BY <1>1, <2>2, <2>3, <2>4 DEF Types
<1>3. CASE TakeNormal
  <2>1. Head(qNormal) \in Entries /\ Tail(qNormal) \in Seq(Entries) /\ Len(Tail(qNormal)) <= QueueCap
    BY <1>3, TailFacts, ModemAssumption DEF TakeNormal, Types, LoopOK
  <2>2. /\ OutOK' /\ loop' \in {"command", "top"} /\ cur' \in Entries \cup {NoEntry}
        /\ (cur' = NoEntry <=> loop' # "command")
        /\ pending' \in Seq(Pending) /\ Len(pending') <= MaxPending /\ stopped' \in BOOLEAN
    BY <1>3, <2>1, WriteTypes DEF TakeNormal
  <2>3. LoopOK'
    BY <1>3, <2>1, <2>2 DEF TakeNormal, Types, LoopOK
  <2>4. PortOK'
    BY <1>3, <2>2 DEF TakeNormal, bounds, Types, PortOK
  <2> QED BY <1>1, <2>2, <2>3, <2>4 DEF Types
<1> QED BY <1>2, <1>3

(* A command that ends, or has its prompt, keeps the types. *)
LEMMA CommandTypes == ASSUME Types, Timeout \/ HandleLine PROVE Types'
<1>1. CallersOK' /\ loop = "command" /\ cur \in Entries
  BY DEF Timeout, HandleLine, ReadError, Final, Prompt, calls, Types, CallersOK, LoopOK
<1>2. {"own", "late"} \subseteq Results
  BY DEF Results
<1>3. CASE Timeout
  <2>1. OutOK'
    BY <1>1, <1>2, <1>3, ReplyFacts DEF Timeout, Types
  <2>2. streak' \in 0..Threshold
    BY <1>3, ModemAssumption DEF Timeout, RecordTimeout, Types, LoopOK
  <2>3. /\ loop' = "top" /\ cur' = NoEntry /\ rx' \in Seq(Lines) /\ Len(rx') <= RxCap
        /\ pending' \in Seq(Pending) /\ Len(pending') <= MaxPending
    BY <1>3, CommandEndsFacts DEF Timeout, Types, PortOK
  <2>4. LoopOK'
    BY <1>3, <2>2, <2>3 DEF Timeout, queues, Types, LoopOK
  <2>5. PortOK'
    BY <1>3, <2>3 DEF Timeout, bounds, Types, PortOK
  <2> QED BY <1>1, <2>1, <2>4, <2>5 DEF Types
<1>4. ASSUME ReadError \/ Final \/ (Prompt /\ cur.kind # "sms") PROVE Types'
  <2>1. rx # <<>> /\ CommandEnds(Tail(rx)) /\ UNCHANGED <<queues, reader, paused, bounds, outOfStep>>
    BY <1>4 DEF ReadError, Final, Prompt
  <2>2. Tail(rx) \in Seq(Lines) /\ Len(Tail(rx)) <= RxCap
    BY <2>1, TailFacts, ModemAssumption DEF Types, PortOK
  <2>3. /\ loop' = "top" /\ cur' = NoEntry /\ rx' \in Seq(Lines) /\ Len(rx') <= RxCap
        /\ pending' \in Seq(Pending) /\ Len(pending') <= MaxPending
    BY <2>1, <2>2, CommandEndsFacts DEF Types, PortOK
  <2>4. OutOK'
    <3>1. CASE ReadError  BY <1>1, <1>2, <3>1, ReplyFacts DEF ReadError, Types
    <3>2. CASE Final
      <4>1. PICK ch \in {"resp", "err"}, what \in {"own", "late"} : Reply(cur, ch, what)
        BY <3>2 DEF Final
      <4> QED BY <1>1, <1>2, <4>1, ReplyFacts DEF Types
    <3>3. CASE Prompt /\ cur.kind # "sms"
      <4>1. PICK what \in {"own", "late"} : Reply(cur, "resp", what)
        BY <3>3 DEF Prompt
      <4> QED BY <1>1, <1>2, <4>1, ReplyFacts DEF Types
    <3> QED BY <1>4, <3>1, <3>2, <3>3
  <2>5. streak' \in 0..Threshold /\ stopped' \in BOOLEAN
    <3>1. CASE ReadError  BY <3>1 DEF ReadError, Types, LoopOK
    <3>2. CASE Final \/ Prompt
      <4>1. streak' = 0 /\ stopped' = stopped
        BY <3>2 DEF Final, Prompt
      <4> QED BY <4>1, ModemAssumption DEF Types, PortOK
    <3> QED BY <1>4, <3>1, <3>2
  <2>6. LoopOK'
    BY <2>1, <2>3, <2>5 DEF queues, Types, LoopOK
  <2>7. PortOK'
    BY <2>1, <2>3, <2>5 DEF bounds, Types, PortOK
  <2> QED BY <1>1, <2>4, <2>6, <2>7 DEF Types
<1>5. CASE Prompt /\ cur.kind = "sms"
  <2>1. /\ rx # <<>> /\ rx' = Tail(rx) /\ cur' = [cur EXCEPT !.kind = "high"] /\ streak' = 0
        /\ UNCHANGED <<out, loop, queues, reader, stopped, paused, bounds, outOfStep>>
        /\ \/ Len(pending) < MaxPending /\ pending' = Append(pending, [sms |-> FALSE, stray |-> FALSE])
           \/ UNCHANGED pending
    BY <1>5 DEF Prompt
  <2>2. rx' \in Seq(Lines) /\ Len(rx') <= RxCap
    BY <2>1, TailFacts, ModemAssumption DEF Types, PortOK
  <2>3. [sms |-> FALSE, stray |-> FALSE] \in Pending
    BY DEF Pending
  <2>4. pending' \in Seq(Pending) /\ Len(pending') <= MaxPending
    <3>1. CASE UNCHANGED pending  BY <3>1 DEF Types, PortOK
    <3>2. CASE Len(pending) < MaxPending /\ pending' = Append(pending, [sms |-> FALSE, stray |-> FALSE])
      BY <2>3, <3>2, AppendFacts, ModemAssumption DEF Types, PortOK
    <3> QED BY <2>1, <3>1, <3>2
  <2>5. cur' \in Entries /\ NoEntry \notin Entries
    <3>1. cur' \in Entries
      BY <1>1, <2>1 DEF Entries
    <3>2. NoEntry \notin Entries
      BY ModemAssumption DEF Entries, NoEntry
    <3> QED BY <3>1, <3>2
  <2>6. LoopOK'
    BY <1>1, <2>1, <2>5, ModemAssumption DEF queues, Types, LoopOK
  <2>7. PortOK'
    BY <2>1, <2>2, <2>4 DEF bounds, Types, PortOK
  <2>8. OutOK'
    BY <2>1 DEF Types, OutOK
  <2> QED BY <1>1, <2>6, <2>7, <2>8 DEF Types
<1> QED BY <1>3, <1>4, <1>5 DEF HandleLine

(* A line that is read keeps the types. *)
LEMMA ReaderTypes == ASSUME Types, ReaderSteps PROVE Types'
<1>1. CallersOK' /\ OutOK' /\ LoopOK'
  BY DEF ReaderSteps, ReaderChecks, ReadLine, ReadFails, ReaderReports, calls, queues, Types, CallersOK, OutOK, LoopOK
<1>2. CASE ReaderChecks  BY <1>1, <1>2 DEF ReaderChecks, bounds, Types, PortOK
<1>3. CASE ReadLine
  <2>1. CASE UNCHANGED <<rx, pending>>
    <3>1. outOfStep' \in BOOLEAN
      BY <1>3 DEF ReadLine, Types, PortOK
    <3> QED BY <1>1, <1>3, <2>1, <3>1 DEF ReadLine, bounds, Types, PortOK
  <2>2. ASSUME NEW k \in {"prompt", "ok", "error"}, pending # <<>>, Len(rx) < RxCap, pending' = Tail(pending),
               rx' = Append(rx, [kind |-> k, stray |-> Head(pending).stray]), UNCHANGED outOfStep
        PROVE Types'
    <3>2. Tail(pending) \in Seq(Pending) /\ Len(Tail(pending)) <= MaxPending /\ Head(pending) \in Pending
      BY <2>2, TailFacts, ModemAssumption DEF Types, PortOK
    <3>3. [kind |-> k, stray |-> Head(pending).stray] \in Lines
      BY <3>2 DEF Lines, Pending
    <3>4. rx' \in Seq(Lines) /\ Len(rx') <= RxCap
      BY <2>2, <3>3, AppendFacts, ModemAssumption DEF Types, PortOK
    <3> QED BY <1>1, <1>3, <2>2, <3>2, <3>4 DEF ReadLine, bounds, Types, PortOK
  <2>3. ASSUME NEW k \in {"prompt", "error"}, Len(rx) < RxCap, UNCHANGED pending, outOfStep' = TRUE,
               rx' = Append(rx, [kind |-> k, stray |-> TRUE])
        PROVE Types'
    <3>1. [kind |-> k, stray |-> TRUE] \in Lines
      BY DEF Lines
    <3>2. rx' \in Seq(Lines) /\ Len(rx') <= RxCap
      BY <2>3, <3>1, AppendFacts, ModemAssumption DEF Types, PortOK
    <3> QED BY <1>1, <1>3, <2>3, <3>2 DEF ReadLine, bounds, Types, PortOK
  <2> QED BY <1>3, <2>1, <2>2, <2>3 DEF ReadLine
<1>4. CASE ReadFails  BY <1>1, <1>4 DEF ReadFails, bounds, Types, PortOK
<1>5. CASE ReaderReports
  <2>1. [kind |-> reader, stray |-> FALSE] \in Lines
    BY <1>5 DEF ReaderReports, Lines
  <2>2. rx' \in Seq(Lines) /\ Len(rx') <= RxCap
    BY <1>5, <2>1, AppendFacts, ModemAssumption DEF ReaderReports, Types, PortOK
  <2> QED BY <1>1, <1>5, <2>2 DEF ReaderReports, bounds, Types, PortOK
<1> QED BY <1>2, <1>3, <1>4, <1>5 DEF ReaderSteps

(* A step that moves runLoop, a flag, or a line between commands keeps the types. *)
LEMMA OtherTypes ==
    ASSUME Types, LoopTop \/ LoopStops \/ IdleLine \/ Stop \/ Pause \/ Resume \/ UNCHANGED vars PROVE Types'
<1>1. CallersOK' /\ OutOK'
  BY DEF LoopTop, LoopStops, IdleLine, Stop, Pause, Resume, vars, calls, Types, CallersOK, OutOK
<1>2. LoopOK'
  BY DEF LoopTop, LoopStops, IdleLine, Stop, Pause, Resume, vars, queues, Types, LoopOK
<1>3. rx' \in Seq(Lines) /\ Len(rx') <= RxCap
  <2>1. CASE IdleLine  BY <2>1, TailFacts, ModemAssumption DEF IdleLine, Types, PortOK
  <2>2. CASE ~IdleLine
    BY <2>2 DEF LoopTop, LoopStops, Stop, Pause, Resume, vars, port, Types, PortOK
  <2> QED BY <2>1, <2>2
<1>4. pauses' \in 0..MaxPauses
  BY ModemAssumption DEF LoopTop, LoopStops, IdleLine, Stop, Pause, Resume, vars, bounds, Types, PortOK
<1>5. /\ reader' = reader /\ pending' = pending /\ highs' = highs /\ outOfStep' = outOfStep
      /\ stopped' \in BOOLEAN /\ paused' \in BOOLEAN
  BY DEF LoopTop, LoopStops, IdleLine, Stop, Pause, Resume, vars, port, bounds, Types, PortOK
<1>6. PortOK'
  BY <1>3, <1>4, <1>5 DEF Types, PortOK
<1> QED BY <1>1, <1>2, <1>6 DEF Types

(* A return of a call is one of these. *)
LEMMA ReturnCases ==
    ASSUME Types, NEW c \in Callers, NotSent(c) \/ Receive(c) \/ WaitStopped(c) \/ GiveUp(c)
    PROVE  /\ pc[c] \in {"send", "wait"}
           /\ \E how \in Results : Leave(c, how) /\ (how = "none" \/ how \in {out[held[c]].resp, out[held[c]].err})
<1>1. "none" \in Results
  BY DEF Results
<1>2. CASE Receive(c)
  <2>1. held[c] \in Requests
    BY <1>2 DEF Receive, Types, CallersOK
  <2>2. out[held[c]] \in [resp : Results, err : Results]
    BY <2>1 DEF Types, OutOK
  <2> QED BY <1>2, <2>2 DEF Receive
<1> QED BY <1>1, <1>2 DEF NotSent, WaitStopped, GiveUp

(* Every step keeps the types. *)
LEMMA NextTypes == ASSUME Types, [Next]_vars PROVE Types'
BY CallTypes, GetTypes, EnqueueTypes, ReturnCases, LeaveTypes, HeldTypes, TakeTypes, CommandTypes, ReaderTypes, OtherTypes
   DEF Next, CallSteps, LoopSteps

(* A caller that leaves gives back a request that nothing carries any more. *)
LEMMA OwnReturn ==
    ASSUME Types, Once, Owned, ~stopped,
           NEW c \in Callers, NotSent(c) \/ Receive(c) \/ WaitStopped(c) \/ GiveUp(c)
    PROVE  Once' /\ Owned'
<1>1. PICK how \in Results : pc[c] \in {"send", "wait"} /\ Leave(c, how)
  BY ReturnCases
<1>2. kind[c] # "sms" => ~Entered(held[c])
  <2>1. CASE NotSent(c)
    BY <2>1 DEF NotSent, Owned, Holding
  <2>2. CASE Receive(c)
    BY <2>2 DEF Receive, Owned, Holding, Empty
  <2> QED BY <2>1, <2>2 DEF WaitStopped, GiveUp
<1>3. held[c] \in Requests /\ cur'.req = cur.req /\ cur' = Disown(held[c], cur)
  BY <1>1, LeaveTypes
<1>4. cur.req # held[c] => cur' = cur
  BY <1>3 DEF Disown
<1>5. /\ pc' = [pc EXCEPT ![c] = "idle"] /\ held' = [held EXCEPT ![c] = NoRequest]
      /\ pool' = (IF kind[c] = "sms" THEN pool ELSE pool \cup {held[c]})
      /\ out' = [out EXCEPT ![held[c]] = Empty]
      /\ qNormal' = DisownAll(held[c], qNormal) /\ qHigh' = DisownAll(held[c], qHigh)
  BY <1>1 DEF Leave
<1>6. /\ \A r : (Queued(qNormal', r) <=> Queued(qNormal, r)) /\ (Queued(qHigh', r) <=> Queued(qHigh, r))
      /\ \A r : Disowned(qNormal', r) => r = held[c] \/ Disowned(qNormal, r)
      /\ \A r : Disowned(qHigh', r) => r = held[c] \/ Disowned(qHigh, r)
      /\ Distinct(qNormal') /\ Distinct(qHigh')
  BY <1>5, DisownCarries DEF Types, LoopOK, Once
<1>7. Once'
  BY <1>3, <1>6 DEF Once
<1>8. ASSUME NEW r \in Requests
      PROVE  (Entered(r)' <=> Entered(r)) /\ (Lost(r)' => Lost(r) \/ r = held[c])
  BY <1>3, <1>4, <1>6 DEF Entered, Lost
<1>9. out'[held[c]] = Empty /\ \A r \in Requests \ {held[c]} : out'[r] = out[r]
  BY <1>3, <1>5 DEF Types, OutOK
<1>10. ASSUME NEW d \in Callers, pc'[d] \in {"send", "wait"} PROVE Holding(d)'
  <2>1. d # c /\ pc'[d] = pc[d]
    BY <1>5, <1>10 DEF Types, CallersOK
  <2>2. PICK r \in Requests : r = held[d] /\ r = held'[d] /\ r # held[c]
    BY <1>3, <1>5, <1>10, <2>1, ModemAssumption DEF Types, CallersOK
  <2>3. (Entered(r)' <=> Entered(r)) /\ (Lost(r)' => Lost(r)) /\ out'[r] = out[r]
    BY <1>8, <1>9, <2>2
  <2>4. Holding(d)
    BY <1>10, <2>1 DEF Owned
  <2> QED BY <2>1, <2>2, <2>3, <2>4 DEF Holding, Entered, Lost
<1>11. ASSUME NEW r \in pool' PROVE Pooled(r)'
  <2>1. CASE r = held[c]
    <3>1. ~Entered(r)
      <4>1. kind[c] # "sms"
        BY <1>5, <1>11, <2>1 DEF Types, CallersOK
      <4> QED BY <1>2, <2>1, <4>1
    <3> QED BY <1>3, <1>8, <1>9, <2>1, <3>1 DEF Pooled
  <2>2. CASE r # held[c]
    <3>1. r \in pool /\ r \in Requests
      BY <1>5, <1>11, <2>2 DEF Types, CallersOK
    <3>2. Pooled(r)
      BY <3>1 DEF Owned
    <3> QED BY <1>8, <1>9, <2>2, <3>1, <3>2 DEF Pooled
  <2> QED BY <2>1, <2>2
<1> QED BY <1>7, <1>10, <1>11 DEF Owned

(* A command that is refused, or written, leaves every caller its own entry. *)
LEMMA OwnHeld == ASSUME Types, Once, Owned, Held PROVE Once' /\ Owned'
<1>1. UNCHANGED <<pc, held, pool, cur>>
  BY DEF Held, calls
<1>2. CASE UNCHANGED <<out, queues>>
  <2>1. UNCHANGED <<out, qNormal, qHigh>>
    BY <1>2 DEF queues
  <2>2. Once'
    BY <1>1, <2>1 DEF Once
  <2>3. \A r \in Requests : (Entered(r)' => Entered(r)) /\ (Lost(r)' => Lost(r))
    BY <1>1, <2>1 DEF Entered, Lost
  <2> QED BY <1>1, <2>1, <2>2, <2>3, OwnedKept
<1>3. CASE ~UNCHANGED <<out, queues>>
  <2>1. PICK e : /\ Reply(e, "err", "own")
                 /\ \/ qHigh # <<>> /\ e = Head(qHigh) /\ qHigh' = Tail(qHigh) /\ UNCHANGED qNormal
                    \/ qNormal # <<>> /\ e = Head(qNormal) /\ qNormal' = Tail(qNormal) /\ UNCHANGED qHigh
    BY <1>3 DEF Held
  <2>2. /\ e \in Entries /\ Entered(e.req) /\ (~e.mine => Lost(e.req))
        /\ Once' /\ \A r \in Requests : (Entered(r)' => Entered(r) /\ r # e.req) /\ (Lost(r)' => Lost(r))
    BY <1>1, <2>1, Taken
  <2> QED BY <1>1, <2>1, <2>2, OwnedReply
<1> QED BY <1>2, <1>3

(* A command that is taken to be written does so too. *)
LEMMA OwnTake == ASSUME Types, Once, Owned, TakeHigh \/ TakeNormal PROVE Once' /\ Owned'
<1>1. UNCHANGED <<pc, held, pool>> /\ cur = NoEntry
  BY DEF TakeHigh, TakeNormal, calls, Types, LoopOK
<1>2. PICK e : /\ WriteCommand(e)
               /\ \/ qHigh # <<>> /\ e = Head(qHigh) /\ qHigh' = Tail(qHigh) /\ UNCHANGED qNormal
                  \/ qNormal # <<>> /\ e = Head(qNormal) /\ qNormal' = Tail(qNormal) /\ UNCHANGED qHigh
  BY DEF TakeHigh, TakeNormal
<1>3. CASE cur' = e /\ UNCHANGED out
  <2>1. Once' /\ \A r \in Requests : (Entered(r)' => Entered(r)) /\ (Lost(r)' => Lost(r))
    BY <1>1, <1>2, <1>3, Taken
  <2> QED BY <1>1, <1>3, <2>1, OwnedKept
<1>4. CASE Reply(e, "err", "own") /\ cur' = cur
  <2>1. /\ e \in Entries /\ Entered(e.req) /\ (~e.mine => Lost(e.req))
        /\ Once' /\ \A r \in Requests : (Entered(r)' => Entered(r) /\ r # e.req) /\ (Lost(r)' => Lost(r))
    BY <1>2, <1>4, Taken
  <2> QED BY <1>1, <1>4, <2>1, OwnedReply
<1> QED BY <1>2, <1>3, <1>4 DEF WriteCommand

(* The answer to a command ends it. *)
LEMMA OwnCommand == ASSUME Types, Once, Owned, Timeout \/ HandleLine PROVE Once' /\ Owned'
<1>1. /\ UNCHANGED <<pc, held, pool, qNormal, qHigh>>
      /\ cur \in Entries /\ cur.req \in Requests /\ NoEntry.req \notin Requests
  <2>1. UNCHANGED <<pc, held, pool, qNormal, qHigh>> /\ cur \in Entries
    BY DEF Timeout, HandleLine, ReadError, Final, Prompt, calls, queues, Types, LoopOK
  <2> QED BY <2>1, ModemAssumption DEF Entries, NoEntry
<1>2. CASE Prompt /\ cur.kind = "sms"
  <2>1. out' = out /\ cur'.req = cur.req /\ cur'.mine = cur.mine
    BY <1>1, <1>2 DEF Prompt, Entries
  <2>2. Once'
    BY <1>1, <2>1 DEF Once
  <2>3. \A r \in Requests : (Entered(r)' => Entered(r)) /\ (Lost(r)' => Lost(r))
    BY <1>1, <2>1 DEF Entered, Lost
  <2> QED BY <1>1, <2>1, <2>2, <2>3, OwnedKept
<1>3. CASE ~(Prompt /\ cur.kind = "sms")
  <2>1. PICK ch \in {"resp", "err"}, what \in {"own", "late"} : Reply(cur, ch, what) /\ cur' = NoEntry
    <3>1. CASE Timeout  BY <3>1 DEF Timeout, CommandEnds
    <3>2. CASE ReadError  BY <3>2 DEF ReadError, CommandEnds
    <3>3. CASE Final  BY <3>3 DEF Final, CommandEnds
    <3>4. CASE Prompt  BY <1>3, <3>4 DEF Prompt, CommandEnds
    <3> QED BY <3>1, <3>2, <3>3, <3>4 DEF HandleLine
  <2>2. Once'
    BY <1>1, <2>1 DEF Once
  <2>3. Entered(cur.req) /\ (~cur.mine => Lost(cur.req))
    BY DEF Entered, Lost
  <2>4. \A r \in Requests : (Entered(r)' => Entered(r) /\ r # cur.req) /\ (Lost(r)' => Lost(r))
    BY <1>1, <2>1 DEF Once, Entered, Lost
  <2> QED BY <1>1, <2>1, <2>2, <2>3, <2>4, OwnedReply
<1> QED BY <1>2, <1>3

(* A manager that runs has run, and what has not timed out had not. *)
LEMMA Monotone == ASSUME Types, [Next]_vars PROVE (stopped => stopped') /\ (outOfStep => outOfStep')
<1>1. CASE \E c \in Callers : (\E k \in Kinds[c] : Call(c, k)) \/ CallSteps(c)
  BY <1>1 DEF Call, CallSteps, Get, Enqueue, NotSent, Receive, WaitStopped, GiveUp, Leave
<1>2. CASE LoopTop \/ LoopStops \/ Held \/ IdleLine \/ ReaderSteps \/ Pause \/ Resume \/ Stop \/ UNCHANGED vars
  BY <1>2 DEF LoopTop, LoopStops, Held, IdleLine, ReaderSteps, ReaderChecks, ReadLine, ReadFails, ReaderReports,
              Pause, Resume, Stop, vars
<1>3. CASE TakeHigh \/ TakeNormal
  <2>1. stopped' = stopped \/ stopped' = TRUE
    BY <1>3 DEF TakeHigh, TakeNormal, WriteCommand
  <2>2. outOfStep' = outOfStep
    BY <1>3 DEF TakeHigh, TakeNormal
  <2>3. CASE stopped' = stopped  BY <2>2, <2>3
  <2>4. CASE stopped' = TRUE  BY <2>2, <2>4
  <2> QED BY <2>1, <2>3, <2>4
<1>4. CASE Timeout  BY <1>4 DEF Timeout
<1>5. CASE ReadError  BY <1>5 DEF ReadError
<1>6. CASE Final \/ Prompt  BY <1>6 DEF Final, Prompt
<1> QED BY <1>1, <1>2, <1>3, <1>4, <1>5, <1>6 DEF Next, LoopSteps, HandleLine

(* As long as the manager runs, every caller has its own entry. *)
LEMMA NextOwn == ASSUME Types, Own, ~stopped, [Next]_vars PROVE Own'
<1>1. Own <=> Once /\ Owned
  BY DEF Own, Owned
<1>2. Own' <=> Once' /\ Owned'
  BY DEF Own, Owned
<1>3. CASE \E c \in Callers : (\E k \in Kinds[c] : Call(c, k)) \/ CallSteps(c)
  BY <1>1, <1>2, <1>3, OwnCall, OwnGet, OwnEnqueue, OwnReturn DEF CallSteps
<1>4. CASE LoopTop \/ LoopStops \/ IdleLine \/ ReaderSteps \/ Pause \/ Resume \/ Stop \/ UNCHANGED vars
  <2>1. UNCHANGED <<pc, held, pool, out, qNormal, qHigh, cur>>
    BY <1>4 DEF LoopTop, LoopStops, IdleLine, ReaderSteps, ReaderChecks, ReadLine, ReadFails, ReaderReports,
                Pause, Resume, Stop, vars, calls, queues
  <2>2. Once'
    BY <1>1, <2>1 DEF Once
  <2>3. \A r \in Requests : (Entered(r)' => Entered(r)) /\ (Lost(r)' => Lost(r))
    BY <2>1 DEF Entered, Lost
  <2> QED BY <1>1, <1>2, <2>1, <2>2, <2>3, OwnedKept
<1>5. CASE Held \/ TakeHigh \/ TakeNormal \/ Timeout \/ HandleLine
  BY <1>1, <1>2, <1>5, OwnHeld, OwnTake, OwnCommand
<1> QED BY <1>3, <1>4, <1>5 DEF Next, LoopSteps

-----------------------------------------------------------------------------
(* Answers in time.                                                         *)

(* A step that leaves the lines alone, and no command under way or begun. *)
LEMMA InTimeKept ==
    ASSUME InTime, UNCHANGED <<reader, rx, pending>>,
           loop' = loop \/ (loop # "command" /\ loop' # "command")
    PROVE  InTime'
BY DEF InTime, Answer

(* A command that is written finds no answer on its way. *)
LEMMA WriteInTime ==
    ASSUME Types, InTime, NEW e \in Entries, WriteCommand(e), loop # "command", UNCHANGED <<reader, rx>>
    PROVE  InTime'
<1>1. CASE loop' = "top"
  BY <1>1, InTimeKept DEF WriteCommand
<1>2. CASE /\ loop' = "command"
           /\ \/ pending' = Append(pending, [sms |-> e.kind = "sms", stray |-> FALSE])
              \/ UNCHANGED pending
  <2>1. [sms |-> e.kind = "sms", stray |-> FALSE] \in Pending
    BY DEF Pending
  <2>2. /\ \A i \in DOMAIN rx : ~Answer(rx[i])
    BY DEF InTime
  <2>3. ASSUME reader \in {"check", "read"}
        PROVE  /\ Len(rx) = 0 /\ Len(pending') <= 1
               /\ \A i \in DOMAIN rx : Answer(rx[i])
               /\ \A i \in DOMAIN pending' : ~pending'[i].stray
    <3>1. Len(rx) = 0 /\ Len(pending) = 0 /\ pending \in Seq(Pending)
      BY <2>3, LenProperties DEF InTime, Types, PortOK
    <3>2. DOMAIN pending = {}
      BY <3>1, LenProperties
    <3>3. CASE UNCHANGED pending  BY <2>3, <3>1, <3>2, <3>3 DEF InTime
    <3>4. CASE pending' = Append(pending, [sms |-> e.kind = "sms", stray |-> FALSE])
      <4>1. Len(pending') = 1 /\ DOMAIN pending' = 1..1 /\ ~pending'[1].stray
        BY <2>1, <3>1, <3>4, AppendFacts
      <4> QED BY <2>3, <3>1, <4>1 DEF InTime
    <3> QED BY <1>2, <3>3, <3>4
  <2> QED BY <1>2, <2>2, <2>3 DEF InTime, Answer
<1> QED BY <1>1, <1>2 DEF WriteCommand

(* A command that ends leaves no answer behind. *)
LEMMA EndInTime ==
    ASSUME Types, InTime, loop = "command", rx # <<>>, CommandEnds(Tail(rx)), reader' = reader
    PROVE  InTime'
<1>1. /\ Tail(rx) \in Seq(Lines) /\ Len(Tail(rx)) = Len(rx) - 1 /\ Len(rx) \in Nat \ {0}
      /\ DOMAIN Tail(rx) = 1..(Len(rx) - 1) /\ DOMAIN rx = 1..Len(rx)
      /\ \A i \in DOMAIN Tail(rx) : i + 1 \in DOMAIN rx /\ Tail(rx)[i] = rx[i + 1]
  BY TailFacts DEF Types, PortOK
<1>2. Len(Tail(rx)) <= RxCap
  BY <1>1, ModemAssumption DEF Types, PortOK
<1>3. /\ loop' = "top" /\ rx' \in Seq(Lines) /\ Len(rx') = Len(rx) - 1 /\ DOMAIN rx' = DOMAIN Tail(rx)
      /\ \A i \in DOMAIN Tail(rx) : rx'[i] = [Tail(rx)[i] EXCEPT !.stray = TRUE]
      /\ pending' \in Seq(Pending) /\ Len(pending') = Len(pending)
  BY <1>1, <1>2, CommandEndsFacts DEF Types
<1>4. ASSUME NEW i \in DOMAIN rx' PROVE ~Answer(rx'[i])
  <2>1. i + 1 \in DOMAIN rx /\ i + 1 # 1 /\ rx'[i] = [rx[i + 1] EXCEPT !.stray = TRUE] /\ rx[i + 1] \in Lines
    BY <1>1, <1>3, ElementOfSeq DEF Types, PortOK
  <2>2. ~Answer(rx[i + 1])
    BY <2>1 DEF InTime
  <2> QED BY <2>1, <2>2 DEF Answer, Lines
<1>5. ASSUME reader \in {"check", "read"}
      PROVE  Len(rx') + Len(pending') <= 0 /\ DOMAIN rx' = {} /\ DOMAIN pending' = {}
  <2>1. Len(pending) \in Nat /\ Len(rx) + Len(pending) <= 1
    BY <1>5, LenProperties DEF InTime, Types, PortOK
  <2>2. Len(rx') = 0 /\ Len(pending') = 0
    BY <1>1, <1>3, <2>1
  <2> QED BY <1>3, <2>2, LenProperties
<1> QED BY <1>3, <1>4, <1>5 DEF InTime

(* As long as no command times out, answers come in time. *)
LEMMA NextInTime ==
    ASSUME Types, InTime, [Next]_vars, ~outOfStep' PROVE InTime'
<1>1. ASSUME NEW c \in Callers, NEW k \in Kinds[c], Call(c, k) PROVE InTime'
  BY <1>1, InTimeKept DEF Call, port
<1>2. ASSUME NEW c \in Callers, CallSteps(c) PROVE InTime'
  BY <1>2, InTimeKept DEF CallSteps, Get, Enqueue, NotSent, Receive, WaitStopped, GiveUp, Leave, port
<1>3. CASE LoopTop \/ LoopStops \/ Stop \/ Pause \/ Resume \/ Held \/ UNCHANGED vars
  BY <1>3, InTimeKept DEF LoopTop, LoopStops, Stop, Pause, Resume, Held, vars, port
<1>4. CASE TakeHigh
  <2>1. Head(qHigh) \in Entries
    BY <1>4, TailFacts DEF TakeHigh, Types, LoopOK
  <2> QED BY <1>4, <2>1, WriteInTime DEF TakeHigh
<1>5. CASE TakeNormal
  <2>1. Head(qNormal) \in Entries
    BY <1>5, TailFacts DEF TakeNormal, Types, LoopOK
  <2> QED BY <1>5, <2>1, WriteInTime DEF TakeNormal
<1>6. CASE IdleLine
  <2>1. /\ loop = "select" /\ loop' # "command" /\ rx # <<>> /\ rx' = Tail(rx) /\ UNCHANGED <<reader, pending>>
    BY <1>6 DEF IdleLine
  <2>2. /\ DOMAIN Tail(rx) = 1..(Len(rx) - 1) /\ DOMAIN rx = 1..Len(rx) /\ Len(rx) \in Nat \ {0}
        /\ \A i \in DOMAIN Tail(rx) : i + 1 \in DOMAIN rx /\ Tail(rx)[i] = rx[i + 1]
    BY <2>1, TailFacts DEF Types, PortOK
  <2>3. Len(pending) \in Nat
    BY LenProperties DEF Types, PortOK
  <2>4. reader \notin {"check", "read"}
    BY <2>1, <2>2, <2>3 DEF InTime
  <2>5. \A i \in DOMAIN rx' : ~Answer(rx'[i])
    BY <2>1, <2>2 DEF InTime
  <2> QED BY <2>1, <2>4, <2>5 DEF InTime, Answer
<1>7. CASE Timeout
  BY <1>7 DEF Timeout
<1>8. ASSUME ReadError \/ Final \/ (Prompt /\ cur.kind # "sms") PROVE InTime'
  BY <1>8, EndInTime DEF ReadError, Final, Prompt
<1>9. CASE Prompt /\ cur.kind = "sms"
  <2>1. /\ loop = "command" /\ loop' = loop /\ rx # <<>> /\ rx' = Tail(rx) /\ reader' = reader
        /\ \/ pending' = Append(pending, [sms |-> FALSE, stray |-> FALSE])
           \/ UNCHANGED pending
    BY <1>9 DEF Prompt
  <2>2. /\ DOMAIN Tail(rx) = 1..(Len(rx) - 1) /\ DOMAIN rx = 1..Len(rx) /\ Len(rx) \in Nat \ {0}
        /\ Len(Tail(rx)) = Len(rx) - 1
        /\ \A i \in DOMAIN Tail(rx) : i + 1 \in DOMAIN rx /\ Tail(rx)[i] = rx[i + 1]
    BY <2>1, TailFacts DEF Types, PortOK
  <2>3. \A i \in DOMAIN rx' : ~Answer(rx'[i])
    BY <2>1, <2>2 DEF InTime
  <2>4. ASSUME reader \in {"check", "read"}
        PROVE  /\ Len(rx') = 0 /\ Len(pending') <= 1 /\ DOMAIN rx' = {}
               /\ Len(pending') \in Nat
               /\ \A i \in DOMAIN pending' : ~pending'[i].stray
    <3>1. Len(rx) = 1 /\ Len(pending) = 0 /\ pending \in Seq(Pending)
      BY <2>2, <2>4, LenProperties DEF InTime, Types, PortOK
    <3>2. DOMAIN pending = {}
      BY <3>1, LenProperties
    <3>3. [sms |-> FALSE, stray |-> FALSE] \in Pending
      BY DEF Pending
    <3>4. CASE UNCHANGED pending  BY <2>1, <2>2, <3>1, <3>2, <3>4
    <3>5. CASE pending' = Append(pending, [sms |-> FALSE, stray |-> FALSE])
      <4>1. Len(pending') = 1 /\ DOMAIN pending' = 1..1 /\ ~pending'[1].stray
        BY <3>1, <3>3, <3>5, AppendFacts
      <4> QED BY <2>1, <2>2, <3>1, <4>1
    <3> QED BY <2>1, <3>4, <3>5
  <2> QED BY <2>1, <2>3, <2>4 DEF InTime, Answer
<1>10. CASE ReaderChecks
  BY <1>10 DEF ReaderChecks, InTime, Answer
<1>11. CASE ReadLine
  <2>1. CASE UNCHANGED <<rx, pending>>  BY <1>11, <2>1 DEF ReadLine, InTime, Answer
  <2>2. CASE ~UNCHANGED <<rx, pending>>
    (* Nothing has passed for an answer. *)
    <3>1. PICK k \in {"prompt", "ok", "error"} :
             /\ pending # <<>> /\ pending' = Tail(pending)
             /\ rx' = Append(rx, [kind |-> k, stray |-> Head(pending).stray])
      BY <1>11, <2>2 DEF ReadLine
    <3>2. /\ Tail(pending) \in Seq(Pending) /\ Len(Tail(pending)) = Len(pending) - 1 /\ Len(pending) \in Nat \ {0}
          /\ Head(pending) = pending[1] /\ Head(pending) \in Pending /\ 1 \in DOMAIN pending
      BY <3>1, TailFacts DEF Types, PortOK
    <3>3. [kind |-> k, stray |-> Head(pending).stray] \in Lines
      BY <3>2 DEF Lines, Pending
    <3>4. reader = "read" /\ loop' = loop
      BY <1>11 DEF ReadLine
    <3>5. Len(rx) \in Nat /\ Len(rx) + Len(pending) <= (IF loop = "command" THEN 1 ELSE 0) /\ ~pending[1].stray
      BY <3>2, <3>4, LenProperties DEF InTime, Types, PortOK
    <3>6. loop = "command" /\ Len(rx) = 0 /\ Len(pending) = 1
      BY <3>2, <3>5
    <3>7. Len(rx') = 1 /\ DOMAIN rx' = 1..1 /\ rx'[1] = [kind |-> k, stray |-> Head(pending).stray]
      BY <3>1, <3>3, <3>6, AppendFacts DEF Types, PortOK
    <3>8. Len(pending') = 0 /\ DOMAIN pending' = {}
      BY <3>1, <3>2, <3>6, LenProperties
    <3>9. ~rx'[1].stray /\ Answer(rx'[1])
      BY <3>2, <3>5, <3>7 DEF Answer
    <3> QED BY <3>4, <3>6, <3>7, <3>8, <3>9 DEF InTime, Answer
  <2> QED BY <2>1, <2>2
<1>12. CASE ReadFails
  BY <1>12 DEF ReadFails, InTime, Answer
<1>13. CASE ReaderReports
  <2>1. [kind |-> reader, stray |-> FALSE] \in Lines /\ ~Answer([kind |-> reader, stray |-> FALSE])
    BY <1>13 DEF ReaderReports, Lines, Answer
  <2>2. /\ DOMAIN rx = 1..Len(rx) /\ DOMAIN rx' = 1..(Len(rx) + 1) /\ Len(rx) \in Nat
        /\ \A i \in DOMAIN rx : rx'[i] = rx[i]
        /\ rx'[Len(rx) + 1] = [kind |-> reader, stray |-> FALSE]
    BY <1>13, <2>1, AppendFacts DEF ReaderReports, Types, PortOK
  <2>3. ASSUME NEW i \in DOMAIN rx', Answer(rx'[i]) PROVE i \in DOMAIN rx /\ rx'[i] = rx[i]
    BY <2>1, <2>2, <2>3
  <2> QED BY <1>13, <2>3 DEF ReaderReports, InTime, Answer
<1> QED BY <1>1, <1>2, <1>3, <1>4, <1>5, <1>6, <1>7, <1>8, <1>9, <1>10, <1>11, <1>12, <1>13
        DEF Next, LoopSteps, HandleLine, ReaderSteps

(* As long as no command times out, no answer is late. *)
LEMMA NextNoneLate ==
    ASSUME Types, NoneLate, InTime, [Next]_vars, ~outOfStep' PROVE NoneLate'
<1>1. UNCHANGED out => NoneLate'
  BY DEF NoneLate
<1>2. ASSUME NEW e \in Entries, NEW ch \in {"resp", "err"}, Reply(e, ch, "own") PROVE NoneLate'
  <2>1. /\ e.req \in Requests
        /\ \A r \in Requests \ {e.req} : out'[r] = out[r]
        /\ out'[e.req] = [out[e.req] EXCEPT ![ch] = IF e.mine THEN "own" ELSE "foreign"]
    BY <1>2, ReplyFacts DEF Types, Results
  <2>2. out[e.req] \in [resp : Results, err : Results]
    BY <2>1 DEF Types, OutOK
  <2>3. out'[e.req].resp # "late" /\ out'[e.req].err # "late"
    BY <2>1, <2>2 DEF NoneLate
  <2> QED BY <2>1, <2>3 DEF NoneLate
<1>3. ASSUME NEW r \in Requests, out' = out \/ out' = [out EXCEPT ![r] = Empty] PROVE NoneLate'
  <2>1. \A s \in Requests : out'[s] = out[s] \/ out'[s] = Empty
    BY <1>3 DEF Types, OutOK
  <2> QED BY <2>1 DEF NoneLate, Empty
<1>4. ASSUME NEW c \in Callers, NEW k \in Kinds[c], Call(c, k) PROVE NoneLate'
  BY <1>1, <1>4 DEF Call
<1>5. ASSUME NEW c \in Callers, CallSteps(c) PROVE NoneLate'
  <2>1. CASE Enqueue(c)  BY <1>1, <2>1 DEF Enqueue
  <2>3. CASE Get(c)
    <3>1. PICK r \in Available(kind[c]) : out' = IF r \in pool THEN out ELSE [out EXCEPT ![r] = Empty]
      BY <2>3 DEF Get
    <3>2. r \in Requests
      BY AvailableFacts DEF Types, CallersOK
    <3> QED BY <1>3, <3>1, <3>2
  <2>2. CASE NotSent(c) \/ Receive(c) \/ WaitStopped(c) \/ GiveUp(c)
    <3>1. PICK how \in Results : pc[c] \in {"send", "wait"} /\ Leave(c, how)
      BY <2>2, ReturnCases
    <3>2. held[c] \in Requests /\ out' = [out EXCEPT ![held[c]] = Empty]
      BY <3>1 DEF Leave, Types, CallersOK
    <3> QED BY <1>3, <3>2
  <2> QED BY <1>5, <2>1, <2>2, <2>3 DEF CallSteps
<1>6. CASE LoopTop \/ LoopStops \/ IdleLine \/ ReaderSteps \/ Pause \/ Resume \/ Stop \/ UNCHANGED vars
  BY <1>1, <1>6 DEF LoopTop, LoopStops, IdleLine, ReaderSteps, ReaderChecks, ReadLine, ReadFails, ReaderReports,
                    Pause, Resume, Stop, vars
<1>7. CASE Held \/ TakeHigh \/ TakeNormal
  <2>1. UNCHANGED out \/ \E q \in {qHigh, qNormal} : q # <<>> /\ Reply(Head(q), "err", "own")
    BY <1>7 DEF Held, TakeHigh, TakeNormal, WriteCommand
  <2>2. \A q \in {qHigh, qNormal} : q # <<>> => Head(q) \in Entries
    BY TailFacts DEF Types, LoopOK
  <2> QED BY <1>1, <1>2, <2>1, <2>2
<1>8. CASE Timeout  BY <1>8 DEF Timeout
<1>9. CASE HandleLine
  <2>1. loop = "command" /\ cur \in Entries /\ rx # <<>> /\ Head(rx) = rx[1] /\ 1 \in DOMAIN rx
    <3>1. loop = "command" /\ rx # <<>>
      BY <1>9 DEF HandleLine, ReadError, Final, Prompt
    <3>2. Head(rx) = rx[1] /\ 1 \in DOMAIN rx
      BY <3>1, TailFacts DEF Types, PortOK
    <3> QED BY <3>1, <3>2 DEF Types, LoopOK
  <2>2. Head(rx).kind \notin {"eof", "ioerr"} => ~Head(rx).stray
    BY <2>1 DEF InTime, Answer
  <2>3. UNCHANGED out \/ \E ch \in {"resp", "err"} : Reply(cur, ch, "own")
    <3>1. CASE ReadError  BY <3>1 DEF ReadError
    <3>2. CASE Final  BY <2>2, <3>2 DEF Final
    <3>3. CASE Prompt  BY <2>2, <3>3 DEF Prompt
    <3> QED BY <1>9, <3>1, <3>2, <3>3 DEF HandleLine
  <2> QED BY <1>1, <1>2, <2>1, <2>3
<1> QED BY <1>4, <1>5, <1>6, <1>7, <1>8, <1>9 DEF Next, LoopSteps

(* What a caller takes home is in one of the channels of its request. *)
LEMMA NextAnswers ==
    ASSUME Types, ~stopped => Own, ~outOfStep => NoneLate, AnswersAreOwn, [Next]_vars PROVE AnswersAreOwn'
<1>1. (stopped => stopped') /\ (outOfStep => outOfStep')
  BY Monotone
<1>2. UNCHANGED got => AnswersAreOwn'
  BY <1>1 DEF AnswersAreOwn
<1>3. ASSUME NEW c \in Callers, NEW k \in Kinds[c], Call(c, k) PROVE AnswersAreOwn'
  <2>1. got' = [got EXCEPT ![c] = "none"]
    BY <1>3 DEF Call
  <2> QED BY <1>1, <2>1 DEF AnswersAreOwn, Types, CallersOK
<1>4. ASSUME NEW c \in Callers, CallSteps(c) PROVE AnswersAreOwn'
  <2>1. CASE Get(c) \/ Enqueue(c)  BY <1>2, <2>1 DEF Get, Enqueue
  <2>2. CASE NotSent(c) \/ Receive(c) \/ WaitStopped(c) \/ GiveUp(c)
    <3>1. PICK how \in Results :
             /\ pc[c] \in {"send", "wait"} /\ Leave(c, how)
             /\ how = "none" \/ how \in {out[held[c]].resp, out[held[c]].err}
      BY <2>2, ReturnCases
    <3>2. got' = [got EXCEPT ![c] = how]
      BY <3>1 DEF Leave
    <3>3. how = "foreign" => stopped
      BY <3>1 DEF Own, Holding
    <3>4. how = "late" => outOfStep
      BY <3>1 DEF NoneLate, Types, CallersOK
    <3> QED BY <1>1, <3>2, <3>3, <3>4 DEF AnswersAreOwn, Types, CallersOK
  <2> QED BY <1>4, <2>1, <2>2 DEF CallSteps
<1>5. CASE LoopSteps \/ ReaderSteps \/ Pause \/ Resume \/ Stop \/ UNCHANGED vars
  <2>1. CASE LoopTop \/ LoopStops \/ Held \/ TakeHigh \/ TakeNormal \/ IdleLine
    BY <1>2, <2>1 DEF LoopTop, LoopStops, Held, TakeHigh, TakeNormal, IdleLine, calls
  <2>2. CASE Timeout \/ HandleLine
    BY <1>2, <2>2 DEF Timeout, HandleLine, ReadError, Final, Prompt, calls
  <2>3. CASE ReaderSteps \/ Pause \/ Resume \/ Stop \/ UNCHANGED vars
    BY <1>2, <2>3 DEF ReaderSteps, ReaderChecks, ReadLine, ReadFails, ReaderReports, Pause, Resume, Stop, vars, calls
  <2> QED BY <1>5, <2>1, <2>2, <2>3 DEF LoopSteps
<1> QED BY <1>3, <1>4, <1>5 DEF Next

-----------------------------------------------------------------------------
(* The inductive invariant holds at the start. *)
LEMMA InitIInv == Init => IInv
<1> SUFFICES ASSUME Init PROVE IInv
  OBVIOUS
<1>1. /\ pc = [c \in Callers |-> "idle"] /\ held = [c \in Callers |-> NoRequest]
      /\ got = [c \in Callers |-> "none"] /\ kind = [c \in Callers |-> "normal"]
      /\ pool = {} /\ out = [r \in Requests |-> Empty]
      /\ qNormal = <<>> /\ qHigh = <<>> /\ rx = <<>> /\ pending = <<>>
      /\ loop = "top" /\ cur = NoEntry /\ streak = 0 /\ reader = "check"
      /\ ~stopped /\ stopped \in BOOLEAN /\ paused \in BOOLEAN /\ outOfStep \in BOOLEAN
      /\ pauses = 0 /\ highs = 0
  BY DEF Init
<1>2. CallersOK
  BY <1>1, ModemAssumption DEF CallersOK, Results
<1>3. OutOK
  BY <1>1 DEF OutOK, Empty, Results
<1>4. \A S : <<>> \in Seq(S) /\ Len(<<>>) = 0
  BY EmptySeq
<1>5. LoopOK
  BY <1>1, <1>4, ModemAssumption DEF LoopOK
<1>6. PortOK
  BY <1>1, <1>4, ModemAssumption DEF PortOK
<1>7. Own
  BY <1>1, ModemAssumption DEF Own, Once, Distinct, Queued, NoEntry
<1>8. NoneLate /\ InTime
  BY <1>1, <1>4 DEF NoneLate, InTime, Empty
<1>9. AnswersAreOwn
  BY <1>1 DEF AnswersAreOwn
<1> QED BY <1>2, <1>3, <1>5, <1>6, <1>7, <1>8, <1>9, TypeSplit DEF IInv

(* Every step keeps it. *)
LEMMA NextIInv == IInv /\ [Next]_vars => IInv'
<1> SUFFICES ASSUME IInv, [Next]_vars PROVE IInv'
  OBVIOUS
<1>1. Types /\ (~stopped => Own) /\ (~outOfStep => NoneLate /\ InTime) /\ AnswersAreOwn
  BY TypeSplit DEF IInv, Types
<1>2. Types'
  BY <1>1, NextTypes
<1>3. TypeOK'
  BY <1>2, TypeSplit DEF Types
<1>4. (stopped => stopped') /\ (outOfStep => outOfStep')
  BY <1>1, Monotone
<1>5. ~stopped' => Own'
  BY <1>1, <1>4, NextOwn
<1>6. ~outOfStep' => NoneLate' /\ InTime'
  BY <1>1, <1>4, NextInTime, NextNoneLate
<1>7. AnswersAreOwn'
  BY <1>1, NextAnswers
<1> QED BY <1>3, <1>5, <1>6, <1>7 DEF IInv

(* Queues, channels, lines and places have their types, within their        *)
(* capacities, and a request is with one caller, or in reqPool, or nobody's. *)
THEOREM ModemTypeOK == Spec => []TypeOK
<1>1. IInv => TypeOK
  BY DEF IInv
<1> QED BY <1>1, InitIInv, NextIInv, PTL DEF Spec

(* As long as the manager runs, no call of executeAT or of a sender of short *)
(* messages ends with the answer to a request that another call gave up, and *)
(* as long as no command has timed out none ends with the answer to an       *)
(* earlier command.                                                          *)
THEOREM AnswersBelong == Spec => []AnswersAreOwn
<1>1. IInv => AnswersAreOwn
  BY DEF IInv
<1> QED BY <1>1, InitIInv, NextIInv, PTL DEF Spec
-----------------------------------------------------------------------------
(* runLoop and the callers do not wait for each other.                      *)

Served(r) == Entered(r) \/ out[r] # Empty

(* While the manager runs, what runLoop has yet to answer has room for it.  *)
RepliesHaveRoom == ~stopped => \A r \in Requests : Entered(r) => out[r] = Empty

(* A caller that waits has its answer, or runLoop has yet to give it.       *)
NobodyIsForgotten == \A c \in Callers : pc[c] = "wait" => Served(held[c])

(* What a longer queue, and one without its head, still carry. *)
LEMMA StillCarried ==
    ASSUME NEW q \in Seq(Entries)
    PROVE  /\ \A e \in Entries : /\ \A r : Queued(q, r) => Queued(Append(q, e), r)
                                 /\ Queued(Append(q, e), e.req)
           /\ q # <<>> => \A r : Queued(q, r) => r = Head(q).req \/ Queued(Tail(q), r)
<1>1. ASSUME NEW e \in Entries
      PROVE  (\A r : Queued(q, r) => Queued(Append(q, e), r)) /\ Queued(Append(q, e), e.req)
  <2>1. /\ DOMAIN q = 1..Len(q) /\ DOMAIN Append(q, e) = 1..(Len(q) + 1) /\ Len(q) \in Nat
        /\ \A i \in DOMAIN q : Append(q, e)[i] = q[i]
        /\ Append(q, e)[Len(q) + 1] = e
    BY AppendFacts
  <2>2. Len(q) + 1 \in DOMAIN Append(q, e) /\ \A i \in DOMAIN q : i \in DOMAIN Append(q, e)
    BY <2>1
  <2> QED BY <2>1, <2>2 DEF Queued
<1>2. ASSUME q # <<>>, NEW r, Queued(q, r) PROVE r = Head(q).req \/ Queued(Tail(q), r)
  <2>1. /\ Len(q) \in Nat \ {0} /\ DOMAIN q = 1..Len(q) /\ DOMAIN Tail(q) = 1..(Len(q) - 1)
        /\ \A i \in DOMAIN Tail(q) : Tail(q)[i] = q[i + 1]
        /\ Head(q) = q[1]
    BY <1>2, TailFacts
  <2>2. PICK i \in DOMAIN q : q[i].req = r
    BY <1>2 DEF Queued
  <2>3. CASE i = 1  BY <2>1, <2>2, <2>3
  <2>4. CASE i # 1
    <3>1. i - 1 \in DOMAIN Tail(q) /\ (i - 1) + 1 = i
      BY <2>1, <2>4
    <3> QED BY <2>1, <2>2, <3>1 DEF Queued
  <2> QED BY <2>3, <2>4
<1> QED BY <1>1, <1>2

(* An answer is one, whoever it is for. *)
LEMMA ReplyServes ==
    ASSUME Types, NEW e \in Entries, NEW ch \in {"resp", "err"}, NEW what \in {"own", "late"}, Reply(e, ch, what)
    PROVE  /\ e.req \in Requests /\ out'[e.req] # Empty
           /\ \A r \in Requests \ {e.req} : out'[r] = out[r]
<1>1. /\ e.req \in Requests
      /\ \A r \in Requests \ {e.req} : out'[r] = out[r]
      /\ out'[e.req] = [out[e.req] EXCEPT ![ch] = IF e.mine THEN what ELSE "foreign"]
  BY ReplyFacts DEF Types, Results
<1>2. out[e.req] \in [resp : Results, err : Results]
  BY <1>1 DEF Types, OutOK
<1>3. out'[e.req][ch] # "none"
  BY <1>1, <1>2
<1>4. Empty[ch] = "none"
  BY DEF Empty
<1> QED BY <1>1, <1>3, <1>4

(* What a step of runLoop, or of anybody but a caller, does to a request:   *)
(* nothing, or it begins its command, or it answers it.                     *)
LEMMA LoopServes ==
    ASSUME Types, [Next]_vars, UNCHANGED pc, NEW r \in Requests
    PROVE  /\ held' = held
           /\ \/ (Entered(r) => Entered(r)') /\ out'[r] = out[r]
              \/ out'[r] # Empty
<1>1. CASE \E c \in Callers : (\E k \in Kinds[c] : Call(c, k)) \/ CallSteps(c)
  <2>1. PICK c \in Callers : (\E k \in Kinds[c] : Call(c, k)) \/ CallSteps(c)
    BY <1>1
  <2>2. pc'[c] # pc[c]
    BY <2>1 DEF Call, CallSteps, Get, Enqueue, Sent, NotSent, Receive, WaitStopped, GiveUp, Leave, Types, CallersOK
  <2> QED BY <2>2
<1>2. CASE LoopTop \/ LoopStops \/ IdleLine \/ ReaderSteps \/ Pause \/ Resume \/ Stop \/ UNCHANGED vars
  <2>1. UNCHANGED <<held, out, qNormal, qHigh, cur>>
    BY <1>2 DEF LoopTop, LoopStops, IdleLine, ReaderSteps, ReaderChecks, ReadLine, ReadFails, ReaderReports,
                Pause, Resume, Stop, vars, calls, queues
  <2> QED BY <2>1 DEF Entered
<1>3. CASE Held \/ TakeHigh \/ TakeNormal
  <2>1. held' = held
    BY <1>3 DEF Held, TakeHigh, TakeNormal, calls
  <2>2. CASE UNCHANGED <<out, qNormal, qHigh, cur>>  BY <2>1, <2>2 DEF Entered
  <2>3. CASE ~UNCHANGED <<out, qNormal, qHigh, cur>>
    <3>1. PICK e : /\ \/ qHigh # <<>> /\ e = Head(qHigh) /\ qHigh' = Tail(qHigh) /\ UNCHANGED qNormal
                      \/ qNormal # <<>> /\ e = Head(qNormal) /\ qNormal' = Tail(qNormal) /\ UNCHANGED qHigh
                   /\ \/ Reply(e, "err", "own") /\ UNCHANGED cur
                      \/ loop # "command" /\ cur' = e /\ UNCHANGED out
      BY <1>3, <2>3 DEF Held, TakeHigh, TakeNormal, WriteCommand, queues
    <3>2. e \in Entries
      BY <3>1, TailFacts DEF Types, LoopOK
    <3>3. /\ Queued(qHigh, r) => r = e.req \/ Queued(qHigh', r)
          /\ Queued(qNormal, r) => r = e.req \/ Queued(qNormal', r)
      BY <3>1, StillCarried DEF Types, LoopOK
    <3>4. CASE Reply(e, "err", "own") /\ UNCHANGED cur
      <4>1. out'[e.req] # Empty /\ \A s \in Requests \ {e.req} : out'[s] = out[s]
        BY <3>2, <3>4, ReplyServes
      <4>2. CASE r = e.req  BY <2>1, <4>1, <4>2
      <4>3. CASE r # e.req  BY <2>1, <3>3, <3>4, <4>1, <4>3 DEF Entered
      <4> QED BY <4>2, <4>3
    <3>5. CASE loop # "command" /\ cur' = e /\ UNCHANGED out
      <4>1. cur.req # r
        BY <3>5, ModemAssumption DEF Types, LoopOK, NoEntry
      <4> QED BY <2>1, <3>3, <3>5, <4>1 DEF Entered
    <3> QED BY <3>1, <3>4, <3>5
  <2> QED BY <2>2, <2>3
<1>4. CASE Timeout \/ HandleLine
  <2>1. UNCHANGED <<held, qNormal, qHigh>> /\ cur \in Entries
    BY <1>4 DEF Timeout, HandleLine, ReadError, Final, Prompt, calls, queues, Types, LoopOK
  <2>2. CASE Prompt /\ cur.kind = "sms"
    <3>1. out' = out /\ cur'.req = cur.req
      BY <2>1, <2>2 DEF Prompt, Entries
    <3> QED BY <2>1, <3>1 DEF Entered
  <2>3. CASE ~(Prompt /\ cur.kind = "sms")
    <3>1. PICK ch \in {"resp", "err"}, what \in {"own", "late"} : Reply(cur, ch, what)
      <4>1. CASE Timeout  BY <4>1 DEF Timeout
      <4>2. CASE ReadError  BY <4>2 DEF ReadError
      <4>3. CASE Final  BY <4>3 DEF Final
      <4>4. CASE Prompt  BY <2>3, <4>4 DEF Prompt
      <4> QED BY <1>4, <4>1, <4>2, <4>3, <4>4 DEF HandleLine
    <3>2. out'[cur.req] # Empty /\ \A s \in Requests \ {cur.req} : out'[s] = out[s]
      BY <2>1, <3>1, ReplyServes
    <3>3. CASE r = cur.req  BY <2>1, <3>2, <3>3
    <3>4. CASE r # cur.req  BY <2>1, <3>2, <3>4 DEF Entered
    <3> QED BY <3>3, <3>4
  <2> QED BY <2>2, <2>3
<1> QED BY <1>1, <1>2, <1>3, <1>4 DEF Next, LoopSteps

(* A request that is queued is served. *)
LEMMA EnqueueServes ==
    ASSUME Types, NEW c \in Callers, Enqueue(c)
    PROVE  /\ held' = held /\ out' = out /\ pc' = [pc EXCEPT ![c] = "wait"] /\ pc[c] = "send"
           /\ Entered(held[c])' /\ \A r \in Requests : Entered(r) => Entered(r)'
<1> DEFINE e == [req |-> held[c], kind |-> kind[c], mine |-> TRUE]
<1>1. e \in Entries /\ e.req = held[c]
  BY DEF Enqueue, Types, CallersOK, Entries
<1>2. UNCHANGED <<held, out, cur>> /\ pc' = [pc EXCEPT ![c] = "wait"] /\ pc[c] = "send"
  BY DEF Enqueue, Sent
<1>3. qNormal \in Seq(Entries) /\ qHigh \in Seq(Entries)
  BY DEF Types, LoopOK
<1>4. CASE qNormal' = Append(qNormal, e) /\ qHigh' = qHigh
  <2>1. Queued(qNormal', held[c]) /\ \A r : Queued(qNormal, r) => Queued(qNormal', r)
    BY <1>1, <1>3, <1>4, StillCarried
  <2> QED BY <1>2, <1>4, <2>1 DEF Entered
<1>5. CASE qHigh' = Append(qHigh, e) /\ qNormal' = qNormal
  <2>1. Queued(qHigh', held[c]) /\ \A r : Queued(qHigh, r) => Queued(qHigh', r)
    BY <1>1, <1>3, <1>5, StillCarried
  <2> QED BY <1>2, <1>5, <2>1 DEF Entered
<1> QED BY <1>4, <1>5 DEF Enqueue

(* What a call that returns does to the requests. *)
LEMMA LeaveServes ==
    ASSUME Types, NEW c \in Callers, NotSent(c) \/ Receive(c) \/ WaitStopped(c) \/ GiveUp(c)
    PROVE  /\ pc' = [pc EXCEPT ![c] = "idle"] /\ held' = [held EXCEPT ![c] = NoRequest]
           /\ held[c] \in Requests /\ out'[held[c]] = Empty
           /\ \A r \in Requests : /\ Entered(r)' <=> Entered(r)
                                  /\ r # held[c] => out'[r] = out[r]
<1>1. PICK how \in Results : pc[c] \in {"send", "wait"} /\ Leave(c, how)
  BY ReturnCases
<1>2. held[c] \in Requests /\ cur'.req = cur.req
  BY <1>1, LeaveTypes
<1>3. /\ pc' = [pc EXCEPT ![c] = "idle"] /\ held' = [held EXCEPT ![c] = NoRequest]
      /\ out' = [out EXCEPT ![held[c]] = Empty]
      /\ qNormal' = DisownAll(held[c], qNormal) /\ qHigh' = DisownAll(held[c], qHigh)
  BY <1>1 DEF Leave
<1>4. \A r : (Queued(qNormal', r) <=> Queued(qNormal, r)) /\ (Queued(qHigh', r) <=> Queued(qHigh, r))
  BY <1>3, DisownCarries DEF Types, LoopOK
<1>5. out'[held[c]] = Empty /\ \A r \in Requests \ {held[c]} : out'[r] = out[r]
  BY <1>2, <1>3 DEF Types, OutOK
<1> QED BY <1>2, <1>3, <1>4, <1>5 DEF Entered

(* What a call that takes its request does to the others. *)
LEMMA GetServes ==
    ASSUME Types, NEW c \in Callers, Get(c)
    PROVE  /\ pc' = [pc EXCEPT ![c] = "send"]
           /\ \A r \in Requests : /\ Entered(r)' <=> Entered(r)
                                  /\ out'[r] = out[r] \/ out'[r] = Empty
           /\ \A d \in Callers \ {c} : held'[d] = held[d] /\ (held[d] \in Requests => out'[held[d]] = out[held[d]])
<1>1. PICK r \in Available(kind[c]) :
         /\ held' = [held EXCEPT ![c] = r]
         /\ out' = IF r \in pool THEN out ELSE [out EXCEPT ![r] = Empty]
  BY DEF Get
<1>2. r \in Requests /\ \A d \in Callers : held[d] # r
  BY AvailableFacts DEF Types, CallersOK
<1>3. UNCHANGED <<qNormal, qHigh, cur>> /\ pc' = [pc EXCEPT ![c] = "send"]
  BY DEF Get, queues
<1>4. \A s \in Requests : (s # r => out'[s] = out[s]) /\ (out'[s] = out[s] \/ out'[s] = Empty)
  BY <1>1, <1>2 DEF Types, OutOK
<1>5. \A d \in Callers \ {c} : held'[d] = held[d]
  BY <1>1 DEF Types, CallersOK
<1> QED BY <1>2, <1>3, <1>4, <1>5 DEF Entered

(* No step makes a caller wait for nothing. *)
LEMMA NextServes == ASSUME Types, NobodyIsForgotten, [Next]_vars PROVE NobodyIsForgotten'
<1> SUFFICES ASSUME NEW d \in Callers, pc'[d] = "wait" PROVE Served(held[d])'
  BY DEF NobodyIsForgotten
<1>1. CASE UNCHANGED pc
  <2>1. PICK r \in Requests : r = held[d]
    BY <1>1 DEF Types, CallersOK
  <2>2. Served(r)
    BY <1>1, <2>1 DEF NobodyIsForgotten
  <2>3. /\ held' = held
        /\ \/ (Entered(r) => Entered(r)') /\ out'[r] = out[r]
           \/ out'[r] # Empty
    BY <1>1, LoopServes
  <2> QED BY <2>1, <2>2, <2>3 DEF Served, Entered
<1>2. ASSUME NEW c \in Callers, (\E k \in Kinds[c] : Call(c, k)) \/ CallSteps(c) PROVE Served(held[d])'
  <2>1. CASE \E k \in Kinds[c] : Call(c, k)
    <3>1. UNCHANGED <<held, out, qNormal, qHigh, cur>> /\ pc' = [pc EXCEPT ![c] = "checked"]
      BY <2>1 DEF Call, queues
    <3>2. pc[d] = "wait"
      BY <3>1 DEF Types, CallersOK
    <3> QED BY <3>1, <3>2 DEF NobodyIsForgotten, Served, Entered
  <2>2. CASE Get(c)
    <3>1. d # c /\ pc[d] = "wait"
      BY <2>2, GetServes DEF Types, CallersOK
    <3>2. PICK r \in Requests : r = held[d]
      BY <3>1 DEF Types, CallersOK
    <3>3. held'[d] = r /\ (Entered(r)' <=> Entered(r)) /\ out'[r] = out[r]
      BY <2>2, <3>1, <3>2, GetServes
    <3> QED BY <3>1, <3>2, <3>3 DEF NobodyIsForgotten, Served, Entered
  <2>3. CASE Enqueue(c)
    <3>1. CASE d = c
      <4>1. Entered(held[c])'
        BY <2>3, EnqueueServes
      <4> QED BY <3>1, <4>1 DEF Served
    <3>2. CASE d # c
      <4>1. pc[d] = "wait" /\ held' = held /\ out' = out
        BY <2>3, <3>2, EnqueueServes DEF Types, CallersOK
      <4>2. PICK r \in Requests : r = held[d]
        BY <4>1 DEF Types, CallersOK
      <4>3. Entered(r) => Entered(r)'
        BY <2>3, EnqueueServes
      <4> QED BY <4>1, <4>2, <4>3 DEF NobodyIsForgotten, Served, Entered
    <3> QED BY <3>1, <3>2
  <2>4. CASE NotSent(c) \/ Receive(c) \/ WaitStopped(c) \/ GiveUp(c)
    <3>1. d # c /\ pc[d] = "wait" /\ held'[d] = held[d]
      BY <2>4, LeaveServes DEF Types, CallersOK
    <3>2. PICK r \in Requests : r = held[d] /\ r # held[c]
      BY <2>4, <3>1, LeaveServes DEF Types, CallersOK
    <3>3. (Entered(r)' <=> Entered(r)) /\ out'[r] = out[r]
      BY <2>4, <3>2, LeaveServes
    <3> QED BY <3>1, <3>2, <3>3 DEF NobodyIsForgotten, Served, Entered
  <2> QED BY <1>2, <2>1, <2>2, <2>3, <2>4 DEF CallSteps
<1>3. UNCHANGED pc \/ \E c \in Callers : (\E k \in Kinds[c] : Call(c, k)) \/ CallSteps(c)
  BY DEF Next, LoopSteps, LoopTop, LoopStops, Held, TakeHigh, TakeNormal, IdleLine, Timeout, HandleLine, ReadError,
         Final, Prompt, ReaderSteps, ReaderChecks, ReadLine, ReadFails, ReaderReports, Pause, Resume, Stop, vars, calls
<1> QED BY <1>1, <1>2, <1>3

(* A request that is queued has room for its answer. *)
LEMMA EnqueueRoom ==
    ASSUME Types, Own, NEW c \in Callers, Enqueue(c),
           NEW r \in Requests, Entered(r)', Entered(r) => out[r] = Empty
    PROVE  out'[r] = Empty
<1> DEFINE e == [req |-> held[c], kind |-> kind[c], mine |-> TRUE]
<1>1. e \in Entries /\ e.req = held[c] /\ pc[c] = "send" /\ UNCHANGED <<cur, out>>
  BY DEF Enqueue, Types, CallersOK, Entries
<1>2. qNormal \in Seq(Entries) /\ qHigh \in Seq(Entries)
  BY DEF Types, LoopOK
<1>3. out[held[c]] = Empty
  BY <1>1 DEF Own, Holding
<1>4. CASE qNormal' = Append(qNormal, e) /\ qHigh' = qHigh
  <2>1. Queued(qNormal', r) => Queued(qNormal, r) \/ r = held[c]
    BY <1>1, <1>2, <1>4, AppendCarries
  <2> QED BY <1>1, <1>3, <1>4, <2>1 DEF Entered
<1>5. CASE qHigh' = Append(qHigh, e) /\ qNormal' = qNormal
  <2>1. Queued(qHigh', r) => Queued(qHigh, r) \/ r = held[c]
    BY <1>1, <1>2, <1>5, AppendCarries
  <2> QED BY <1>1, <1>3, <1>5, <2>1 DEF Entered
<1> QED BY <1>4, <1>5 DEF Enqueue

(* What runLoop answers it does not carry any more. *)
LEMMA LoopRoom ==
    ASSUME Types, Own, [Next]_vars, ~\E c \in Callers : (\E k \in Kinds[c] : Call(c, k)) \/ CallSteps(c),
           NEW r \in Requests, Entered(r)', Entered(r) => out[r] = Empty
    PROVE  out'[r] = Empty
<1>1. Once
  BY DEF Own
<1>2. CASE LoopTop \/ LoopStops \/ IdleLine \/ ReaderSteps \/ Pause \/ Resume \/ Stop \/ UNCHANGED vars
  <2>1. UNCHANGED <<out, qNormal, qHigh, cur>>
    BY <1>2 DEF LoopTop, LoopStops, IdleLine, ReaderSteps, ReaderChecks, ReadLine, ReadFails, ReaderReports,
                Pause, Resume, Stop, vars, queues
  <2> QED BY <2>1 DEF Entered
<1>3. CASE Held \/ TakeHigh \/ TakeNormal
  <2>1. CASE UNCHANGED <<out, qNormal, qHigh, cur>>  BY <2>1 DEF Entered
  <2>2. CASE ~UNCHANGED <<out, qNormal, qHigh, cur>>
    <3>1. PICK e : /\ \/ qHigh # <<>> /\ e = Head(qHigh) /\ qHigh' = Tail(qHigh) /\ UNCHANGED qNormal
                      \/ qNormal # <<>> /\ e = Head(qNormal) /\ qNormal' = Tail(qNormal) /\ UNCHANGED qHigh
                   /\ \/ Reply(e, "err", "own") /\ UNCHANGED cur
                      \/ loop # "command" /\ cur' = e /\ UNCHANGED out
      BY <1>3, <2>2 DEF Held, TakeHigh, TakeNormal, WriteCommand, queues
    <3>2. /\ e \in Entries
          /\ cur' = cur => \A s \in Requests : Entered(s)' => Entered(s) /\ s # e.req
          /\ cur = NoEntry /\ cur' = e => \A s \in Requests : Entered(s)' => Entered(s)
      BY <1>1, <3>1, Taken
    <3>3. CASE Reply(e, "err", "own") /\ UNCHANGED cur
      <4>1. \A s \in Requests \ {e.req} : out'[s] = out[s]
        BY <3>2, <3>3, ReplyServes
      <4> QED BY <3>2, <3>3, <4>1
    <3>4. CASE loop # "command" /\ cur' = e /\ UNCHANGED out
      <4>1. cur = NoEntry
        BY <3>4 DEF Types, LoopOK
      <4> QED BY <3>2, <3>4, <4>1
    <3> QED BY <3>1, <3>3, <3>4
  <2> QED BY <2>1, <2>2
<1>4. CASE Timeout \/ HandleLine
  <2>1. UNCHANGED <<qNormal, qHigh>> /\ cur \in Entries /\ NoEntry.req \notin Requests
    <3>1. UNCHANGED <<qNormal, qHigh>> /\ cur \in Entries
      BY <1>4 DEF Timeout, HandleLine, ReadError, Final, Prompt, queues, Types, LoopOK
    <3> QED BY <3>1, ModemAssumption DEF NoEntry
  <2>2. CASE Prompt /\ cur.kind = "sms"
    <3>1. out' = out /\ cur'.req = cur.req
      BY <2>1, <2>2 DEF Prompt, Entries
    <3> QED BY <2>1, <3>1 DEF Entered
  <2>3. CASE ~(Prompt /\ cur.kind = "sms")
    <3>1. PICK ch \in {"resp", "err"}, what \in {"own", "late"} : Reply(cur, ch, what) /\ cur' = NoEntry
      <4>1. CASE Timeout  BY <4>1 DEF Timeout, CommandEnds
      <4>2. CASE ReadError  BY <4>2 DEF ReadError, CommandEnds
      <4>3. CASE Final  BY <4>3 DEF Final, CommandEnds
      <4>4. CASE Prompt  BY <2>3, <4>4 DEF Prompt, CommandEnds
      <4> QED BY <1>4, <4>1, <4>2, <4>3, <4>4 DEF HandleLine
    <3>2. \A s \in Requests \ {cur.req} : out'[s] = out[s]
      BY <2>1, <3>1, ReplyServes
    <3>3. Queued(qNormal, r) \/ Queued(qHigh, r)
      BY <2>1, <3>1 DEF Entered
    <3>4. r # cur.req /\ Entered(r)
      BY <1>1, <3>3 DEF Once, Entered
    <3> QED BY <3>2, <3>4
  <2> QED BY <2>2, <2>3
<1> QED BY <1>2, <1>3, <1>4 DEF Next, LoopSteps

(* While the manager runs, what a caller holds when it sends is empty, and   *)
(* what is entered is with a caller, or was given up by the sender of a      *)
(* short message: nothing answers it but runLoop.                            *)
LEMMA NextRoom ==
    ASSUME Types, ~stopped => Own, RepliesHaveRoom, [Next]_vars PROVE RepliesHaveRoom'
<1> SUFFICES ASSUME ~stopped', NEW r \in Requests, Entered(r)' PROVE out'[r] = Empty
  BY DEF RepliesHaveRoom
<1>1. Types' /\ ~stopped /\ Own /\ (Entered(r) => out[r] = Empty)
  BY NextTypes, Monotone DEF RepliesHaveRoom
<1>2. ASSUME NEW c \in Callers, (\E k \in Kinds[c] : Call(c, k)) \/ CallSteps(c) PROVE out'[r] = Empty
  <2>1. CASE \E k \in Kinds[c] : Call(c, k)
    BY <1>1, <2>1 DEF Call, queues, Entered
  <2>2. CASE Get(c)
    BY <1>1, <2>2, GetServes
  <2>3. CASE Enqueue(c)
    BY <1>1, <2>3, EnqueueRoom
  <2>4. CASE NotSent(c) \/ Receive(c) \/ WaitStopped(c) \/ GiveUp(c)
    BY <1>1, <2>4, LeaveServes
  <2> QED BY <1>2, <2>1, <2>2, <2>3, <2>4 DEF CallSteps
<1>3. CASE ~\E c \in Callers : (\E k \in Kinds[c] : Call(c, k)) \/ CallSteps(c)
  BY <1>1, <1>3, LoopRoom
<1> QED BY <1>2, <1>3

(* As long as the manager runs, what runLoop has yet to answer has both its  *)
(* channels empty: none of its sends to respChan and errChan, which have     *)
(* room for one and no other way out, waits for a caller.                    *)
THEOREM RunLoopDoesNotWait == Spec => []RepliesHaveRoom
<1>1. Init => RepliesHaveRoom
  BY DEF Init, RepliesHaveRoom, Empty
<1>2. IInv /\ RepliesHaveRoom /\ [Next]_vars => RepliesHaveRoom'
  BY NextRoom, TypeSplit DEF IInv, Types
<1> QED BY <1>1, <1>2, InitIInv, NextIInv, PTL DEF Spec

(* A caller that waits in executeAT, which has no timer of its own, is never *)
(* forgotten, before and after the end of the manager: its request is still  *)
(* queued or under way, or its answer is in one of the channels.             *)
THEOREM CallersAreServed == Spec => []NobodyIsForgotten
<1>1. Init => NobodyIsForgotten
  BY DEF Init, NobodyIsForgotten
<1>2. IInv /\ NobodyIsForgotten /\ [Next]_vars => NobodyIsForgotten'
  BY NextServes, TypeSplit DEF IInv, Types
<1> QED BY <1>1, <1>2, InitIInv, NextIInv, PTL DEF Spec
=============================================================================

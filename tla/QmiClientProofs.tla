-------------------------- MODULE QmiClientProofs --------------------------
(***************************************************************************)
(* The safety of the client's requests, for any number of requests, any     *)
(* queues and any width of the transaction ids.  The ids come round and      *)
(* nobody checks that the next one is free, so the argument keeps count of   *)
(* rivals, requests with the same id at the same time.  It rests on three    *)
(* facts about the table: of two live requests with one id one is the        *)
(* other's rival (Unique), what is listed is live, under its key and nobody's *)
(* rival (Table), and while the reader lives every live request without      *)
(* rivals is listed and its channel open (Listed).                           *)
(*   Then its indications: what happens to the newest one of a coalesced     *)
(* kind, to what is put aside, and to the order of the others.               *)
(***************************************************************************)
EXTENDS QmiClient, TLAPS

InWriteCh(r) == \E i \in DOMAIN writeCh : writeCh[i] = r

(* Nothing of the request is left but its key. *)
Dead(r) == pc[r] = "ended" /\ r # writer /\ r \notin asked /\ ~InWriteCh(r)

Fresh ==
    \A r \in Requests :
        /\ pc[r] = "new" => rivals[r] = {}
        /\ \A q \in rivals[r] : pc[q] # "new"
        /\ pc[r] # "new" => key[r] \in Keys
        /\ pc[r] \in {"new", "registered"} =>
               written[r] = None /\ r # writer /\ r \notin asked /\ ~InWriteCh(r)

Unique ==
    \A q, r \in Requests :
        (q # r /\ pc[q] # "new" /\ pc[r] # "new" /\ key[q] = key[r]) =>
            Dead(q) \/ Dead(r) \/ q \in rivals[r] \/ r \in rivals[q]

Table ==
    \A k \in Keys : transactions[k] # None =>
        /\ key[transactions[k]] = k /\ pc[transactions[k]] \notin {"new", "ended"}
        /\ \A q \in Requests : transactions[k] \notin rivals[q]

Listed ==
    readerPc # "exited" =>
        /\ closedInbox = {}
        /\ \A r \in Requests :
              Alone(r) /\ pc[r] \notin {"new", "ended"} => transactions[key[r]] = r

(* What the reader and the indication loop hold fits the place they are at. *)
HandOK ==
    /\ readerPc = "answer" =>
          \E r \in Requests : \E q \in {r} \cup rivals[r] : hand = [entry |-> r, packet |-> q]
    /\ readerPc \in {"enqueue", "waitForRoom", "store"} => hand \in Events
    /\ readerPc = "store" => hand.kind \in Coalesced
    /\ loopPc = "deliver" => out \in Events
    /\ \A k \in Coalesced \cup Edges : received[k] <= spent

Stopped == closer = "closed" => readerPc = "exited" /\ loopPc = "exited"

IInv ==
    /\ TypeOK /\ HandOK /\ Fresh /\ Unique /\ Table /\ Listed /\ Stopped
    /\ NoSendOnClosed /\ AnswerIsMine /\ NoAnswerLost

-----------------------------------------------------------------------------
LEMMA InitIInv == Init => IInv
  <1> SUFFICES ASSUME Init PROVE IInv
    OBVIOUS
  <1> USE ClientAssumption
  <1>1. RequestTypes
    BY DEF Init, RequestTypes, Services, Largest
  <1>2. WriterTypes
    BY DEF Init, WriterTypes
  <1>3. EventTypes
    <2>1. indicationInCh \in Seq(Events) /\ order \in Seq(Coalesced)
          /\ Len(indicationInCh) <= IndicationQueueSize
      BY DEF Init
    <2>2. /\ stored \in [Coalesced -> 0 .. Budget] /\ delivered \in [Kinds -> 0 .. Budget]
          /\ received \in [Coalesced \cup Edges -> 0 .. Budget]
      BY DEF Init
    <2>3. eventCh \in 0 .. EventQueueSize /\ spent \in 0 .. Budget
      BY DEF Init
    <2>4. coalescedSignal \in BOOLEAN /\ connected \in BOOLEAN
      BY DEF Init
    <2>5. /\ readerPc \in {"read", "answer", "enqueue", "waitForRoom", "store", "signal", "exited"}
          /\ loopPc \in {"pop", "select", "deliver", "exited"}
          /\ closer \in {"open", "closing", "closed"}
          /\ hand = None /\ out = None
      BY DEF Init
    <2> QED
      BY <2>1, <2>2, <2>3, <2>4, <2>5 DEF EventTypes
  <1>4. HandOK /\ Stopped /\ NoSendOnClosed
    BY DEF Init, HandOK, Stopped, NoSendOnClosed
  <1>5. Fresh /\ Unique /\ AnswerIsMine /\ NoAnswerLost
    BY DEF Init, Fresh, Unique, AnswerIsMine, NoAnswerLost, InWriteCh
  <1>6. Table /\ Listed
    BY DEF Init, Table, Listed
  <1> QED
    BY <1>1, <1>2, <1>3, <1>4, <1>5, <1>6 DEF IInv, TypeOK

(* The id after the last one stays within the width of the service's ids. *)
LEMMA NextIdInRange ==
  ASSUME RequestTypes, NEW s \in Services
  PROVE  NextId(s) \in Nat /\ NextId(s) <= Largest(s) /\ <<s, NextId(s)>> \in Keys
  <1>1. NextId(s) \in 1 .. Largest(s)
    BY ClientAssumption DEF RequestTypes, NextId, Largest, Services
  <1> QED
    BY <1>1, ClientAssumption DEF Keys, Largest, Services

-----------------------------------------------------------------------------
(* The types, one part at a time. *)
(* The steps in which the modem answers, and those in which an indication, or *)
(* what is taken for one, reaches the reader.                                 *)
ReadsAnswer(q) ==
    ReadAnswer(q) \/ \E kind \in Coalesced \cup Edges : TakenForIndication(q, kind)

Arrives(kind) ==
    /\ readerPc = "read"
    /\ Count(kind) /\ Enqueue(kind, received[kind] + 1)
    /\ UNCHANGED <<queueVars, loopVars, closeVars>>

LEMMA Arrivals ==
  ASSUME NEW kind \in Coalesced \cup Edges
  PROVE  /\ \A k \in Keys : ReadIndication(kind, k) => Arrives(kind)
         /\ \A q \in Requests : TakenForIndication(q, kind) => Arrives(kind)
  BY DEF ReadIndication, TakenForIndication, EntryFor, Arrives

LEMMA RequestTypesKept == RequestTypes /\ HandOK /\ Fresh /\ [Next]_vars => RequestTypes'
  <1> SUFFICES ASSUME RequestTypes, HandOK, Fresh, [Next]_vars PROVE RequestTypes'
    OBVIOUS
  <1> USE DEF RequestTypes, Waiting, Goto
  <1>1. ASSUME NEW r \in Requests, NEW s \in Services, Register(r, s) PROVE RequestTypes'
    <2>1. <<s, NextId(s)>> \in Keys /\ NextId(s) \in Nat /\ NextId(s) <= Largest(s)
      BY NextIdInRange
    <2>2. counter' \in [Services -> Nat] /\ \A t \in Services : counter'[t] <= Largest(t)
      BY <1>1, <2>1 DEF Register
    <2>3. key' \in [Requests -> Keys \cup {None}] /\ transactions' \in [Keys -> Requests \cup {None}]
      BY <1>1, <2>1 DEF Register
    <2>4. rivals' \in [Requests -> SUBSET Requests]
      BY <1>1 DEF Register
    <2> QED
      BY <1>1, <2>2, <2>3, <2>4 DEF Register
  <1>2. ASSUME NEW r \in Requests, QueueWrite(r) \/ TakeResult(r) \/ TakeAnswer(r)
        PROVE  RequestTypes'
    BY <1>2 DEF QueueWrite, TakeResult, TakeAnswer
  <1>3. ASSUME NEW r \in Requests, Deadline(r) \/ SeeClosed(r) PROVE RequestTypes'
    BY <1>3 DEF Deadline, SeeClosed
  <1>4. ASSUME NEW r \in Requests, completeTransaction(r) PROVE RequestTypes'
    <2>1. recent' \subseteq Keys
      <3>1. ASSUME NEW k \in recent', k \notin recent PROVE k \in Keys
        <4>1. k = key[r] /\ pc[r] = "timedOut"
          BY <1>4, <3>1 DEF completeTransaction
        <4> QED
          BY <4>1, <1>4 DEF Fresh
      <3> QED
        BY <3>1
    <2>2. transactions' \in [Keys -> Requests \cup {None}]
      BY <1>4 DEF completeTransaction
    <2> QED
      BY <1>4, <2>1, <2>2 DEF completeTransaction
  <1>5. CASE Write \/ WriteFails
    BY <1>5 DEF Write, WriteFails, WriteEnds
  <1>6. ASSUME NEW q \in Requests, ReadsAnswer(q) PROVE RequestTypes'
    BY <1>6 DEF ReadsAnswer, ReadAnswer, TakenForIndication, requestVars
  <1>7. CASE SendAnswer
    BY <1>7 DEF SendAnswer, HandOK
  <1>8. CASE ReaderFails \/ CloseEnds
    BY <1>8 DEF ReaderFails, CloseEnds, failPendingTransactions
  <1>9. CASE UNCHANGED requestVars
    BY <1>9 DEF requestVars
  <1>10. \/ \E r \in Requests : Caller(r)
         \/ Write \/ WriteFails \/ SendAnswer \/ ReaderFails \/ CloseEnds
         \/ \E q \in Requests : ReadsAnswer(q)
         \/ UNCHANGED requestVars
    BY DEF ReadsAnswer, Next, Writer, Reader, Loop, vars, TakeWrite, WriterStops, ReadIndication,
           Count, EnqueueEvent, QueueIsFull, DropEdge, storeCoalescedEvent, SignalCoalesced,
           ReaderStops, popCoalescedEvent, TakeIndication, TakeSignal, deliverEvent, LoopStops,
           TakeEvent, Unplugged, CloseBegins
  <1> QED
    BY <1>1, <1>2, <1>3, <1>4, <1>5, <1>6, <1>7, <1>8, <1>9, <1>10 DEF Caller

LEMMA WriterTypesKept == WriterTypes /\ [Next]_vars => WriterTypes'
  <1> SUFFICES ASSUME WriterTypes, [Next]_vars PROVE WriterTypes'
    OBVIOUS
  <1> USE ClientAssumption DEF WriterTypes
  <1>1. ASSUME NEW r \in Requests, QueueWrite(r) PROVE WriterTypes'
    BY <1>1 DEF QueueWrite
  <1>2. CASE TakeWrite
    BY <1>2 DEF TakeWrite
  <1>3. CASE Write \/ WriteFails
    BY <1>3 DEF Write, WriteFails, WriteEnds
  <1>4. CASE WriterStops
    BY <1>4 DEF WriterStops
  <1>5. ASSUME NEW q \in Requests, ReadsAnswer(q) PROVE WriterTypes'
    BY <1>5 DEF ReadsAnswer, ReadAnswer, TakenForIndication, requestVars
  <1>6. CASE UNCHANGED writeVars
    BY <1>6 DEF writeVars
  <1>7. \/ \E r \in Requests : QueueWrite(r) \/ ReadsAnswer(r)
        \/ Writer \/ UNCHANGED writeVars
    BY DEF ReadsAnswer, Next, Caller, Reader, Loop, vars, Register, TakeResult, TakeAnswer,
           Deadline, SeeClosed, completeTransaction, SendAnswer, ReadIndication, Count,
           EnqueueEvent, QueueIsFull, DropEdge, storeCoalescedEvent, SignalCoalesced, ReaderFails,
           ReaderStops, popCoalescedEvent, TakeIndication, TakeSignal, deliverEvent, LoopStops,
           TakeEvent, Unplugged, CloseBegins, CloseEnds, writeVars
  <1> QED
    BY <1>1, <1>2, <1>3, <1>4, <1>5, <1>6, <1>7 DEF Writer

LEMMA EventTypesKept ==
  EventTypes /\ HandOK /\ RequestTypes /\ Fresh /\ [Next]_vars => EventTypes'
  <1> SUFFICES ASSUME EventTypes, HandOK, RequestTypes, Fresh, [Next]_vars PROVE EventTypes'
    OBVIOUS
  <1> USE ClientAssumption DEF EventTypes, queueVars, loopVars, readVars, closeVars
  <1>1. ASSUME NEW r \in Requests, NEW s \in Services, Register(r, s) PROVE EventTypes'
    BY <1>1 DEF Register, Spend
  <1>2. ASSUME NEW q \in Requests, ReadAnswer(q) PROVE EventTypes'
    <2>1. ASSUME NEW e \in Requests, Answer(q, e) PROVE EventTypes'
      BY <1>2, <2>1 DEF ReadAnswer, Answer
    <2>2. CASE Enqueue("unknown", 0)
      BY <1>2, <2>2 DEF ReadAnswer, Enqueue, Events, Kinds
    <2>3. CASE UNCHANGED readVars
      BY <1>2, <2>3 DEF ReadAnswer
    <2> QED
      <3>1. CASE EntryFor(key[q], FALSE) # None /\ Answer(q, EntryFor(key[q], FALSE))
        <4>1. EntryFor(key[q], FALSE) \in Requests
          BY <1>2, <3>1 DEF RequestTypes, EntryFor, ReadAnswer, Fresh
        <4> QED
          BY <3>1, <4>1, <2>1
      <3> QED
        BY <1>2, <2>2, <2>3, <3>1 DEF ReadAnswer
  <1>3. ASSUME NEW kind \in Coalesced \cup Edges, Arrives(kind)
        PROVE  EventTypes'
    <2>1. received[kind] + 1 \in 0 .. Budget /\ spent' \in 0 .. Budget
      BY <1>3 DEF Arrives, Count, Spend, HandOK
    <2>2. received' \in [Coalesced \cup Edges -> 0 .. Budget]
      BY <1>3, <2>1 DEF Arrives, Count
    <2>3. readerPc' = "enqueue" /\ hand' = [kind |-> kind, n |-> received[kind] + 1]
      BY <1>3 DEF Arrives, Count, Enqueue
    <2>4. hand' \in Events
      BY <2>1, <2>3 DEF Events, Kinds
    <2> QED
      BY <1>3, <2>1, <2>2, <2>3, <2>4 DEF Arrives, Count
  <1>4. CASE SendAnswer
    BY <1>4 DEF SendAnswer, ReaderDone
  <1>5. CASE EnqueueEvent
    BY <1>5 DEF EnqueueEvent, HandOK, ReaderDone, QueueHasRoom
  <1>6. CASE QueueIsFull \/ DropEdge
    BY <1>6 DEF QueueIsFull, DropEdge, ReaderDone
  <1>7. CASE storeCoalescedEvent
    <2>1. hand.kind \in Coalesced /\ hand.n \in 0 .. Budget
      BY <1>7 DEF storeCoalescedEvent, HandOK, Events
    <2> QED
      BY <1>7, <2>1 DEF storeCoalescedEvent, ReaderDone
  <1>8. CASE SignalCoalesced
    BY <1>8 DEF SignalCoalesced, ReaderDone
  <1>9. CASE ReaderFails \/ ReaderStops
    BY <1>9 DEF ReaderFails, ReaderStops, ReaderDone
  <1>10. CASE popCoalescedEvent
    <2>1. CASE order = <<>>
      BY <1>10, <2>1 DEF popCoalescedEvent
    <2>2. CASE order # <<>>
      <3>1. Head(order) \in Coalesced /\ Tail(order) \in Seq(Coalesced)
        BY <2>2
      <3>2. out' \in Events
        BY <1>10, <2>2, <3>1 DEF popCoalescedEvent, Events, Kinds
      <3>3. stored' \in [Coalesced -> 0 .. Budget]
        BY <1>10, <2>2, <3>1 DEF popCoalescedEvent
      <3> QED
        BY <1>10, <2>2, <3>1, <3>2, <3>3 DEF popCoalescedEvent
    <2> QED
      BY <2>1, <2>2
  <1>11. CASE TakeIndication
    BY <1>11 DEF TakeIndication
  <1>12. CASE TakeSignal \/ LoopStops
    BY <1>12 DEF TakeSignal, LoopStops
  <1>13. CASE deliverEvent
    <2>1. out.kind \in Kinds /\ out.n \in 0 .. Budget
      BY <1>13 DEF deliverEvent, HandOK, Events
    <2>2. delivered' \in [Kinds -> 0 .. Budget]
      BY <1>13, <2>1 DEF deliverEvent
    <2> QED
      BY <1>13, <2>2 DEF deliverEvent, AfterDelivery
  <1>14. CASE TakeEvent \/ Unplugged \/ CloseBegins \/ CloseEnds
    <2>1. CASE TakeEvent
      BY <2>1 DEF TakeEvent
    <2>2. CASE Unplugged \/ CloseBegins \/ CloseEnds
      <3>1. connected' \in BOOLEAN /\ closer' \in {"open", "closing", "closed"}
        BY <2>2 DEF Unplugged, CloseBegins, CloseEnds
      <3>2. UNCHANGED <<readerPc, hand, indicationInCh, stored, order, coalescedSignal>>
        BY <2>2 DEF Unplugged, CloseBegins, CloseEnds
      <3>3. UNCHANGED <<loopPc, out, eventCh, delivered, received, spent>>
        BY <2>2 DEF Unplugged, CloseBegins, CloseEnds
      <3> QED
        BY <3>1, <3>2, <3>3
    <2> QED
      BY <1>14, <2>1, <2>2
  <1>15. CASE UNCHANGED <<readVars, queueVars, loopVars, received, spent, closeVars>>
    BY <1>15
  <1>16. \/ \E r \in Requests, s \in Services : Register(r, s)
         \/ Reader \/ Loop
         \/ TakeEvent \/ Unplugged \/ CloseBegins \/ CloseEnds
         \/ UNCHANGED <<readVars, queueVars, loopVars, received, spent, closeVars>>
    BY DEF Next, Caller, Writer, vars, QueueWrite, TakeResult, TakeAnswer, Deadline,
           SeeClosed, completeTransaction, TakeWrite, Write, WriteFails, WriteEnds, WriterStops
  <1> QED
    BY <1>1, <1>2, <1>3, <1>4, <1>5, <1>6, <1>7, <1>8, <1>9, <1>10, <1>11, <1>12, <1>13,
       <1>14, <1>15, <1>16, Arrivals DEF Reader, Loop

LEMMA NextTypeOK == TypeOK /\ HandOK /\ Fresh /\ [Next]_vars => TypeOK'
  BY RequestTypesKept, WriterTypesKept, EventTypesKept DEF TypeOK

-----------------------------------------------------------------------------
(* The steps that touch requests or the writer; any other leaves both. *)
LEMMA RequestSteps ==
  ASSUME [Next]_vars
  PROVE  \/ \E r \in Requests : Caller(r)
         \/ Writer \/ \E q \in Requests : ReadsAnswer(q)
         \/ SendAnswer \/ ReaderFails \/ CloseEnds
         \/ UNCHANGED <<requestVars, writeVars>>
  BY DEF ReadsAnswer, Next, Reader, Loop, vars, ReadIndication, Count, EnqueueEvent, QueueIsFull,
         DropEdge, storeCoalescedEvent, SignalCoalesced, ReaderStops, popCoalescedEvent,
         TakeIndication, TakeSignal, deliverEvent, LoopStops, TakeEvent, Unplugged, CloseBegins

(* What an entry of the queue is after its head left or a request joined. *)
LEMMA WriteChMembers ==
  ASSUME NEW w \in Seq(Requests), NEW r \in Requests
  PROVE  /\ \A i \in DOMAIN Append(w, r) : Append(w, r)[i] = r \/ \E j \in DOMAIN w : w[j] = Append(w, r)[i]
         /\ w # <<>> => Head(w) = w[1] /\ 1 \in DOMAIN w
         /\ w # <<>> => \A i \in DOMAIN Tail(w) : \E j \in DOMAIN w : w[j] = Tail(w)[i]
  <1>1. w # <<>> => \A i \in DOMAIN Tail(w) : i + 1 \in DOMAIN w /\ Tail(w)[i] = w[i + 1]
    OBVIOUS
  <1> QED
    BY <1>1

LEMMA FreshKept == TypeOK /\ HandOK /\ Fresh /\ [Next]_vars => Fresh'
  <1> SUFFICES ASSUME TypeOK, HandOK, Fresh, [Next]_vars, NEW q \in Requests
               PROVE  /\ pc'[q] = "new" => rivals'[q] = {}
                      /\ \A x \in rivals'[q] : pc'[x] # "new"
                      /\ pc'[q] # "new" => key'[q] \in Keys
                      /\ pc'[q] \in {"new", "registered"} =>
                           written'[q] = None /\ q # writer' /\ q \notin asked' /\ ~InWriteCh(q)'
    BY DEF Fresh
  <1> USE ClientAssumption DEF TypeOK, RequestTypes, WriterTypes, Fresh, Goto, InWriteCh
  <1>1. ASSUME NEW r \in Requests, NEW s \in Services, Register(r, s)
        PROVE  /\ pc'[q] = "new" => rivals'[q] = {}
               /\ \A x \in rivals'[q] : pc'[x] # "new"
               /\ pc'[q] # "new" => key'[q] \in Keys
               /\ pc'[q] \in {"new", "registered"} =>
                    written'[q] = None /\ q # writer' /\ q \notin asked' /\ ~InWriteCh(q)'
    <2> DEFINE k == <<s, NextId(s)>>
    <2>1. k \in Keys
      BY NextIdInRange
    <2>2. /\ pc[r] = "new" /\ pc' = [pc EXCEPT ![r] = "registered"]
          /\ key' = [key EXCEPT ![r] = k]
          /\ rivals' = [rivals EXCEPT ![r] = {x \in Requests : key[x] = k /\ Outstanding(x)}]
          /\ UNCHANGED <<written, writeCh, writer, asked>>
      BY <1>1 DEF Register, writeVars
    <2> HIDE DEF k
    <2>3. \A x \in Requests : Outstanding(x) => pc[x] # "new"
      BY DEF Outstanding
    <2>4. \A x \in rivals'[q] : pc'[x] # "new"
      BY <2>2, <2>3
    <2>5. pc'[q] = "new" => rivals'[q] = {}
      BY <2>2
    <2>6. pc'[q] # "new" => key'[q] \in Keys
      BY <2>1, <2>2
    <2> QED
      BY <2>2, <2>4, <2>5, <2>6
  <1>2. ASSUME NEW r \in Requests, QueueWrite(r)
        PROVE  /\ pc'[q] = "new" => rivals'[q] = {}
               /\ \A x \in rivals'[q] : pc'[x] # "new"
               /\ pc'[q] # "new" => key'[q] \in Keys
               /\ pc'[q] \in {"new", "registered"} =>
                    written'[q] = None /\ q # writer' /\ q \notin asked' /\ ~InWriteCh(q)'
    <2>1. \A i \in DOMAIN writeCh' : writeCh'[i] = r \/ InWriteCh(writeCh'[i])
      BY <1>2, WriteChMembers DEF QueueWrite
    <2> QED
      BY <1>2, <2>1 DEF QueueWrite
  <1>3. ASSUME NEW r \in Requests,
               TakeResult(r) \/ TakeAnswer(r) \/ Deadline(r) \/ SeeClosed(r) \/ completeTransaction(r)
        PROVE  /\ pc'[q] = "new" => rivals'[q] = {}
               /\ \A x \in rivals'[q] : pc'[x] # "new"
               /\ pc'[q] # "new" => key'[q] \in Keys
               /\ pc'[q] \in {"new", "registered"} =>
                    written'[q] = None /\ q # writer' /\ q \notin asked' /\ ~InWriteCh(q)'
    BY <1>3 DEF TakeResult, TakeAnswer, Deadline, SeeClosed, completeTransaction, writeVars, Waiting
  <1>4. CASE TakeWrite
    <2>1. writer' \in Requests /\ InWriteCh(writer')
      BY <1>4, WriteChMembers DEF TakeWrite
    <2>2. \A i \in DOMAIN writeCh' : InWriteCh(writeCh'[i])
      BY <1>4, WriteChMembers DEF TakeWrite
    <2> QED
      BY <1>4, <2>1, <2>2 DEF TakeWrite, requestVars
  <1>5. CASE Write \/ WriteFails
    BY <1>5 DEF Write, WriteFails, WriteEnds
  <1>6. CASE WriterStops
    BY <1>6 DEF WriterStops, requestVars
  <1>7. ASSUME NEW r \in Requests, ReadsAnswer(r)
        PROVE  /\ pc'[q] = "new" => rivals'[q] = {}
               /\ \A x \in rivals'[q] : pc'[x] # "new"
               /\ pc'[q] # "new" => key'[q] \in Keys
               /\ pc'[q] \in {"new", "registered"} =>
                    written'[q] = None /\ q # writer' /\ q \notin asked' /\ ~InWriteCh(q)'
    BY <1>7 DEF ReadsAnswer, ReadAnswer, TakenForIndication, requestVars
  <1>8. CASE SendAnswer \/ ReaderFails \/ CloseEnds
    BY <1>8 DEF SendAnswer, ReaderFails, CloseEnds, writeVars
  <1>9. CASE UNCHANGED <<requestVars, writeVars>>
    BY <1>9 DEF requestVars, writeVars
  <1> QED
    BY <1>1, <1>2, <1>3, <1>4, <1>5, <1>6, <1>7, <1>8, <1>9, RequestSteps DEF Caller, Writer

(* A dead request stays dead: nothing writes it again. *)
LEMMA DeadStays ==
  ASSUME TypeOK, [Next]_vars, NEW q \in Requests, Dead(q)
  PROVE  Dead(q)' /\ key'[q] = key[q]
  <1> USE ClientAssumption DEF TypeOK, RequestTypes, WriterTypes, Goto, InWriteCh, Dead
  <1>1. ASSUME NEW r \in Requests, NEW s \in Services, Register(r, s)
        PROVE  Dead(q)' /\ key'[q] = key[q]
    BY <1>1 DEF Register, writeVars
  <1>2. ASSUME NEW r \in Requests, QueueWrite(r)
        PROVE  Dead(q)' /\ key'[q] = key[q]
    <2>1. \A i \in DOMAIN writeCh' : writeCh'[i] = r \/ InWriteCh(writeCh'[i])
      BY <1>2, WriteChMembers DEF QueueWrite
    <2> QED
      BY <1>2, <2>1 DEF QueueWrite
  <1>3. ASSUME NEW r \in Requests,
               TakeResult(r) \/ TakeAnswer(r) \/ Deadline(r) \/ SeeClosed(r) \/ completeTransaction(r)
        PROVE  Dead(q)' /\ key'[q] = key[q]
    BY <1>3 DEF TakeResult, TakeAnswer, Deadline, SeeClosed, completeTransaction, writeVars, Waiting
  <1>4. CASE TakeWrite
    <2>1. writer' \in Requests /\ InWriteCh(writer')
      BY <1>4, WriteChMembers DEF TakeWrite
    <2>2. \A i \in DOMAIN writeCh' : InWriteCh(writeCh'[i])
      BY <1>4, WriteChMembers DEF TakeWrite
    <2> QED
      BY <1>4, <2>1, <2>2 DEF TakeWrite, requestVars
  <1>5. CASE Write \/ WriteFails
    BY <1>5 DEF Write, WriteFails, WriteEnds
  <1>6. CASE WriterStops
    BY <1>6 DEF WriterStops, requestVars
  <1>7. ASSUME NEW r \in Requests, ReadsAnswer(r) PROVE Dead(q)' /\ key'[q] = key[q]
    BY <1>7 DEF ReadsAnswer, ReadAnswer, TakenForIndication, requestVars
  <1>8. CASE SendAnswer \/ ReaderFails \/ CloseEnds
    BY <1>8 DEF SendAnswer, ReaderFails, CloseEnds, writeVars
  <1>9. CASE UNCHANGED <<requestVars, writeVars>>
    BY <1>9 DEF requestVars, writeVars
  <1> QED
    BY <1>1, <1>2, <1>3, <1>4, <1>5, <1>6, <1>7, <1>8, <1>9, RequestSteps DEF Caller, Writer

(* Only Register gives a request its key, and only a new one registers. *)
LEMMA KeysStay ==
  ASSUME TypeOK, [Next]_vars, NEW q \in Requests
  PROVE  \/ key'[q] = key[q] /\ rivals'[q] = rivals[q] /\ (pc'[q] # "new" => pc[q] # "new")
         \/ \E s \in Services : Register(q, s)
  <1> USE DEF TypeOK, RequestTypes, Goto
  <1>1. ASSUME NEW r \in Requests, NEW s \in Services, Register(r, s), r # q
        PROVE  key'[q] = key[q] /\ rivals'[q] = rivals[q] /\ pc'[q] = pc[q]
    BY <1>1 DEF Register
  <1>2. ASSUME NEW r \in Requests,
               \/ QueueWrite(r) \/ TakeResult(r) \/ TakeAnswer(r)
               \/ Deadline(r) \/ SeeClosed(r) \/ completeTransaction(r)
        PROVE  key'[q] = key[q] /\ rivals'[q] = rivals[q] /\ (pc'[q] # "new" => pc[q] # "new")
    BY <1>2 DEF QueueWrite, TakeResult, TakeAnswer, Deadline, SeeClosed, completeTransaction,
           Waiting
  <1>3. CASE Writer \/ SendAnswer \/ ReaderFails \/ CloseEnds
    BY <1>3 DEF Writer, TakeWrite, Write, WriteFails, WriteEnds, WriterStops, SendAnswer,
                ReaderFails, CloseEnds, requestVars
  <1>4. ASSUME NEW r \in Requests, ReadsAnswer(r) PROVE key'[q] = key[q] /\ rivals'[q] = rivals[q] /\ pc'[q] = pc[q]
    BY <1>4 DEF ReadsAnswer, ReadAnswer, TakenForIndication, requestVars
  <1>5. CASE UNCHANGED <<requestVars, writeVars>>
    BY <1>5 DEF requestVars
  <1> QED
    BY <1>1, <1>2, <1>3, <1>4, <1>5, RequestSteps DEF Caller

LEMMA UniqueKept == TypeOK /\ Unique /\ [Next]_vars => Unique'
  <1> SUFFICES ASSUME TypeOK, Unique, [Next]_vars,
                      NEW q \in Requests, NEW r \in Requests,
                      q # r, pc'[q] # "new", pc'[r] # "new", key'[q] = key'[r]
               PROVE  Dead(q)' \/ Dead(r)' \/ q \in rivals'[r] \/ r \in rivals'[q]
    BY DEF Unique
  <1>1. ASSUME NEW a \in Requests, NEW b \in Requests, a # b, pc'[b] # "new",
               key'[a] = key'[b], NEW s \in Services, Register(a, s)
        PROVE  Dead(b)' \/ b \in rivals'[a]
    <2> DEFINE k == <<s, NextId(s)>>
    <2>1. /\ key'[a] = k /\ key'[b] = key[b] /\ pc[b] # "new"
          /\ rivals'[a] = {x \in Requests : key[x] = k /\ Outstanding(x)}
      BY <1>1 DEF Register, TypeOK, RequestTypes, Goto
    <2> HIDE DEF k
    <2>2. CASE Outstanding(b)
      BY <1>1, <2>1, <2>2
    <2>3. CASE ~Outstanding(b)
      <3>1. Dead(b)
        BY <2>1, <2>3 DEF Outstanding, Dead, InWriteCh
      <3> QED
        BY <3>1, DeadStays
    <2> QED
      BY <2>2, <2>3
  <1>2. CASE \E s \in Services : Register(q, s)
    BY <1>1, <1>2
  <1>3. CASE \E s \in Services : Register(r, s)
    BY <1>1, <1>3
  <1>4. CASE /\ key'[q] = key[q] /\ rivals'[q] = rivals[q] /\ pc[q] # "new"
             /\ key'[r] = key[r] /\ rivals'[r] = rivals[r] /\ pc[r] # "new"
    <2>1. Dead(q) \/ Dead(r) \/ q \in rivals[r] \/ r \in rivals[q]
      BY <1>4 DEF Unique
    <2> QED
      BY <1>4, <2>1, DeadStays
  <1> QED
    BY <1>2, <1>3, <1>4, KeysStay

(* Who shares its key with a request that is not over, while its own answer   *)
(* may still come, is its rival.                                             *)
LEMMA OneLivePerKey ==
  ASSUME Unique, NEW q \in Requests, NEW r \in Requests, key[q] = key[r],
         pc[q] # "new", pc[r] # "new",
         pc[q] # "ended" \/ q \in asked, pc[r] # "ended" \/ r \in asked
  PROVE  q = r \/ q \in rivals[r] \/ r \in rivals[q]
  BY DEF Unique, Dead

(* Rivals are only ever added. *)
LEMMA RivalsStay ==
  ASSUME TypeOK, Fresh, [Next]_vars, NEW q \in Requests
  PROVE  rivals[q] \subseteq rivals'[q]
  <1>1. CASE \E s \in Services : Register(q, s)
    BY <1>1 DEF Register, Fresh
  <1> QED
    BY <1>1, KeysStay

LEMMA AloneBefore ==
  ASSUME TypeOK, Fresh, [Next]_vars, NEW r \in Requests, Alone(r)'
  PROVE  Alone(r)
  BY RivalsStay DEF Alone, TypeOK, RequestTypes

(* A reader that is gone stays gone, and what it holds for a caller leaves its
   hand by SendAnswer only. *)
LEMMA ReaderGone == [Next]_vars /\ readerPc = "exited" => readerPc' = "exited"
  BY DEF Next, vars, Caller, Register, QueueWrite, TakeResult, TakeAnswer, Deadline, SeeClosed,
         completeTransaction, Writer, TakeWrite, Write, WriteFails, WriteEnds, WriterStops,
         Reader, ReadAnswer, TakenForIndication, ReadIndication, Count, SendAnswer, EnqueueEvent,
         QueueIsFull, DropEdge, storeCoalescedEvent, SignalCoalesced, ReaderFails, ReaderStops,
         ReaderDone, Loop, popCoalescedEvent, TakeIndication, TakeSignal, deliverEvent, LoopStops,
         TakeEvent, Unplugged, CloseBegins, CloseEnds, readVars

LEMMA AnswerInHand ==
  [Next]_vars /\ readerPc = "answer" => SendAnswer \/ UNCHANGED readVars
  BY DEF Next, vars, Caller, Register, QueueWrite, TakeResult, TakeAnswer, Deadline, SeeClosed,
         completeTransaction, Writer, TakeWrite, Write, WriteFails, WriteEnds, WriterStops,
         Reader, ReadAnswer, TakenForIndication, ReadIndication, Count, EnqueueEvent, QueueIsFull,
         DropEdge, storeCoalescedEvent, SignalCoalesced, ReaderFails, ReaderStops, ReaderDone,
         Loop, popCoalescedEvent, TakeIndication, TakeSignal, deliverEvent, LoopStops, TakeEvent,
         Unplugged, CloseBegins, CloseEnds, readVars

LEMMA TableKept ==
  TypeOK /\ Fresh /\ Unique /\ Table /\ Listed /\ [Next]_vars => Table' /\ Listed'
  <1> SUFFICES ASSUME TypeOK, Fresh, Unique, Table, Listed, [Next]_vars PROVE Table' /\ Listed'
    OBVIOUS
  <1> USE DEF TypeOK, RequestTypes, Goto
  <1>0. \A q \in Requests : Alone(q)' => Alone(q)
    BY AloneBefore
  <1>1. ASSUME NEW r \in Requests, NEW s \in Services, Register(r, s) PROVE Table' /\ Listed'
    <2> DEFINE k == <<s, NextId(s)>>
    <2>1. k \in Keys
      BY NextIdInRange
    <2>2. /\ pc[r] = "new" /\ pc' = [pc EXCEPT ![r] = "registered"]
          /\ key' = [key EXCEPT ![r] = k] /\ transactions' = [transactions EXCEPT ![k] = r]
          /\ rivals' = [rivals EXCEPT ![r] = {q \in Requests : key[q] = k /\ Outstanding(q)}]
          /\ closedInbox' = closedInbox /\ readerPc' = readerPc
      BY <1>1 DEF Register, readVars
    <2> HIDE DEF k
    <2>a. ~Outstanding(r)
      BY <2>2 DEF Outstanding, Fresh, InWriteCh
    <2>b. ASSUME NEW q \in Requests PROVE r \notin rivals'[q]
      <3>1. r \notin rivals[q]
        BY <2>2 DEF Fresh
      <3> QED
        BY <2>2, <2>a, <3>1
    <2>3. Table'
      <3> SUFFICES ASSUME NEW l \in Keys, transactions'[l] # None
                   PROVE  /\ key'[transactions'[l]] = l
                          /\ pc'[transactions'[l]] \notin {"new", "ended"}
                          /\ \A q \in Requests : transactions'[l] \notin rivals'[q]
        BY DEF Table
      <3>1. CASE l = k
        BY <2>1, <2>2, <2>b, <3>1
      <3>2. CASE l # k
        <4>1. transactions'[l] = transactions[l] /\ transactions[l] \in Requests
          BY <2>1, <2>2, <3>2
        <4>2. /\ key[transactions[l]] = l /\ pc[transactions[l]] \notin {"new", "ended"}
              /\ \A q \in Requests : transactions[l] \notin rivals[q]
          BY <4>1 DEF Table
        <4>3. transactions[l] \notin rivals'[r]
          BY <2>2, <3>2, <4>2
        <4> QED
          BY <2>2, <4>1, <4>2, <4>3
      <3> QED
        BY <3>1, <3>2
    <2>4. Listed'
      <3> SUFFICES ASSUME readerPc # "exited", NEW q \in Requests, Alone(q)',
                          pc'[q] \notin {"new", "ended"}
                   PROVE  transactions'[key'[q]] = q
        BY <2>2 DEF Listed
      <3>1. CASE q = r
        BY <2>1, <2>2, <3>1 DEF Listed
      <3>2. CASE q # r
        <4>1. pc[q] \notin {"new", "ended"} /\ key'[q] = key[q] /\ key[q] \in Keys
          BY <2>2, <3>2 DEF Fresh
        <4>2. transactions[key[q]] = q
          BY <1>0, <4>1 DEF Listed
        <4>3. q \notin rivals'[r] /\ Outstanding(q)
          BY <4>1 DEF Alone, Outstanding
        <4>4. key[q] # k
          BY <2>2, <4>3
        <4> QED
          BY <2>1, <2>2, <4>1, <4>2, <4>4
      <3> QED
        BY <3>1, <3>2
    <2> QED
      BY <2>3, <2>4
  <1>2. ASSUME NEW r \in Requests,
               QueueWrite(r) \/ TakeResult(r) \/ TakeAnswer(r) \/ Deadline(r) \/ SeeClosed(r)
        PROVE  Table' /\ Listed'
    <2>1. /\ pc[r] \notin {"new", "ended"} /\ pc'[r] \notin {"new", "ended"}
          /\ \A q \in Requests : q # r => pc'[q] = pc[q]
          /\ UNCHANGED <<key, transactions, closedInbox, rivals, readerPc>>
      BY <1>2 DEF QueueWrite, TakeResult, TakeAnswer, Deadline, SeeClosed, Waiting, readVars
    <2> QED
      BY <2>1 DEF Table, Listed, Alone
  <1>3. ASSUME NEW r \in Requests, completeTransaction(r) PROVE Table' /\ Listed'
    <2>1. /\ pc[r] \notin {"new", "ended"} /\ pc' = [pc EXCEPT ![r] = "ended"]
          /\ transactions' = [transactions EXCEPT ![key[r]] = None]
          /\ UNCHANGED <<key, closedInbox, rivals, readerPc>>
      BY <1>3 DEF completeTransaction, readVars
    <2>2. key[r] \in Keys
      BY <2>1 DEF Fresh
    <2>3. ASSUME NEW q \in Requests, q # r, Alone(q), pc[q] \notin {"new", "ended"}
          PROVE  key[q] # key[r]
      BY <2>1, <2>3, OneLivePerKey DEF Alone
    <2>4. Table'
      <3> SUFFICES ASSUME NEW l \in Keys, transactions'[l] # None
                   PROVE  /\ key'[transactions'[l]] = l
                          /\ pc'[transactions'[l]] \notin {"new", "ended"}
                          /\ \A q \in Requests : transactions'[l] \notin rivals'[q]
        BY DEF Table
      <3>1. l # key[r] /\ transactions'[l] = transactions[l]
        BY <2>1, <2>2
      <3> QED
        BY <2>1, <3>1 DEF Table
    <2>5. Listed'
      <3> SUFFICES ASSUME readerPc # "exited", NEW q \in Requests, Alone(q),
                          pc'[q] \notin {"new", "ended"}
                   PROVE  transactions'[key[q]] = q
        BY <2>1 DEF Listed, Alone
      <3>1. q # r /\ pc[q] \notin {"new", "ended"}
        BY <2>1
      <3> QED
        BY <2>1, <2>2, <2>3, <3>1 DEF Listed, Fresh
    <2> QED
      BY <2>4, <2>5
  <1>4. CASE Writer
    BY <1>4 DEF Writer, TakeWrite, Write, WriteFails, WriteEnds, WriterStops, requestVars,
                readVars, Table, Listed, Alone
  <1>5. ASSUME NEW q \in Requests, ReadsAnswer(q) PROVE Table' /\ Listed'
    <2>1. readerPc # "exited" /\ UNCHANGED <<pc, key, transactions, closedInbox, rivals>>
      BY <1>5 DEF ReadsAnswer, ReadAnswer, TakenForIndication, requestVars
    <2> QED
      BY <2>1 DEF Table, Listed, Alone
  <1>6. CASE SendAnswer
    BY <1>6 DEF SendAnswer, Table, Listed, Alone
  <1>7. CASE ReaderFails \/ CloseEnds
    <2>1. readerPc' = "exited" /\ transactions' = [k \in Keys |-> None]
      BY <1>7 DEF ReaderFails, CloseEnds, ReaderDone, LoopsStopped, failPendingTransactions,
             readVars
    <2> QED
      BY <2>1 DEF Table, Listed
  <1>8. CASE UNCHANGED <<requestVars, writeVars>>
    BY <1>8, ReaderGone DEF requestVars, Table, Listed, Alone
  <1> QED
    BY <1>1, <1>2, <1>3, <1>4, <1>5, <1>6, <1>7, <1>8, RequestSteps DEF Caller

-----------------------------------------------------------------------------
(* An answer is matched with its own request, or with one made while it was
   outstanding: the table never goes back to an older entry. *)
LEMMA MatchedWithItsOwn ==
  ASSUME TypeOK, Fresh, Unique, Table, NEW q \in asked, EntryFor(key[q], FALSE) # None
  PROVE  /\ EntryFor(key[q], FALSE) \in Requests
         /\ q \in {EntryFor(key[q], FALSE)} \cup rivals[EntryFor(key[q], FALSE)]
  <1>1. q \in Requests /\ pc[q] # "new" /\ key[q] \in Keys
    BY DEF TypeOK, WriterTypes, RequestTypes, Fresh
  <1>2. EntryFor(key[q], FALSE) = transactions[key[q]] /\ transactions[key[q]] \in Requests
    BY <1>1 DEF EntryFor, TypeOK, RequestTypes
  <1>3. /\ key[transactions[key[q]]] = key[q]
        /\ pc[transactions[key[q]]] \notin {"new", "ended"}
        /\ transactions[key[q]] \notin rivals[q]
    BY <1>1, <1>2 DEF Table
  <1> QED
    BY <1>1, <1>2, <1>3, OneLivePerKey

LEMMA HandOKKept ==
  TypeOK /\ HandOK /\ Fresh /\ Unique /\ Table /\ [Next]_vars => HandOK'
  <1> SUFFICES ASSUME TypeOK, HandOK, Fresh, Unique, Table, [Next]_vars PROVE HandOK'
    OBVIOUS
  <1> USE DEF readVars
  <1> DEFINE
        ReaderHand ==
          /\ readerPc = "answer" =>
                \E r \in Requests : \E q \in {r} \cup rivals[r] : hand = [entry |-> r, packet |-> q]
          /\ readerPc \in {"enqueue", "waitForRoom", "store"} => hand \in Events
          /\ readerPc = "store" => hand.kind \in Coalesced
        LoopHand == loopPc = "deliver" => out \in Events
        Paid == \A k \in Coalesced \cup Edges : received[k] <= spent
  <1>1. ReaderHand'
    <2>1. ASSUME NEW q \in Requests, ReadAnswer(q) PROVE ReaderHand'
      <3>1. CASE EntryFor(key[q], FALSE) # None /\ Answer(q, EntryFor(key[q], FALSE))
        <4>1. /\ EntryFor(key[q], FALSE) \in Requests
              /\ q \in {EntryFor(key[q], FALSE)} \cup rivals[EntryFor(key[q], FALSE)]
          BY <2>1, <3>1, MatchedWithItsOwn DEF ReadAnswer
        <4>2. rivals' = rivals
          BY <2>1 DEF ReadAnswer
        <4> QED
          BY <3>1, <4>1, <4>2 DEF Answer
      <3>2. CASE Enqueue("unknown", 0)
        BY <3>2, ClientAssumption DEF Enqueue, Events, Kinds
      <3>3. CASE UNCHANGED readVars
        BY <2>1, <3>3 DEF ReadAnswer
      <3> QED
        BY <2>1, <3>1, <3>2, <3>3 DEF ReadAnswer
    <2>2. ASSUME NEW kind \in Coalesced \cup Edges, Arrives(kind)
          PROVE  ReaderHand'
      <3>1. readerPc' = "enqueue" /\ hand' = [kind |-> kind, n |-> received[kind] + 1]
        BY <2>2 DEF Arrives, Count, Enqueue
      <3>2. received[kind] + 1 \in 0 .. Budget
        BY <2>2, ClientAssumption DEF Arrives, Count, Spend, HandOK, TypeOK, EventTypes
      <3> QED
        BY <3>1, <3>2 DEF Events, Kinds
    <2>3. CASE SendAnswer \/ EnqueueEvent \/ DropEdge \/ storeCoalescedEvent \/ SignalCoalesced
      BY <2>3 DEF SendAnswer, EnqueueEvent, DropEdge, storeCoalescedEvent, SignalCoalesced,
             ReaderDone
    <2>4. CASE ReaderFails \/ ReaderStops
      BY <2>4 DEF ReaderFails, ReaderStops, ReaderDone
    <2>5. CASE QueueIsFull
      BY <2>5 DEF QueueIsFull, HandOK
    <2>6. CASE UNCHANGED readVars
      BY <2>6, RivalsStay DEF HandOK
    <2>7. Reader \/ UNCHANGED readVars
      BY DEF Next, vars, Caller, Register, QueueWrite, TakeResult, TakeAnswer, Deadline, SeeClosed,
             completeTransaction, Writer, TakeWrite, Write, WriteFails, WriteEnds, WriterStops,
             Loop, popCoalescedEvent, TakeIndication, TakeSignal, deliverEvent, LoopStops,
             TakeEvent, Unplugged, CloseBegins, CloseEnds
    <2> QED
      BY <2>1, <2>2, <2>3, <2>4, <2>5, <2>6, <2>7, Arrivals DEF Reader
  <1>2. LoopHand'
    <2>1. CASE popCoalescedEvent
      <3>1. CASE order = <<>>
        BY <2>1, <3>1 DEF popCoalescedEvent
      <3>2. CASE order # <<>>
        <4>1. Head(order) \in Coalesced /\ stored[Head(order)] \in 0 .. Budget
          BY <3>2 DEF TypeOK, EventTypes
        <4> QED
          BY <2>1, <3>2, <4>1 DEF popCoalescedEvent, Events, Kinds
      <3> QED
        BY <3>1, <3>2
    <2>2. CASE TakeIndication
      <3>1. Head(indicationInCh) \in Events
        BY <2>2 DEF TakeIndication, TypeOK, EventTypes
      <3> QED
        BY <2>2, <3>1 DEF TakeIndication
    <2>3. CASE TakeSignal \/ deliverEvent \/ LoopStops
      BY <2>3 DEF TakeSignal, deliverEvent, AfterDelivery, LoopStops
    <2>4. CASE UNCHANGED <<loopPc, out>>
      BY <2>4 DEF HandOK
    <2>5. Loop \/ UNCHANGED <<loopPc, out>>
      BY DEF Next, vars, loopVars, Caller, Register, QueueWrite, TakeResult, TakeAnswer, Deadline,
             SeeClosed, completeTransaction, Writer, TakeWrite, Write, WriteFails, WriteEnds,
             WriterStops, Reader, ReadAnswer, TakenForIndication, ReadIndication, Count,
             SendAnswer, EnqueueEvent, QueueIsFull, DropEdge, storeCoalescedEvent,
             SignalCoalesced, ReaderFails, ReaderStops, TakeEvent, Unplugged, CloseBegins,
             CloseEnds
    <2> QED
      BY <2>1, <2>2, <2>3, <2>4, <2>5 DEF Loop
  <1>a. ASSUME NEW r \in Requests, NEW s \in Services, Register(r, s)
        PROVE  spent' = spent + RequestCost /\ received' = received
    BY <1>a DEF Register, Spend
  <1>b. ASSUME NEW kind \in Coalesced \cup Edges, Arrives(kind)
        PROVE  /\ spent' = spent + IndicationCost
               /\ received' = [received EXCEPT ![kind] = @ + 1]
    BY <1>b DEF Arrives, Count, Spend
  <1>3. Paid'
    <2> USE ClientAssumption DEF Spend, TypeOK, EventTypes, HandOK
    <2>1. ASSUME NEW kind \in Coalesced \cup Edges, Arrives(kind) PROVE Paid'
      <3>1. /\ spent' = spent + IndicationCost
            /\ received' = [received EXCEPT ![kind] = @ + 1]
        BY <1>b, <2>1
      <3>2. IndicationCost \in Nat \ {0} /\ spent \in Nat
        OBVIOUS
      <3>3. /\ \A k \in Coalesced \cup Edges : received[k] \in Nat /\ received[k] <= spent
            /\ DOMAIN received = Coalesced \cup Edges
        OBVIOUS
      <3>4. \A k \in Coalesced \cup Edges : received'[k] <= received[k] + 1
        BY <3>1, <3>3
      <3> QED
        BY <3>1, <3>2, <3>3, <3>4
    <2>2. ASSUME NEW r \in Requests, NEW s \in Services, Register(r, s) PROVE Paid'
      <3>1. spent' = spent + RequestCost /\ received' = received
        BY <1>a, <2>2
      <3>2. RequestCost \in Nat /\ spent \in Nat
        OBVIOUS
      <3>3. \A k \in Coalesced \cup Edges : received[k] \in Nat /\ received[k] <= spent
        OBVIOUS
      <3> QED
        BY <3>1, <3>2, <3>3
    <2>3. CASE UNCHANGED <<received, spent>>
      BY <2>3
    <2>4. \/ \E r \in Requests, s \in Services : Register(r, s)
          \/ \E kind \in Coalesced \cup Edges : Arrives(kind)
          \/ UNCHANGED <<received, spent>>
      BY Arrivals DEF Next, vars, Caller, QueueWrite, TakeResult, TakeAnswer, Deadline, SeeClosed,
             completeTransaction, Writer, TakeWrite, Write, WriteFails, WriteEnds, WriterStops,
             Reader, ReadAnswer, SendAnswer, EnqueueEvent, QueueIsFull, DropEdge,
             storeCoalescedEvent, SignalCoalesced, ReaderFails, ReaderStops, Loop,
             popCoalescedEvent, TakeIndication, TakeSignal, deliverEvent, LoopStops,
             TakeEvent, Unplugged, CloseBegins, CloseEnds
    <2> QED
      BY <2>1, <2>2, <2>3, <2>4
  <1> QED
    BY <1>1, <1>2, <1>3 DEF HandOK

(* Close has closed eventCh only after the loops are gone, and none comes back. *)
LEMMA StoppedKept == Stopped /\ [Next]_vars => Stopped'
  <1> SUFFICES ASSUME Stopped, [Next]_vars PROVE Stopped'
    OBVIOUS
  <1> USE DEF readVars, loopVars, closeVars
  <1>1. CASE CloseEnds
    BY <1>1 DEF CloseEnds, LoopsStopped, Stopped
  <1>2. ~CloseEnds => (closer' = "closed" => closer = "closed")
    BY DEF Next, vars, Caller, Register, QueueWrite, TakeResult, TakeAnswer, Deadline, SeeClosed,
           completeTransaction, Writer, TakeWrite, Write, WriteFails, WriteEnds, WriterStops,
           Reader, ReadAnswer, TakenForIndication, ReadIndication, Count, SendAnswer,
           EnqueueEvent, QueueIsFull, DropEdge, storeCoalescedEvent, SignalCoalesced, ReaderFails,
           ReaderStops, Loop, popCoalescedEvent, TakeIndication, TakeSignal, deliverEvent,
           LoopStops, TakeEvent, Unplugged, CloseBegins
  <1>3. loopPc = "exited" => loopPc' = "exited"
    BY DEF Next, vars, Caller, Register, QueueWrite, TakeResult, TakeAnswer, Deadline, SeeClosed,
           completeTransaction, Writer, TakeWrite, Write, WriteFails, WriteEnds, WriterStops,
           Reader, ReadAnswer, TakenForIndication, ReadIndication, Count, SendAnswer,
           EnqueueEvent, QueueIsFull, DropEdge, storeCoalescedEvent, SignalCoalesced, ReaderFails,
           ReaderStops, Loop, popCoalescedEvent, TakeIndication, TakeSignal, deliverEvent,
           LoopStops, TakeEvent, Unplugged, CloseBegins, CloseEnds
  <1> QED
    BY <1>1, <1>2, <1>3, ReaderGone DEF Stopped

LEMMA AnswerIsMineKept == TypeOK /\ HandOK /\ Fresh /\ AnswerIsMine /\ [Next]_vars => AnswerIsMine'
  <1> SUFFICES ASSUME TypeOK, HandOK, Fresh, AnswerIsMine, [Next]_vars PROVE AnswerIsMine'
    OBVIOUS
  <1> USE DEF TypeOK, RequestTypes
  <1>a. ASSUME \A r \in Requests : inbox'[r] \in {inbox[r], None} PROVE AnswerIsMine'
    BY <1>a, RivalsStay DEF AnswerIsMine
  <1>1. ASSUME NEW r \in Requests, Caller(r) PROVE AnswerIsMine'
    BY <1>a, <1>1 DEF Caller, Register, QueueWrite, TakeResult, TakeAnswer, Deadline, SeeClosed,
                      completeTransaction
  <1>2. CASE SendAnswer
    <2>1. PICK e \in Requests : \E q \in {e} \cup rivals[e] : hand = [entry |-> e, packet |-> q]
      BY <1>2 DEF SendAnswer, HandOK
    <2>2. hand.entry = e /\ hand.packet \in {e} \cup rivals[e]
      BY <2>1
    <2>3. \A r \in Requests : inbox'[r] \in {r, None} \cup rivals[r]
      BY <1>2, <2>2 DEF SendAnswer, AnswerIsMine
    <2> QED
      BY <1>2, <2>3 DEF SendAnswer, AnswerIsMine
  <1>3. CASE Writer \/ ReaderFails \/ CloseEnds
    BY <1>a, <1>3 DEF Writer, TakeWrite, Write, WriteFails, WriteEnds, WriterStops, ReaderFails,
                      CloseEnds, requestVars
  <1>4. ASSUME NEW q \in Requests, ReadsAnswer(q) PROVE AnswerIsMine'
    BY <1>a, <1>4 DEF ReadsAnswer, ReadAnswer, TakenForIndication, requestVars
  <1>5. CASE UNCHANGED <<requestVars, writeVars>>
    BY <1>a, <1>5 DEF requestVars
  <1> QED
    BY <1>1, <1>2, <1>3, <1>4, <1>5, RequestSteps

Owed(r) == pc[r] = "sent" \/ (pc[r] = "queued" /\ written[r] = "ok")

ToCome(r) ==
    \/ r \in asked
    \/ readerPc = "answer" /\ hand = [entry |-> r, packet |-> r]
    \/ inbox[r] = r

LEMMA NoAnswerLostKept ==
  /\ TypeOK /\ HandOK /\ Fresh /\ Unique /\ Table /\ Listed
  /\ AnswerIsMine /\ NoAnswerLost /\ [Next]_vars
  => NoAnswerLost'
  <1> SUFFICES ASSUME TypeOK, HandOK, Fresh, Unique, Table, Listed, AnswerIsMine,
                      NoAnswerLost, [Next]_vars, NEW r \in Requests, Alone(r)', Owed(r)'
               PROVE  ToCome(r)'
    BY DEF NoAnswerLost, Owed, ToCome
  <1> USE DEF TypeOK, RequestTypes, WriterTypes, Goto
  <1>0. Alone(r)
    BY AloneBefore
  <1>1. Owed(r) => ToCome(r)
    BY <1>0 DEF NoAnswerLost, Owed, ToCome
  (* Only SendAnswer takes an answer out of the reader's hand. *)
  <1>2. ASSUME Owed(r), ~SendAnswer, asked \subseteq asked', inbox'[r] = inbox[r]
        PROVE  ToCome(r)'
    BY <1>1, <1>2, AnswerInHand DEF ToCome, readVars
  <1>3. ASSUME NEW q \in Requests, NEW s \in Services, Register(q, s) PROVE ToCome(r)'
    <2>1. Owed(r) /\ asked' = asked /\ inbox'[r] = inbox[r] /\ readerPc' = readerPc /\ hand' = hand
      BY <1>3 DEF Register, Owed, writeVars, readVars
    <2> QED
      BY <1>1, <2>1 DEF ToCome
  <1>4. ASSUME NEW q \in Requests,
               \/ QueueWrite(q) \/ TakeResult(q) \/ TakeAnswer(q)
               \/ Deadline(q) \/ SeeClosed(q) \/ completeTransaction(q)
        PROVE  ToCome(r)'
    <2>1. Owed(r) /\ asked' = asked /\ inbox'[r] = inbox[r]
      BY <1>4, ClientAssumption DEF QueueWrite, TakeResult, TakeAnswer, Deadline, SeeClosed,
             completeTransaction, Owed, Waiting, Fresh, writeVars
    <2>2. readerPc' = readerPc /\ hand' = hand
      BY <1>4 DEF QueueWrite, TakeResult, TakeAnswer, Deadline, SeeClosed, completeTransaction,
             readVars
    <2> QED
      BY <1>1, <2>1, <2>2 DEF ToCome
  <1>5. CASE Write
    <2>1. CASE r = writer
      BY <1>5, <2>1 DEF Write, ToCome
    <2>2. CASE r # writer
      <3>1. Owed(r) /\ asked \subseteq asked' /\ inbox' = inbox /\ readerPc' = readerPc /\ hand' = hand
        BY <1>5, <2>2 DEF Write, WriteEnds, Owed, readVars
      <3> QED
        BY <1>1, <3>1 DEF ToCome
    <2> QED
      BY <2>1, <2>2
  <1>6. CASE TakeWrite \/ WriteFails \/ WriterStops
    <2>1. Owed(r) /\ asked' = asked /\ inbox' = inbox /\ readerPc' = readerPc /\ hand' = hand
      BY <1>6 DEF TakeWrite, WriteFails, WriteEnds, WriterStops, Owed, requestVars, readVars
    <2> QED
      BY <1>1, <2>1 DEF ToCome
  <1>7. ASSUME NEW q \in Requests, ReadsAnswer(q) PROVE ToCome(r)'
    <2>1. Owed(r) /\ asked' = asked \ {q} /\ inbox' = inbox /\ readerPc = "read" /\ q \in asked
      BY <1>7 DEF ReadsAnswer, ReadAnswer, TakenForIndication, requestVars, Owed
    <2>2. CASE q # r
      BY <1>1, <2>1, <2>2 DEF ToCome
    <2>3. CASE q = r
      <3>1. EntryFor(key[r], FALSE) = r
        BY <1>0, <2>1 DEF Listed, Owed, EntryFor
      <3>2. ReadAnswer(r)
        BY <1>7, <2>3, <3>1, ClientAssumption DEF ReadsAnswer, TakenForIndication
      <3>3. Answer(r, r)
        BY <3>1, <3>2, ClientAssumption DEF ReadAnswer
      <3> QED
        BY <3>3 DEF Answer, ToCome
    <2> QED
      BY <2>2, <2>3
  <1>8. CASE SendAnswer
    <2>1. Owed(r) /\ asked' = asked /\ readerPc = "answer"
      BY <1>8 DEF SendAnswer, Owed
    <2>2. PICK q \in Requests : \E x \in {q} \cup rivals[q] : hand = [entry |-> q, packet |-> x]
      BY <2>1 DEF HandOK
    <2>a. PICK x \in {q} \cup rivals[q] : hand = [entry |-> q, packet |-> x]
      BY <2>2
    <2>3. /\ hand.entry = q /\ hand.packet = x
          /\ inbox' = [inbox EXCEPT ![q] = IF inbox[q] = None THEN x ELSE @]
      BY <1>8, <2>a DEF SendAnswer, HasRoom
    <2>b. inbox[r] \in {r, None} /\ (q = r => x = r)
      BY <1>0, <2>a DEF AnswerIsMine, Alone
    <2>4. CASE r \in asked \/ inbox[r] = r
      BY <2>1, <2>3, <2>4, ClientAssumption DEF ToCome
    <2>5. CASE q = r
      BY <2>3, <2>5, <2>b DEF ToCome
    <2> QED
      BY <1>1, <2>1, <2>a, <2>4, <2>5 DEF ToCome
  <1>9. CASE ReaderFails \/ CloseEnds
    <2>1. Owed(r) /\ asked' = asked /\ inbox' = inbox /\ ~SendAnswer
      BY <1>9 DEF ReaderFails, CloseEnds, LoopsStopped, SendAnswer, Owed, writeVars
    <2> QED
      BY <1>2, <2>1
  <1>10. CASE UNCHANGED <<requestVars, writeVars>> /\ ~SendAnswer
    <2>1. Owed(r) /\ asked' = asked /\ inbox' = inbox
      BY <1>10 DEF requestVars, writeVars, Owed
    <2> QED
      BY <1>2, <1>10, <2>1
  <1> QED
    BY <1>3, <1>4, <1>5, <1>6, <1>7, <1>8, <1>9, <1>10, RequestSteps DEF Caller, Writer

LEMMA NextIInv == IInv /\ [Next]_vars => IInv'
  <1> SUFFICES ASSUME IInv, [Next]_vars PROVE IInv'
    OBVIOUS
  <1>1. TypeOK' /\ HandOK' /\ Fresh'
    BY NextTypeOK, HandOKKept, FreshKept DEF IInv
  <1>2. Unique' /\ Table' /\ Listed' /\ Stopped'
    BY UniqueKept, TableKept, StoppedKept DEF IInv
  <1>3. NoSendOnClosed'
    BY <1>2 DEF NoSendOnClosed, Listed, Stopped
  <1>4. AnswerIsMine' /\ NoAnswerLost'
    BY AnswerIsMineKept, NoAnswerLostKept DEF IInv
  <1> QED
    BY <1>1, <1>2, <1>3, <1>4 DEF IInv

(* The invariant that carries the theorems below. *)
THEOREM InductiveInvariant == Spec => []IInv
  BY InitIInv, NextIInv, PTL DEF Spec

-----------------------------------------------------------------------------
(* Every variable of the client stays in its type, and no transaction id
   outgrows the width its service sends it in. *)
THEOREM TypeCorrect == Spec => []TypeOK
  BY InductiveInvariant, PTL DEF IInv

(* readLoop never sends on a response channel that failPendingTransactions
   closed, nor indicationLoop on the event channel that Close closed. *)
THEOREM NeverSendsOnClosed == Spec => []NoSendOnClosed
  BY InductiveInvariant, PTL DEF IInv

(* What lies in a caller's response channel is the answer to its request, or
   to an older one that was outstanding when the ids came round to its id;
   never an indication, never the answer of another service or id. *)
THEOREM AnswersAreMine == Spec => []AnswerIsMine
  BY InductiveInvariant, PTL DEF IInv

(* The answer to a written request whose caller waits is still to come, in
   the reader's hand, or in the caller's channel, unless another request had
   its id at the same time. *)
THEOREM AnswersAreKept == Spec => []NoAnswerLost
  BY InductiveInvariant, PTL DEF IInv

(* The table holds no request that is over, which a later answer would find;
   what it holds under a key is the newest with that key (its older rivals are
   gone for good); and as long as the reader lives it holds every live request
   that has its id for itself. *)
TableListsTheLive ==
    /\ \A k \in Keys : transactions[k] # None =>
          /\ key[transactions[k]] = k /\ pc[transactions[k]] \notin {"new", "ended"}
          /\ \A q \in Requests : transactions[k] \notin rivals[q]
    /\ readerPc # "exited" =>
          \A r \in Requests :
              Alone(r) /\ pc[r] \notin {"new", "ended"} => transactions[key[r]] = r

(* Whatever way a call ends (answer, error, deadline, Close), its entry is out
   of the table, and the entry of a request with an id of its own stays. *)
THEOREM TheTableIsExact == Spec => []TableListsTheLive
  <1>1. IInv => TableListsTheLive
    BY DEF IInv, Table, Listed, TableListsTheLive
  <1> QED
    BY <1>1, InductiveInvariant, PTL

-----------------------------------------------------------------------------
(* The newest indication is kept.  It can be lost only where a newer number  *)
(* is overwritten or outrun by an older one, so the argument is about the    *)
(* numbers: what the reader holds is the newest of its kind, and nothing     *)
(* anywhere is newer than what was received.                                 *)

Numbered ==
    /\ \A k \in Coalesced : delivered[k] <= received[k] /\ stored[k] <= received[k]
    /\ \A i \in DOMAIN indicationInCh :
          indicationInCh[i].kind \in Coalesced =>
              indicationInCh[i].n <= received[indicationInCh[i].kind]
    /\ loopPc = "deliver" /\ out.kind \in Coalesced => out.n <= received[out.kind]
    /\ readerPc \in {"enqueue", "store"} /\ hand.kind \in Coalesced =>
          hand.n = received[hand.kind]
    /\ readerPc = "waitForRoom" => hand.kind \notin Coalesced

newsVars == <<readerPc, hand, indicationInCh, stored, order, loopPc, out, delivered, received>>

(* The steps that move indications; any other leaves them where they are.    *)
LEMMA NewsSteps ==
  ASSUME [Next]_vars
  PROVE  \/ \E q \in Requests : ReadAnswer(q)
         \/ \E kind \in Coalesced \cup Edges : Arrives(kind)
         \/ SendAnswer \/ EnqueueEvent \/ QueueIsFull \/ DropEdge
         \/ storeCoalescedEvent \/ SignalCoalesced \/ ReaderFails \/ ReaderStops
         \/ popCoalescedEvent \/ TakeIndication \/ TakeSignal \/ deliverEvent \/ LoopStops
         \/ UNCHANGED newsVars
  BY Arrivals DEF Next, Caller, Writer, Reader, Loop, vars, Register, QueueWrite, TakeResult,
         TakeAnswer, Deadline, SeeClosed, completeTransaction, TakeWrite, Write, WriteFails,
         WriteEnds, WriterStops, TakeEvent, Unplugged, CloseBegins, CloseEnds, newsVars, readVars,
         queueVars, loopVars

(* Close is not taken back. *)
LEMMA ClosingStays ==
  ASSUME [Next]_vars, Closing
  PROVE  Closing'
  BY DEF Closing, Next, Caller, Writer, Reader, Loop, vars, Register, QueueWrite, TakeResult,
         TakeAnswer, Deadline, SeeClosed, completeTransaction, TakeWrite, Write, WriteFails,
         WriteEnds, WriterStops, ReadAnswer, TakenForIndication, ReadIndication, Count,
         SendAnswer, EnqueueEvent, QueueIsFull, DropEdge, storeCoalescedEvent, SignalCoalesced,
         ReaderFails, ReaderStops, popCoalescedEvent, TakeIndication, TakeSignal, deliverEvent,
         LoopStops, TakeEvent, Unplugged, CloseBegins, CloseEnds, closeVars

(* What the queue of indications holds after one came or went.               *)
LEMMA QueueFacts ==
  ASSUME NEW s \in Seq(Events), NEW e \in Events
  PROVE  /\ \A i \in DOMAIN s : i \in DOMAIN Append(s, e) /\ Append(s, e)[i] = s[i]
         /\ Len(s) + 1 \in DOMAIN Append(s, e) /\ Append(s, e)[Len(s) + 1] = e
         /\ \A i \in DOMAIN Append(s, e) :
               Append(s, e)[i] = e \/ (i \in DOMAIN s /\ Append(s, e)[i] = s[i])
         /\ s # <<>> =>
               /\ 1 \in DOMAIN s /\ Head(s) = s[1]
               /\ \A i \in DOMAIN Tail(s) : i + 1 \in DOMAIN s /\ Tail(s)[i] = s[i + 1]
               /\ \A i \in DOMAIN s : i = 1 \/ (i - 1 \in DOMAIN Tail(s) /\ Tail(s)[i - 1] = s[i])
  OBVIOUS

(* Every step keeps the numbers in order.                                    *)
LEMMA NumberedStep ==
  ASSUME IInv, Numbered, [Next]_vars
  PROVE  Numbered'
  <1>0. /\ received \in [Coalesced \cup Edges -> Nat] /\ delivered \in [Kinds -> Nat]
        /\ stored \in [Coalesced -> Nat] /\ order \in Seq(Coalesced)
        /\ indicationInCh \in Seq(Events)
        /\ \A e \in Events : e.n \in Nat /\ e.kind \in Kinds
        /\ "unknown" \notin Coalesced /\ Coalesced \subseteq Kinds
    BY ClientAssumption DEF IInv, TypeOK, EventTypes, Events, Kinds
  <1>1. ASSUME NEW q \in Requests, ReadAnswer(q) PROVE Numbered'
    <2>1. UNCHANGED <<indicationInCh, stored, loopPc, out, delivered, received>>
      BY <1>1 DEF ReadAnswer, queueVars, loopVars
    <2>2. readerPc' \in {"enqueue", "store", "waitForRoom"} => hand'.kind = "unknown"
      <3>1. \/ readerPc' \in {"read", "answer"}
            \/ hand' = [kind |-> "unknown", n |-> 0]
        BY <1>1 DEF ReadAnswer, Answer, Enqueue, readVars
      <3> QED
        BY <3>1
    <2> QED
      BY <1>0, <2>1, <2>2 DEF Numbered
  <1>2. ASSUME NEW kind \in Coalesced \cup Edges, Arrives(kind)
        PROVE  Numbered'
    <2>1. UNCHANGED <<indicationInCh, stored, loopPc, out, delivered>>
      BY <1>2 DEF Arrives, Count, queueVars, loopVars
    <2>2. /\ readerPc' = "enqueue" /\ hand' = [kind |-> kind, n |-> received[kind] + 1]
          /\ received' = [received EXCEPT ![kind] = @ + 1]
      BY <1>2 DEF Arrives, Count, Enqueue
    <2>3. \A j \in Coalesced, n \in Nat : n <= received[j] => n <= received'[j]
      <3>1. \A j \in Coalesced \cup Edges : received[j] \in Nat /\ received'[j] \in Nat
                                              /\ received[j] <= received'[j]
        BY <1>0, <2>2
      <3> QED
        BY <3>1
    <2>4. hand'.n = received'[hand'.kind]
      BY <1>0, <2>2
    <2>5. ASSUME NEW j \in Coalesced
          PROVE  delivered[j] <= received'[j] /\ stored[j] <= received'[j]
      <3>1. delivered[j] \in Nat /\ stored[j] \in Nat
        BY <1>0
      <3> QED
        BY <2>3, <3>1 DEF Numbered
    <2>6. ASSUME NEW i \in DOMAIN indicationInCh, indicationInCh[i].kind \in Coalesced
          PROVE  indicationInCh[i].n <= received'[indicationInCh[i].kind]
      <3>1. indicationInCh[i].n \in Nat
        BY <1>0
      <3> QED
        BY <2>3, <2>6, <3>1 DEF Numbered
    <2>7. ASSUME loopPc = "deliver", out.kind \in Coalesced
          PROVE  out.n <= received'[out.kind]
      <3>1. out.n \in Nat
        BY <1>0, <2>7 DEF IInv, HandOK
      <3> QED
        BY <2>3, <2>7, <3>1 DEF Numbered
    <2> QED
      BY <2>1, <2>2, <2>4, <2>5, <2>6, <2>7 DEF Numbered
  <1>3. CASE SendAnswer \/ DropEdge \/ SignalCoalesced \/ ReaderFails \/ ReaderStops
    <2>1. /\ readerPc' \in {"read", "exited"}
          /\ UNCHANGED <<indicationInCh, stored, loopPc, out, delivered, received>>
      BY <1>3 DEF SendAnswer, DropEdge, SignalCoalesced, ReaderFails, ReaderStops, ReaderDone,
                  queueVars, loopVars
    <2> QED
      BY <2>1 DEF Numbered
  <1>4. CASE EnqueueEvent
    <2>1. /\ readerPc' = "read" /\ indicationInCh' = Append(indicationInCh, hand)
          /\ UNCHANGED <<stored, loopPc, out, delivered, received>>
      BY <1>4 DEF EnqueueEvent, ReaderDone, loopVars
    <2>2. hand \in Events /\ (hand.kind \in Coalesced => hand.n = received[hand.kind])
      BY <1>4 DEF EnqueueEvent, IInv, HandOK, Numbered
    <2>3. ASSUME NEW i \in DOMAIN indicationInCh', indicationInCh'[i].kind \in Coalesced
          PROVE  indicationInCh'[i].n <= received[indicationInCh'[i].kind]
      <3>1. indicationInCh'[i] = hand \/ (i \in DOMAIN indicationInCh /\ indicationInCh'[i] = indicationInCh[i])
        BY <1>0, <2>1, <2>2, QueueFacts
      <3>2. CASE indicationInCh'[i] = hand
        BY <1>0, <2>2, <2>3, <3>2
      <3> QED
        BY <2>3, <3>1, <3>2 DEF Numbered
    <2> QED
      BY <2>1, <2>3 DEF Numbered
  <1>5. CASE QueueIsFull
    <2>1. /\ readerPc = "enqueue" /\ hand' = hand
          /\ readerPc' = IF hand.kind \in Coalesced THEN "store" ELSE "waitForRoom"
          /\ UNCHANGED <<indicationInCh, stored, loopPc, out, delivered, received>>
      BY <1>5 DEF QueueIsFull, queueVars, loopVars
    <2> QED
      BY <2>1 DEF Numbered
  <1>6. CASE storeCoalescedEvent
    <2>1. /\ readerPc = "store" /\ readerPc' = "signal"
          /\ stored' = [stored EXCEPT ![hand.kind] = hand.n]
          /\ UNCHANGED <<indicationInCh, loopPc, out, delivered, received>>
      BY <1>6 DEF storeCoalescedEvent, ReaderDone, loopVars
    <2>2. hand.kind \in Coalesced /\ hand.n = received[hand.kind]
      BY <2>1 DEF IInv, HandOK, Numbered
    <2>3. \A k \in Coalesced : stored'[k] <= received[k]
      BY <1>0, <2>1, <2>2 DEF Numbered
    <2> QED
      BY <2>1, <2>3 DEF Numbered
  <1>7. CASE popCoalescedEvent
    <2>1. UNCHANGED <<readerPc, hand, indicationInCh, delivered, received>>
      BY <1>7 DEF popCoalescedEvent, readVars
    <2>2. CASE order = <<>>
      <3>1. loopPc' = "select" /\ stored' = stored
        BY <1>7, <2>2 DEF popCoalescedEvent
      <3> QED
        BY <2>1, <3>1 DEF Numbered
    <2>3. CASE order # <<>>
      <3>1. /\ out' = [kind |-> Head(order), n |-> stored[Head(order)]]
            /\ stored' = [stored EXCEPT ![Head(order)] = 0]
        BY <1>7, <2>3 DEF popCoalescedEvent
      <3>2. Head(order) \in Coalesced
        BY <1>0, <2>3
      <3>3. \A k \in Coalesced : stored'[k] <= received[k]
        BY <1>0, <3>1 DEF Numbered
      <3>4. out'.n <= received[out'.kind]
        BY <3>1, <3>2 DEF Numbered
      <3> QED
        BY <2>1, <3>3, <3>4 DEF Numbered
    <2> QED
      BY <2>2, <2>3
  <1>8. CASE TakeIndication
    <2>1. /\ indicationInCh # <<>>
          /\ out' = Head(indicationInCh) /\ indicationInCh' = Tail(indicationInCh)
          /\ UNCHANGED <<readerPc, hand, stored, delivered, received>>
      BY <1>8 DEF TakeIndication, readVars
    <2>2. /\ 1 \in DOMAIN indicationInCh /\ out' = indicationInCh[1]
          /\ \A i \in DOMAIN indicationInCh' :
                i + 1 \in DOMAIN indicationInCh /\ indicationInCh'[i] = indicationInCh[i + 1]
      BY <1>0, <2>1
    <2> QED
      BY <2>1, <2>2 DEF Numbered
  <1>9. CASE TakeSignal \/ LoopStops
    <2>1. /\ loopPc' \in {"pop", "exited"}
          /\ UNCHANGED <<readerPc, hand, indicationInCh, stored, delivered, received>>
      BY <1>9 DEF TakeSignal, LoopStops, readVars, queueVars
    <2> QED
      BY <2>1 DEF Numbered
  <1>10. CASE deliverEvent
    <2>1. /\ loopPc = "deliver" /\ loopPc' = "pop"
          /\ delivered' = [delivered EXCEPT ![out.kind] = IF out.n > @ THEN out.n ELSE @]
          /\ UNCHANGED <<readerPc, hand, indicationInCh, stored, received>>
      BY <1>10 DEF deliverEvent, AfterDelivery, readVars, queueVars
    <2>2. \A k \in Coalesced : delivered'[k] <= received[k]
      BY <1>0, <2>1 DEF Numbered
    <2> QED
      BY <2>1, <2>2 DEF Numbered
  <1>11. CASE UNCHANGED newsVars
    BY <1>11 DEF newsVars, Numbered
  <1> QED
    BY <1>1, <1>2, <1>3, <1>4, <1>5, <1>6, <1>7, <1>8, <1>9, <1>10, <1>11, NewsSteps

(* The newest of kind k is delivered or on its way. *)
Kept(k) == delivered[k] = received[k] \/ OnItsWay([kind |-> k, n |-> received[k]])

(* Every step keeps the newest: what leaves one place reaches the next.       *)
LEMMA KeptStep ==
  ASSUME IInv, Numbered, NewestIsKept, [Next]_vars
  PROVE  NewestIsKept'
  <1> SUFFICES ASSUME NEW k \in Coalesced, ~Closing' PROVE Kept(k)'
    BY DEF NewestIsKept, Kept
  <1> DEFINE e == [kind |-> k, n |-> received[k]]
  <1>0. /\ received \in [Coalesced \cup Edges -> Nat] /\ delivered \in [Kinds -> Nat]
        /\ stored \in [Coalesced -> Nat] /\ order \in Seq(Coalesced)
        /\ indicationInCh \in Seq(Events)
        /\ \A x \in Events : x.n \in Nat /\ x.kind \in Kinds
        /\ Coalesced \subseteq Kinds
    BY ClientAssumption DEF IInv, TypeOK, EventTypes, Events, Kinds
  <1>a. \/ delivered[k] = received[k]
        \/ readerPc \in {"enqueue", "store"} /\ hand = e
        \/ \E i \in DOMAIN indicationInCh : indicationInCh[i] = e
        \/ stored[k] = received[k]
        \/ loopPc = "deliver" /\ out = e
    BY ClosingStays DEF NewestIsKept, OnItsWay
  <1>b. ASSUME received'[k] = received[k],
               \/ delivered'[k] = received[k]
               \/ readerPc' \in {"enqueue", "store"} /\ hand' = e
               \/ \E i \in DOMAIN indicationInCh' : indicationInCh'[i] = e
               \/ stored'[k] = received[k]
               \/ loopPc' = "deliver" /\ out' = e
        PROVE  Kept(k)'
    BY <1>b DEF Kept, OnItsWay
  <1>1. ASSUME NEW q \in Requests, ReadAnswer(q) PROVE Kept(k)'
    <2>1. /\ readerPc = "read"
          /\ UNCHANGED <<indicationInCh, stored, loopPc, out, delivered, received>>
      BY <1>1 DEF ReadAnswer, queueVars, loopVars
    <2> QED
      BY <1>a, <1>b, <2>1
  <1>2. ASSUME NEW kind \in Coalesced \cup Edges, Arrives(kind)
        PROVE  Kept(k)'
    <2>1. /\ readerPc = "read"
          /\ UNCHANGED <<indicationInCh, stored, loopPc, out, delivered>>
      BY <1>2 DEF Arrives, Count, queueVars, loopVars
    <2>2. /\ readerPc' = "enqueue" /\ hand' = [kind |-> kind, n |-> received[kind] + 1]
          /\ received' = [received EXCEPT ![kind] = @ + 1]
      BY <1>2 DEF Arrives, Count, Enqueue
    <2>3. CASE kind = k
      <3>1. hand' = [kind |-> k, n |-> received'[k]]
        BY <1>0, <2>2, <2>3
      <3> QED
        BY <2>2, <3>1 DEF Kept, OnItsWay
    <2>4. CASE kind # k
      <3>1. received'[k] = received[k]
        BY <1>0, <2>2, <2>4
      <3> QED
        BY <1>a, <1>b, <2>1, <3>1
    <2> QED
      BY <2>3, <2>4
  <1>3. CASE SendAnswer \/ SignalCoalesced \/ ReaderFails \/ ReaderStops
    <2>1. /\ readerPc \notin {"enqueue", "store"}
          /\ UNCHANGED <<indicationInCh, stored, loopPc, out, delivered, received>>
      BY <1>3 DEF SendAnswer, SignalCoalesced, ReaderFails, ReaderStops, queueVars, loopVars
    <2> QED
      BY <1>a, <1>b, <2>1
  <1>4. CASE DropEdge
    <2>1. UNCHANGED <<indicationInCh, stored, loopPc, out, delivered, received>>
      BY <1>4 DEF DropEdge, queueVars, loopVars
    <2>2. ~(readerPc \in {"enqueue", "store"} /\ hand = e)
      BY <1>4 DEF DropEdge
    <2> QED
      BY <1>a, <1>b, <2>1, <2>2
  <1>5. CASE EnqueueEvent
    <2>1. /\ indicationInCh' = Append(indicationInCh, hand) /\ hand \in Events
          /\ UNCHANGED <<stored, loopPc, out, delivered, received>>
      BY <1>5 DEF EnqueueEvent, loopVars, IInv, HandOK
    <2>2. /\ \A i \in DOMAIN indicationInCh :
                i \in DOMAIN indicationInCh' /\ indicationInCh'[i] = indicationInCh[i]
          /\ Len(indicationInCh) + 1 \in DOMAIN indicationInCh'
          /\ indicationInCh'[Len(indicationInCh) + 1] = hand
      BY <1>0, <2>1, QueueFacts
    <2> QED
      BY <1>a, <1>b, <2>1, <2>2
  <1>6. CASE QueueIsFull
    <2>1. /\ readerPc = "enqueue" /\ hand' = hand
          /\ readerPc' = IF hand.kind \in Coalesced THEN "store" ELSE "waitForRoom"
          /\ UNCHANGED <<indicationInCh, stored, loopPc, out, delivered, received>>
      BY <1>6 DEF QueueIsFull, queueVars, loopVars
    <2> QED
      BY <1>a, <1>b, <2>1
  <1>7. CASE storeCoalescedEvent
    <2>1. /\ readerPc = "store" /\ stored' = [stored EXCEPT ![hand.kind] = hand.n]
          /\ UNCHANGED <<indicationInCh, loopPc, out, delivered, received>>
      BY <1>7 DEF storeCoalescedEvent, loopVars
    <2>2. hand.kind \in Coalesced /\ hand.n = received[hand.kind]
      BY <2>1 DEF IInv, HandOK, Numbered
    <2>3. CASE hand.kind = k
      <3>1. stored'[k] = received[k]
        BY <1>0, <2>1, <2>2, <2>3
      <3> QED
        BY <1>b, <2>1, <3>1
    <2>4. CASE hand.kind # k
      <3>1. stored'[k] = stored[k] /\ hand # e
        BY <1>0, <2>1, <2>4
      <3> QED
        BY <1>a, <1>b, <2>1, <3>1
    <2> QED
      BY <2>3, <2>4
  <1>8. CASE popCoalescedEvent
    <2>1. /\ loopPc = "pop"
          /\ UNCHANGED <<readerPc, hand, indicationInCh, delivered, received>>
      BY <1>8 DEF popCoalescedEvent, readVars
    <2>2. CASE order = <<>>
      <3>1. stored' = stored
        BY <1>8, <2>2 DEF popCoalescedEvent
      <3> QED
        BY <1>a, <1>b, <2>1, <3>1
    <2>3. CASE order # <<>>
      <3>1. /\ out' = [kind |-> Head(order), n |-> stored[Head(order)]]
            /\ stored' = [stored EXCEPT ![Head(order)] = 0] /\ loopPc' = "deliver"
        BY <1>8, <2>3 DEF popCoalescedEvent
      <3>2. CASE Head(order) = k
        BY <1>a, <1>b, <2>1, <3>1, <3>2
      <3>3. CASE Head(order) # k
        <4>1. stored'[k] = stored[k]
          BY <1>0, <3>1, <3>3
        <4> QED
          BY <1>a, <1>b, <2>1, <4>1
      <3> QED
        BY <3>2, <3>3
    <2> QED
      BY <2>2, <2>3
  <1>9. CASE TakeIndication
    <2>1. /\ indicationInCh # <<>> /\ loopPc = "select" /\ loopPc' = "deliver"
          /\ out' = Head(indicationInCh) /\ indicationInCh' = Tail(indicationInCh)
          /\ UNCHANGED <<readerPc, hand, stored, delivered, received>>
      BY <1>9 DEF TakeIndication, readVars
    <2>2. \A i \in DOMAIN indicationInCh :
             \/ i = 1 /\ out' = indicationInCh[1]
             \/ i - 1 \in DOMAIN indicationInCh' /\ indicationInCh'[i - 1] = indicationInCh[i]
      BY <1>0, <2>1
    <2> QED
      BY <1>a, <1>b, <2>1, <2>2
  <1>10. CASE TakeSignal
    <2>1. /\ loopPc = "select"
          /\ UNCHANGED <<readerPc, hand, indicationInCh, stored, delivered, received>>
      BY <1>10 DEF TakeSignal, readVars
    <2> QED
      BY <1>a, <1>b, <2>1
  <1>11. CASE deliverEvent
    <2>1. /\ loopPc = "deliver"
          /\ delivered' = [delivered EXCEPT ![out.kind] = IF out.n > @ THEN out.n ELSE @]
          /\ UNCHANGED <<readerPc, hand, indicationInCh, stored, received>>
      BY <1>11 DEF deliverEvent, readVars, queueVars
    <2>2. out.n \in Nat
      BY <1>0, <2>1 DEF IInv, HandOK
    <2>3. CASE out = e
      <3>1. delivered[k] \in Nat /\ received[k] \in Nat /\ delivered[k] <= received[k]
        BY <1>0 DEF Numbered
      <3>2. delivered'[k] = received[k]
        BY <1>0, <2>1, <2>3, <3>1
      <3> QED
        BY <1>b, <2>1, <3>2
    <2>4. CASE delivered[k] = received[k]
      <3>1. out.kind = k => out.n <= received[k]
        BY <2>1 DEF Numbered
      <3>2. delivered'[k] = received[k]
        BY <1>0, <2>1, <2>2, <2>4, <3>1
      <3> QED
        BY <1>b, <2>1, <3>2
    <2> QED
      BY <1>a, <1>b, <2>1, <2>3, <2>4
  <1>12. CASE LoopStops
    <2>1. Closing
      BY <1>12 DEF LoopStops
    <2> QED
      BY <2>1, ClosingStays
  <1>13. CASE UNCHANGED newsVars
    <2>1. UNCHANGED <<readerPc, hand, indicationInCh, stored, loopPc, out, delivered, received>>
      BY <1>13 DEF newsVars
    <2> QED
      BY <1>a, <1>b, <2>1
  <1> QED
    BY <1>1, <1>2, <1>3, <1>4, <1>5, <1>6, <1>7, <1>8, <1>9, <1>10, <1>11, <1>12, <1>13, NewsSteps

(* For any kinds, queues and number of indications, and however the reader   *)
(* and the indication loop interleave: the newest indication of a kind with  *)
(* a coalescing key is delivered or on its way, until the client closes.     *)
THEOREM TheNewestIsKept == Spec => []NewestIsKept
  <1>1. Init => Numbered /\ NewestIsKept
    BY ClientAssumption DEF Init, Numbered, NewestIsKept, Kinds
  <1>2. IInv /\ Numbered /\ NewestIsKept /\ [Next]_vars => Numbered' /\ NewestIsKept'
    BY NumberedStep, KeptStep
  <1> QED
    BY <1>1, <1>2, InductiveInvariant, PTL DEF Spec

-----------------------------------------------------------------------------
(* The store is served.  What is stored while the queue is full is found     *)
(* through `order` alone, and looked for only when the loop comes by: the    *)
(* loop must not go to sleep on a store that is not empty, and the signal    *)
(* that wakes it is sent after the store has been left.                      *)

(* What is stored is listed, once and as a real event; and while the loop    *)
(* sleeps in its select the signal is there, or the reader is about to send  *)
(* it.                                                                       *)
StoreIsServed ==
    /\ \A k \in Coalesced : stored[k] # 0 => \E i \in DOMAIN order : order[i] = k
    /\ \A i \in DOMAIN order : stored[order[i]] # 0
    /\ \A i, j \in DOMAIN order : order[i] = order[j] => i = j
    /\ order # <<>> /\ loopPc = "select" => coalescedSignal \/ readerPc = "signal"

(* An event on its way to the store has a number. *)
HandIsNumbered ==
    readerPc \in {"enqueue", "store"} /\ hand.kind \in Coalesced => hand.n # 0

(* What a list without repetitions holds after one came or went.             *)
LEMMA OrderFacts ==
  ASSUME NEW s \in Seq(Coalesced), \A i, j \in DOMAIN s : s[i] = s[j] => i = j
  PROVE  /\ \A k \in Coalesced : (\A i \in DOMAIN s : s[i] # k) =>
               /\ \A i \in DOMAIN s : i \in DOMAIN Append(s, k) /\ Append(s, k)[i] = s[i]
               /\ \E i \in DOMAIN Append(s, k) : Append(s, k)[i] = k
               /\ \A i \in DOMAIN Append(s, k) :
                     Append(s, k)[i] = k \/ (i \in DOMAIN s /\ Append(s, k)[i] = s[i])
               /\ \A i, j \in DOMAIN Append(s, k) : Append(s, k)[i] = Append(s, k)[j] => i = j
         /\ s # <<>> =>
               /\ Head(s) \in Coalesced /\ \E i \in DOMAIN s : s[i] = Head(s)
               /\ \A i \in DOMAIN Tail(s) : i + 1 \in DOMAIN s /\ Tail(s)[i] = s[i + 1]
               /\ \A i \in DOMAIN Tail(s) : Tail(s)[i] # Head(s)
               /\ \A i \in DOMAIN s : s[i] = Head(s) \/ \E j \in DOMAIN Tail(s) : Tail(s)[j] = s[i]
               /\ \A i, j \in DOMAIN Tail(s) : Tail(s)[i] = Tail(s)[j] => i = j
  <1>1. ASSUME NEW k \in Coalesced, \A i \in DOMAIN s : s[i] # k
        PROVE  /\ \A i \in DOMAIN s : i \in DOMAIN Append(s, k) /\ Append(s, k)[i] = s[i]
               /\ \E i \in DOMAIN Append(s, k) : Append(s, k)[i] = k
               /\ \A i \in DOMAIN Append(s, k) :
                     Append(s, k)[i] = k \/ (i \in DOMAIN s /\ Append(s, k)[i] = s[i])
               /\ \A i, j \in DOMAIN Append(s, k) : Append(s, k)[i] = Append(s, k)[j] => i = j
    <2>1. /\ DOMAIN Append(s, k) = 1 .. Len(s) + 1 /\ DOMAIN s = 1 .. Len(s) /\ Len(s) \in Nat
          /\ Append(s, k)[Len(s) + 1] = k
          /\ \A i \in 1 .. Len(s) : Append(s, k)[i] = s[i]
      OBVIOUS
    <2> QED
      BY <1>1, <2>1
  <1>2. ASSUME s # <<>>
        PROVE  /\ Head(s) \in Coalesced /\ \E i \in DOMAIN s : s[i] = Head(s)
               /\ \A i \in DOMAIN Tail(s) : i + 1 \in DOMAIN s /\ Tail(s)[i] = s[i + 1]
               /\ \A i \in DOMAIN Tail(s) : Tail(s)[i] # Head(s)
               /\ \A i \in DOMAIN s : s[i] = Head(s) \/ \E j \in DOMAIN Tail(s) : Tail(s)[j] = s[i]
               /\ \A i, j \in DOMAIN Tail(s) : Tail(s)[i] = Tail(s)[j] => i = j
    <2>1. /\ DOMAIN s = 1 .. Len(s) /\ Len(s) \in Nat /\ Len(s) >= 1
          /\ DOMAIN Tail(s) = 1 .. Len(s) - 1 /\ Head(s) = s[1] /\ Head(s) \in Coalesced
          /\ \A i \in 1 .. Len(s) - 1 : Tail(s)[i] = s[i + 1]
      BY <1>2
    <2>2. \A i \in DOMAIN s : i = 1 \/ (i - 1 \in DOMAIN Tail(s) /\ Tail(s)[i - 1] = s[i])
      BY <2>1
    <2>3. \A i \in DOMAIN Tail(s) : Tail(s)[i] # Head(s)
      BY <2>1
    <2>4. \A i, j \in DOMAIN Tail(s) : Tail(s)[i] = Tail(s)[j] => i = j
      BY <2>1
    <2>5. \E i \in DOMAIN s : s[i] = Head(s)
      BY <2>1
    <2>6. \A i \in DOMAIN s : s[i] = Head(s) \/ \E j \in DOMAIN Tail(s) : Tail(s)[j] = s[i]
      BY <2>1, <2>2
    <2>7. \A i \in DOMAIN Tail(s) : i + 1 \in DOMAIN s /\ Tail(s)[i] = s[i + 1]
      BY <2>1
    <2> QED
      BY <2>1, <2>3, <2>4, <2>5, <2>6, <2>7
  <1> QED
    BY <1>1, <1>2

(* The steps that the store, the signal and what is on its way take part in. *)
LEMMA StoreSteps ==
  ASSUME [Next]_vars
  PROVE  \/ \E q \in Requests : ReadAnswer(q)
         \/ \E kind \in Coalesced \cup Edges : Arrives(kind)
         \/ SendAnswer \/ EnqueueEvent \/ QueueIsFull \/ DropEdge
         \/ storeCoalescedEvent \/ SignalCoalesced \/ ReaderFails \/ ReaderStops
         \/ popCoalescedEvent \/ TakeIndication \/ TakeSignal \/ deliverEvent \/ LoopStops
         \/ UNCHANGED newsVars /\ coalescedSignal' = coalescedSignal
  BY Arrivals DEF Next, Caller, Writer, Reader, Loop, vars, Register, QueueWrite, TakeResult,
         TakeAnswer, Deadline, SeeClosed, completeTransaction, TakeWrite, Write, WriteFails,
         WriteEnds, WriterStops, TakeEvent, Unplugged, CloseBegins, CloseEnds, newsVars, readVars,
         queueVars, loopVars

(* Every step keeps the store found and the loop awake.                      *)
LEMMA StoreStep ==
  ASSUME IInv, StoreIsServed, HandIsNumbered, [Next]_vars
  PROVE  StoreIsServed' /\ HandIsNumbered'
  <1>0. /\ received \in [Coalesced \cup Edges -> Nat]
        /\ stored \in [Coalesced -> Nat] /\ order \in Seq(Coalesced)
        /\ "unknown" \notin Coalesced
    BY ClientAssumption DEF IInv, TypeOK, EventTypes
  <1>a. ASSUME UNCHANGED <<stored, order, coalescedSignal>>, loopPc' = loopPc,
               readerPc # "signal" \/ readerPc' = "signal"
        PROVE  StoreIsServed'
    BY <1>a DEF StoreIsServed
  <1>1. ASSUME NEW q \in Requests, ReadAnswer(q) PROVE StoreIsServed' /\ HandIsNumbered'
    <2>1. readerPc = "read" /\ UNCHANGED <<stored, order, coalescedSignal, loopPc>>
      BY <1>1 DEF ReadAnswer, queueVars, loopVars
    <2>2. \/ readerPc' \in {"read", "answer"}
          \/ hand' = [kind |-> "unknown", n |-> 0]
      BY <1>1 DEF ReadAnswer, Answer, Enqueue, readVars
    <2> QED
      BY <1>0, <1>a, <2>1, <2>2 DEF HandIsNumbered
  <1>2. ASSUME NEW kind \in Coalesced \cup Edges, Arrives(kind)
        PROVE  StoreIsServed' /\ HandIsNumbered'
    <2>1. readerPc = "read" /\ UNCHANGED <<stored, order, coalescedSignal, loopPc>>
      BY <1>2 DEF Arrives, Count, queueVars, loopVars
    <2>2. hand' = [kind |-> kind, n |-> received[kind] + 1]
      BY <1>2 DEF Arrives, Count, Enqueue
    <2>3. hand'.n # 0
      BY <1>0, <2>2
    <2> QED
      BY <1>a, <2>1, <2>3 DEF HandIsNumbered
  <1>3. CASE SendAnswer \/ EnqueueEvent \/ DropEdge \/ ReaderFails \/ ReaderStops
    <2>1. /\ readerPc # "signal" /\ readerPc' \in {"read", "exited"}
          /\ UNCHANGED <<stored, order, coalescedSignal, loopPc>>
      BY <1>3 DEF SendAnswer, EnqueueEvent, DropEdge, ReaderFails, ReaderStops, ReaderDone,
                  queueVars, loopVars
    <2> QED
      BY <1>a, <2>1 DEF HandIsNumbered
  <1>4. CASE QueueIsFull
    <2>1. /\ readerPc = "enqueue" /\ hand' = hand
          /\ UNCHANGED <<stored, order, coalescedSignal, loopPc>>
      BY <1>4 DEF QueueIsFull, queueVars, loopVars
    <2> QED
      BY <1>a, <2>1 DEF HandIsNumbered
  <1>5. CASE storeCoalescedEvent
    <2>1. /\ readerPc = "store" /\ readerPc' = "signal"
          /\ order' = IF stored[hand.kind] = 0 THEN Append(order, hand.kind) ELSE order
          /\ stored' = [stored EXCEPT ![hand.kind] = hand.n]
      BY <1>5 DEF storeCoalescedEvent, ReaderDone
    <2>2. PICK h \in Coalesced : h = hand.kind
      BY <2>1 DEF IInv, HandOK
    <2>3. /\ stored'[h] # 0 /\ \A k \in Coalesced \ {h} : stored'[k] = stored[k]
      BY <1>0, <2>1, <2>2 DEF HandIsNumbered
    <2>4. CASE stored[h] = 0
      <3>1. order' = Append(order, h)
        BY <2>1, <2>2, <2>4
      <3>2. \A i \in DOMAIN order : order[i] # h
        BY <2>4 DEF StoreIsServed
      <3>3. /\ \A i \in DOMAIN order : i \in DOMAIN order' /\ order'[i] = order[i]
            /\ \E i \in DOMAIN order' : order'[i] = h
            /\ \A i \in DOMAIN order' : order'[i] = h \/ (i \in DOMAIN order /\ order'[i] = order[i])
            /\ \A i, j \in DOMAIN order' : order'[i] = order'[j] => i = j
        <4>1. PICK s \in Seq(Coalesced) : s = order
          BY <1>0
        <4>2. \A i, j \in DOMAIN s : s[i] = s[j] => i = j
          BY <4>1 DEF StoreIsServed
        <4> QED
          BY <3>1, <3>2, <4>1, <4>2, OrderFacts
      <3>4. \A i \in DOMAIN order : order[i] \in Coalesced
        BY <1>0
      <3> QED
        BY <2>1, <2>3, <3>3, <3>4 DEF StoreIsServed, HandIsNumbered
    <2>5. CASE stored[h] # 0
      <3>1. order' = order /\ \A i \in DOMAIN order : order[i] \in Coalesced
        BY <1>0, <2>1, <2>2, <2>5
      <3>2. \A k \in Coalesced : stored'[k] # 0 <=> stored[k] # 0
        BY <2>3, <2>5
      <3> QED
        BY <2>1, <3>1, <3>2 DEF StoreIsServed, HandIsNumbered
    <2> QED
      BY <2>4, <2>5
  <1>6. CASE SignalCoalesced
    <2>1. coalescedSignal' = TRUE /\ readerPc' = "read" /\ UNCHANGED <<stored, order>>
      BY <1>6 DEF SignalCoalesced, ReaderDone
    <2> QED
      BY <2>1 DEF StoreIsServed, HandIsNumbered
  <1>7. CASE popCoalescedEvent
    <2>1. UNCHANGED <<readerPc, hand>>
      BY <1>7 DEF popCoalescedEvent, readVars
    <2>2. HandIsNumbered'
      BY <2>1 DEF HandIsNumbered
    <2>3. CASE order = <<>>
      <3>1. UNCHANGED <<order, stored>>
        BY <1>7, <2>3 DEF popCoalescedEvent
      <3> QED
        BY <2>2, <2>3, <3>1 DEF StoreIsServed
    <2>4. CASE order # <<>>
      <3>1. PICK h \in Coalesced : h = Head(order)
        BY <1>0, <2>4
      <3>2. /\ order' = Tail(order) /\ stored' = [stored EXCEPT ![h] = 0] /\ loopPc' = "deliver"
        BY <1>7, <2>4, <3>1 DEF popCoalescedEvent
      <3>3. /\ \A i \in DOMAIN order' : i + 1 \in DOMAIN order /\ order'[i] = order[i + 1]
            /\ \A i \in DOMAIN order' : order'[i] # h
            /\ \A i \in DOMAIN order : order[i] = h \/ \E j \in DOMAIN order' : order'[j] = order[i]
            /\ \A i, j \in DOMAIN order' : order'[i] = order'[j] => i = j
        <4>1. PICK s \in Seq(Coalesced) : s = order /\ s # <<>>
          BY <1>0, <2>4
        <4>2. \A i, j \in DOMAIN s : s[i] = s[j] => i = j
          BY <4>1 DEF StoreIsServed
        <4> QED
          BY <3>1, <3>2, <4>1, <4>2, OrderFacts
      <3>4. /\ stored'[h] = 0 /\ \A k \in Coalesced \ {h} : stored'[k] = stored[k]
        BY <1>0, <3>2
      <3>5. \A i \in DOMAIN order : order[i] \in Coalesced
        BY <1>0
      <3>6. \A i \in DOMAIN order' : stored'[order'[i]] # 0
        BY <3>3, <3>4, <3>5 DEF StoreIsServed
      <3>7. \A k \in Coalesced : stored'[k] # 0 => \E i \in DOMAIN order' : order'[i] = k
        BY <3>3, <3>4 DEF StoreIsServed
      <3> QED
        BY <2>2, <3>2, <3>3, <3>6, <3>7 DEF StoreIsServed
    <2> QED
      BY <2>3, <2>4
  <1>8. CASE TakeIndication \/ TakeSignal \/ deliverEvent \/ LoopStops
    <2>1. /\ loopPc' # "select"
          /\ UNCHANGED <<stored, order, readerPc, hand>>
      BY <1>8 DEF TakeIndication, TakeSignal, deliverEvent, AfterDelivery, LoopStops,
                  readVars, queueVars
    <2> QED
      BY <2>1 DEF StoreIsServed, HandIsNumbered
  <1>9. CASE UNCHANGED newsVars /\ coalescedSignal' = coalescedSignal
    BY <1>9, <1>a DEF newsVars, HandIsNumbered
  <1> QED
    BY <1>1, <1>2, <1>3, <1>4, <1>5, <1>6, <1>7, <1>8, <1>9, StoreSteps

(* For any kinds, queues and number of indications: an event put aside       *)
(* because the queue was full is listed in order exactly once, and           *)
(* indicationLoop never sleeps on it: coalescedSignalCh is filled, or the    *)
(* reader stands right before it.                                            *)
THEOREM TheStoreIsServed == Spec => []StoreIsServed
  <1>1. Init => StoreIsServed /\ HandIsNumbered
    BY DEF Init, StoreIsServed, HandIsNumbered
  <1>2. IInv /\ StoreIsServed /\ HandIsNumbered /\ [Next]_vars => StoreIsServed' /\ HandIsNumbered'
    BY StoreStep
  <1> QED
    BY <1>1, <1>2, InductiveInvariant, PTL DEF Spec

-----------------------------------------------------------------------------
(* Edge events keep their order.  They have one way only, the queue, so each *)
(* place holds newer numbers than the places after it.  A kind with a        *)
(* coalescing key has no such order: what the store holds passes the queue.  *)

EdgeKinds == Edges \ {"unknown"}

(* Every delivery of an edge event is of a newer one than any of its kind    *)
(* delivered before: none comes twice and none after a newer one.            *)
EdgesInOrder ==
    loopPc = "deliver" /\ out.kind \in EdgeKinds => delivered[out.kind] < out.n

(* e waits, in its place, for the loop to deliver it. *)
InOrder(e) ==
    e.kind \in EdgeKinds => delivered[e.kind] < e.n /\ e.n <= received[e.kind]

(* d is delivered before e. *)
Before(d, e) == d.kind \in EdgeKinds /\ d.kind = e.kind => d.n < e.n

EdgesNumbered ==
    /\ \A k \in EdgeKinds : delivered[k] <= received[k]
    /\ \A i \in DOMAIN indicationInCh : InOrder(indicationInCh[i])
    /\ \A i, j \in DOMAIN indicationInCh :
          i < j => Before(indicationInCh[i], indicationInCh[j])
    /\ readerPc \in {"enqueue", "waitForRoom"} =>
          /\ InOrder(hand)
          /\ \A i \in DOMAIN indicationInCh : Before(indicationInCh[i], hand)
          /\ loopPc = "deliver" => Before(out, hand)
    /\ loopPc = "deliver" =>
          /\ InOrder(out)
          /\ \A i \in DOMAIN indicationInCh : Before(out, indicationInCh[i])

(* Every step keeps the order of the places.                                 *)
LEMMA EdgesStep ==
  ASSUME IInv, EdgesNumbered, [Next]_vars
  PROVE  EdgesNumbered'
  <1>0. /\ received \in [Coalesced \cup Edges -> Nat] /\ delivered \in [Kinds -> Nat]
        /\ indicationInCh \in Seq(Events)
        /\ \A e \in Events : e.n \in Nat /\ e.kind \in Kinds
        /\ EdgeKinds \subseteq Kinds /\ EdgeKinds \subseteq Edges
        /\ "unknown" \notin EdgeKinds /\ Coalesced \cap EdgeKinds = {}
    BY ClientAssumption DEF IInv, TypeOK, EventTypes, Events, Kinds, EdgeKinds
  <1>a. ASSUME UNCHANGED <<indicationInCh, out, delivered, received>>,
               loopPc' = "deliver" => loopPc = "deliver",
               readerPc' \in {"enqueue", "waitForRoom"} =>
                  readerPc \in {"enqueue", "waitForRoom"} /\ hand' = hand
        PROVE  EdgesNumbered'
    BY <1>a DEF EdgesNumbered, InOrder, Before
  <1>1. ASSUME NEW q \in Requests, ReadAnswer(q) PROVE EdgesNumbered'
    <2>1. UNCHANGED <<indicationInCh, loopPc, out, delivered, received>>
      BY <1>1 DEF ReadAnswer, queueVars, loopVars
    <2>2. CASE readerPc' \in {"read", "answer"}
      BY <2>1, <2>2, <1>a
    <2>3. CASE hand' = [kind |-> "unknown", n |-> 0]
      <3>1. hand'.kind = "unknown"
        BY <2>3
      <3> QED
        BY <2>1, <3>1, <1>0 DEF EdgesNumbered, InOrder, Before
    <2> QED
      BY <1>1, <2>2, <2>3 DEF ReadAnswer, Answer, Enqueue, readVars
  <1>2. ASSUME NEW kind \in Coalesced \cup Edges, Arrives(kind)
        PROVE  EdgesNumbered'
    <2>1. /\ UNCHANGED <<indicationInCh, loopPc, out, delivered>>
          /\ received' = [received EXCEPT ![kind] = @ + 1]
      BY <1>2 DEF Arrives, Count, queueVars, loopVars
    <2>2. hand' = [kind |-> kind, n |-> received[kind] + 1]
      BY <1>2 DEF Arrives, Count, Enqueue
    <2>3. hand'.kind = kind /\ hand'.n = received[kind] + 1
      BY <2>2
    <2>4. /\ received'[kind] = received[kind] + 1 /\ received[kind] \in Nat
          /\ \A k \in EdgeKinds : received[k] <= received'[k] /\ received[k] \in Nat
                                  /\ received'[k] \in Nat /\ delivered[k] \in Nat
      BY <2>1, <1>0
    <2>5. \A i \in DOMAIN indicationInCh : indicationInCh[i] \in Events
      BY <1>0
    <2>6. ASSUME NEW e \in Events, InOrder(e) PROVE InOrder(e)' /\ Before(e, hand')
      BY <2>1, <2>3, <2>4, <2>6, <1>0 DEF InOrder, Before
    <2>7. \A i \in DOMAIN indicationInCh' :
             InOrder(indicationInCh[i])' /\ Before(indicationInCh[i], hand)'
      BY <2>1, <2>5, <2>6 DEF EdgesNumbered, Before, InOrder
    <2>8. loopPc' = "deliver" => InOrder(out)' /\ Before(out, hand)'
      BY <2>1, <2>6 DEF EdgesNumbered, Before, InOrder, IInv, HandOK
    <2>9. InOrder(hand)' /\ \A k \in EdgeKinds : delivered'[k] <= received'[k]
      BY <2>1, <2>3, <2>4 DEF EdgesNumbered, InOrder
    <2> QED
      BY <2>1, <2>7, <2>8, <2>9 DEF EdgesNumbered, Before
  <1>3. CASE SendAnswer \/ DropEdge \/ storeCoalescedEvent \/ SignalCoalesced
             \/ ReaderFails \/ ReaderStops
    <2>1. /\ readerPc' \in {"read", "signal", "exited"}
          /\ UNCHANGED <<indicationInCh, loopPc, out, delivered, received>>
      BY <1>3 DEF SendAnswer, DropEdge, storeCoalescedEvent, SignalCoalesced, ReaderFails,
                  ReaderStops, ReaderDone, queueVars, loopVars
    <2> QED
      BY <2>1, <1>a
  <1>4. CASE QueueIsFull
    <2>1. /\ readerPc = "enqueue" /\ hand' = hand
          /\ UNCHANGED <<indicationInCh, loopPc, out, delivered, received>>
      BY <1>4 DEF QueueIsFull, queueVars, loopVars
    <2> QED
      BY <2>1, <1>a
  <1>5. CASE EnqueueEvent
    <2>1. /\ readerPc \in {"enqueue", "waitForRoom"} /\ readerPc' = "read"
          /\ indicationInCh' = Append(indicationInCh, hand) /\ hand \in Events
          /\ UNCHANGED <<loopPc, out, delivered, received>>
      BY <1>5 DEF EnqueueEvent, ReaderDone, loopVars, IInv, HandOK
    <2>2. /\ DOMAIN indicationInCh' = 1 .. Len(indicationInCh) + 1
          /\ DOMAIN indicationInCh = 1 .. Len(indicationInCh) /\ Len(indicationInCh) \in Nat
          /\ indicationInCh'[Len(indicationInCh) + 1] = hand
          /\ \A i \in DOMAIN indicationInCh : indicationInCh'[i] = indicationInCh[i]
      BY <1>0, <2>1
    <2>3. \A i \in DOMAIN indicationInCh' : i \in DOMAIN indicationInCh \/ indicationInCh'[i] = hand
      BY <2>2
    <2>4. \A i \in DOMAIN indicationInCh' : InOrder(indicationInCh[i])'
      BY <2>1, <2>2, <2>3 DEF EdgesNumbered, InOrder
    <2>5. \A i, j \in DOMAIN indicationInCh' :
             i < j => Before(indicationInCh[i], indicationInCh[j])'
      BY <2>1, <2>2 DEF EdgesNumbered, Before
    <2>6. loopPc' = "deliver" =>
             InOrder(out)' /\ \A i \in DOMAIN indicationInCh' : Before(out, indicationInCh[i])'
      BY <2>1, <2>2, <2>3 DEF EdgesNumbered, InOrder, Before
    <2> QED
      BY <2>1, <2>4, <2>5, <2>6 DEF EdgesNumbered
  <1>6. CASE popCoalescedEvent
    <2>1. UNCHANGED <<readerPc, hand, indicationInCh, delivered, received>> /\ loopPc = "pop"
      BY <1>6 DEF popCoalescedEvent, readVars
    <2>2. CASE order = <<>>
      <3>1. loopPc' = "select"
        BY <1>6, <2>2 DEF popCoalescedEvent
      <3> QED
        BY <2>1, <3>1 DEF EdgesNumbered, InOrder, Before
    <2>3. CASE order # <<>>
      <3>1. out' = [kind |-> Head(order), n |-> stored[Head(order)]]
        BY <1>6, <2>3 DEF popCoalescedEvent
      <3>2. out'.kind \in Coalesced
        BY <2>3, <3>1 DEF IInv, TypeOK, EventTypes
      <3> QED
        BY <2>1, <3>2, <1>0 DEF EdgesNumbered, InOrder, Before
    <2> QED
      BY <2>2, <2>3
  <1>7. CASE TakeIndication
    <2>1. /\ indicationInCh # <<>> /\ loopPc = "select"
          /\ out' = Head(indicationInCh) /\ indicationInCh' = Tail(indicationInCh)
          /\ UNCHANGED <<readerPc, hand, delivered, received>>
      BY <1>7 DEF TakeIndication, readVars
    <2>2. /\ 1 \in DOMAIN indicationInCh /\ out' = indicationInCh[1]
          /\ \A i \in DOMAIN indicationInCh' :
                /\ i \in Nat /\ i >= 1 /\ i + 1 \in DOMAIN indicationInCh
                /\ indicationInCh'[i] = indicationInCh[i + 1]
      BY <1>0, <2>1
    <2>3. \A i \in DOMAIN indicationInCh' :
             InOrder(indicationInCh[i])' /\ Before(out, indicationInCh[i])'
      BY <2>1, <2>2 DEF EdgesNumbered, InOrder, Before
    <2>4. \A i, j \in DOMAIN indicationInCh' :
             i < j => Before(indicationInCh[i], indicationInCh[j])'
      BY <2>1, <2>2 DEF EdgesNumbered, Before
    <2>5. InOrder(out)'
      BY <2>1, <2>2 DEF EdgesNumbered, InOrder
    <2>6. readerPc' \in {"enqueue", "waitForRoom"} =>
             /\ InOrder(hand)' /\ Before(out, hand)'
             /\ \A i \in DOMAIN indicationInCh' : Before(indicationInCh[i], hand)'
      BY <2>1, <2>2 DEF EdgesNumbered, InOrder, Before
    <2> QED
      BY <2>1, <2>3, <2>4, <2>5, <2>6 DEF EdgesNumbered
  <1>8. CASE TakeSignal \/ LoopStops
    <2>1. /\ loopPc' \in {"pop", "exited"}
          /\ UNCHANGED <<readerPc, hand, indicationInCh, delivered, received>>
      BY <1>8 DEF TakeSignal, LoopStops, readVars, queueVars
    <2> QED
      BY <2>1 DEF EdgesNumbered, InOrder, Before
  <1>9. CASE deliverEvent
    <2>1. /\ loopPc = "deliver" /\ loopPc' = "pop"
          /\ delivered' = [delivered EXCEPT ![out.kind] = IF out.n > @ THEN out.n ELSE @]
          /\ UNCHANGED <<readerPc, hand, indicationInCh, received>>
      BY <1>9 DEF deliverEvent, AfterDelivery, readVars, queueVars
    <2>2. out \in Events /\ out.n \in Nat /\ \A i \in DOMAIN indicationInCh : indicationInCh[i] \in Events
      BY <1>0, <2>1 DEF IInv, HandOK
    <2>3. \A k \in EdgeKinds : /\ delivered[k] \in Nat /\ received[k] \in Nat
                               /\ delivered'[k] = IF k = out.kind /\ out.n > delivered[k]
                                                  THEN out.n ELSE delivered[k]
      BY <1>0, <2>1
    <2>4. ASSUME NEW e \in Events, InOrder(e), Before(out, e) PROVE InOrder(e)'
      BY <2>1, <2>2, <2>3, <2>4 DEF InOrder, Before
    <2>5. \A i \in DOMAIN indicationInCh' : InOrder(indicationInCh[i])'
      BY <2>1, <2>2, <2>4 DEF EdgesNumbered, InOrder
    <2>6. readerPc' \in {"enqueue", "waitForRoom"} => InOrder(hand)'
      BY <2>1, <2>4 DEF EdgesNumbered, InOrder, IInv, HandOK
    <2>7. \A k \in EdgeKinds : delivered'[k] <= received'[k]
      BY <2>1, <2>3 DEF EdgesNumbered, InOrder
    <2> QED
      BY <2>1, <2>5, <2>6, <2>7 DEF EdgesNumbered, Before
  <1>10. CASE UNCHANGED newsVars
    BY <1>10 DEF newsVars, EdgesNumbered, InOrder, Before
  <1> QED
    BY <1>1, <1>2, <1>3, <1>4, <1>5, <1>6, <1>7, <1>8, <1>9, <1>10, NewsSteps

(* For any kinds, queues and number of indications: edge events of one kind  *)
(* (new messages, say) reach Events() in the order in which they were    *)
(* read and never twice, though some may be dropped when the queue stays     *)
(* full.                                                                     *)
THEOREM EdgesKeepTheirOrder == Spec => []EdgesInOrder
  <1>1. Init => EdgesNumbered
    BY ClientAssumption DEF Init, EdgesNumbered, EdgeKinds, Kinds
  <1>2. IInv /\ EdgesNumbered /\ [Next]_vars => EdgesNumbered'
    BY EdgesStep
  <1>3. EdgesNumbered => EdgesInOrder
    BY DEF EdgesNumbered, EdgesInOrder, InOrder
  <1> QED
    BY <1>1, <1>2, <1>3, InductiveInvariant, PTL DEF Spec

=============================================================================

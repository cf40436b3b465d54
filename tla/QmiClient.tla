------------------------------ MODULE QmiClient ------------------------------
(***************************************************************************)
(* pkg/quectel-qmi/qmi/client.go: the client of one QMI control device.     *)
(* Goroutines call SendRequest; three loops run beside them: writerLoop     *)
(* hands requests to the modem, readLoop matches answers to requests by     *)
(* <<service, transaction id>> and turns the rest into events, and          *)
(* indicationLoop passes the events on to whoever reads Events().  Close    *)
(* ends the loops; a lost connection ends the reader.                       *)
(*                                                                         *)
(* A request is its own call of SendRequest, made once.  An action is a     *)
(* critical section of c.mu or c.coalescedMu, an operation on a channel, or *)
(* an event of the connection.  Frames are whole packets; an answer that    *)
(* does not parse is one that never comes.                                 *)
(* clientIDs is left out: only GetClientID reads it, which nobody calls.    *)
(***************************************************************************)
EXTENDS Integers, Sequences

CONSTANTS
    Requests,        \* the calls of SendRequest
    CtlIds, TxIds,   \* the largest transaction id of CTL (255) and of the others (65535)
    TxQueueSize, IndicationQueueSize, EventQueueSize,
    Coalesced,       \* kinds of events with a coalescing key, one of them "reset"
    Edges,           \* the kinds without
    RequestCost, IndicationCost, Budget,
                     \* bound: a request and an indication cost that much of the budget
    None             \* nil

ASSUME ClientAssumption ==
    /\ CtlIds \in Nat \ {0} /\ TxIds \in Nat \ {0}
    /\ TxQueueSize \in Nat \ {0}
    /\ IndicationQueueSize \in Nat \ {0} /\ EventQueueSize \in Nat \ {0}
    /\ RequestCost \in Nat \ {0} /\ IndicationCost \in Nat \ {0} /\ Budget \in Nat
    /\ Coalesced \cap Edges = {} /\ "unknown" \notin Coalesced
    /\ None \notin Requests \cup {"indication", "exited", "ok", "failed"}
    /\ Requests \cap {"indication", "exited"} = {}

Services == {"control", "service"}
Largest(s) == IF s = "control" THEN CtlIds ELSE TxIds
Keys == {"control"} \X (1 .. CtlIds) \cup {"service"} \X (1 .. TxIds)
Kinds == Coalesced \cup Edges \cup {"unknown"}
Events == [kind : Kinds, n : 0 .. Budget]

VARIABLES
    counter,         \* ctlTxID and lastTxID, as far as the mask keeps them
    pc,              \* of each request
    key,             \* its <<service, txID>>
    written,         \* its writeReq.result
    inbox,           \* its respCh: empty (None) or the packet in it
    closedInbox,     \* the requests whose respCh is closed
    transactions,    \* key -> entry
    recent,          \* keys of recentTransactions
    rivals,          \* history: requests with the same key, not over when it was made
    writeCh, writer, \* the queue, and the writer's request, None or "exited"
    asked,           \* requests the modem has and may still answer
    readerPc, hand,  \* readLoop, and the event, or the packet and its entry, it holds
    indicationInCh, stored, order, coalescedSignal,
    loopPc, out,     \* indicationLoop, and the event it delivers
    eventCh,         \* how many events wait in Events()
    received, delivered,  \* history: newest number of each kind, received and delivered
    spent,           \* of the budget
    connected,
    closer           \* Close: open | closing | closed

requestVars == <<counter, pc, key, written, inbox, closedInbox, transactions, recent, rivals>>
writeVars == <<writeCh, writer, asked>>
readVars == <<readerPc, hand>>
queueVars == <<indicationInCh, stored, order, coalescedSignal>>
loopVars == <<loopPc, out, eventCh, delivered>>
closeVars == <<connected, closer>>
vars == <<requestVars, writeVars, readVars, queueVars, loopVars, received, spent, closeVars>>

Waiting == {"registered", "queued", "sent"}
Closing == closer # "open"
Goto(r, label) == pc' = [pc EXCEPT ![r] = label]

Spend(cost) == spent + cost <= Budget /\ spent' = spent + cost

-----------------------------------------------------------------------------
(* SendRequest.                                                            *)

(* Mutant: the counter is not cut to the width of the id. *)
NextId_Unmasked(s) == counter[s] + 1

(* The id after the last one, masked; zero is skipped. *)
NextId(s) == IF counter[s] = Largest(s) THEN 1 ELSE counter[s] + 1

(* The request is under way, or is yet to be written, or may be answered late. *)
Outstanding(q) ==
    \/ pc[q] \notin {"new", "ended"}
    \/ q = writer \/ q \in asked
    \/ \E i \in DOMAIN writeCh : writeCh[i] = q

(* The ids come round, and nobody asks whether the next one is in use: its
   entry replaces the one with its key.  Which of the new calls is the next to
   register does not matter. *)
Register(r, s) ==
    LET k == <<s, NextId(s)>> IN
    /\ pc[r] = "new" /\ r = CHOOSE q \in Requests : pc[q] = "new"
    /\ Spend(RequestCost)
    /\ counter' = [counter EXCEPT ![s] = NextId(s)]
    /\ key' = [key EXCEPT ![r] = k]
    /\ transactions' = [transactions EXCEPT ![k] = r]
    /\ rivals' = [rivals EXCEPT ![r] = {q \in Requests : key[q] = k /\ Outstanding(q)}]
    /\ Goto(r, "registered")
    /\ UNCHANGED <<written, inbox, closedInbox, recent>>
    /\ UNCHANGED <<writeVars, readVars, queueVars, loopVars, received, closeVars>>

QueueWrite(r) ==
    /\ pc[r] = "registered"
    /\ Len(writeCh) < TxQueueSize
    /\ writeCh' = Append(writeCh, r)
    /\ Goto(r, "queued")
    /\ UNCHANGED <<counter, rivals, key, written, inbox, closedInbox, transactions, recent>>
    /\ UNCHANGED <<writer, asked>>
    /\ UNCHANGED <<readVars, queueVars, loopVars, received, spent, closeVars>>

TakeResult(r) ==
    /\ pc[r] = "queued" /\ written[r] # None
    /\ Goto(r, IF written[r] = "ok" THEN "sent" ELSE "failed")
    /\ written' = [written EXCEPT ![r] = None]
    /\ UNCHANGED <<counter, rivals, key, inbox, closedInbox, transactions, recent>>
    /\ UNCHANGED <<writeVars, readVars, queueVars, loopVars, received, spent, closeVars>>

(* A closed channel still yields the packet that was in it. *)
TakeAnswer(r) ==
    /\ pc[r] = "sent"
    /\ inbox[r] # None \/ r \in closedInbox
    /\ Goto(r, IF inbox[r] # None THEN "answered" ELSE "failed")
    /\ inbox' = [inbox EXCEPT ![r] = None]
    /\ UNCHANGED <<counter, rivals, key, written, closedInbox, transactions, recent>>
    /\ UNCHANGED <<writeVars, readVars, queueVars, loopVars, received, spent, closeVars>>

Deadline(r) ==
    /\ pc[r] \in Waiting
    /\ Goto(r, "timedOut")
    /\ UNCHANGED <<counter, rivals, key, written, inbox, closedInbox, transactions, recent>>
    /\ UNCHANGED <<writeVars, readVars, queueVars, loopVars, received, spent, closeVars>>

SeeClosed(r) ==
    /\ pc[r] \in Waiting /\ Closing
    /\ Goto(r, "failed")
    /\ UNCHANGED <<counter, rivals, key, written, inbox, closedInbox, transactions, recent>>
    /\ UNCHANGED <<writeVars, readVars, queueVars, loopVars, received, spent, closeVars>>

(* The call returns: its channels are garbage.  It deletes what the table has
   under its key, be it its own entry or a later one. *)
completeTransaction(r) ==
    /\ pc[r] \in {"answered", "failed", "timedOut"}
    /\ transactions' = [transactions EXCEPT ![key[r]] = None]
    /\ recent' = IF pc[r] = "timedOut" THEN recent \cup {key[r]} ELSE recent
    /\ written' = [written EXCEPT ![r] = None]
    /\ inbox' = [inbox EXCEPT ![r] = None]
    /\ Goto(r, "ended")
    /\ UNCHANGED <<counter, rivals, key, closedInbox>>
    /\ UNCHANGED <<writeVars, readVars, queueVars, loopVars, received, spent, closeVars>>

-----------------------------------------------------------------------------
(* writerLoop.  The writer does not know whether the caller still waits.   *)

TakeWrite ==
    /\ writer = None /\ writeCh # <<>>
    /\ writer' = Head(writeCh) /\ writeCh' = Tail(writeCh)
    /\ UNCHANGED <<requestVars, asked, readVars, queueVars, loopVars, received, spent, closeVars>>

WriteEnds(result) ==
    /\ writer \in Requests
    /\ written' = [written EXCEPT ![writer] = result]
    /\ writer' = None
    /\ UNCHANGED <<counter, rivals, pc, key, inbox, closedInbox, transactions, recent>>
    /\ UNCHANGED <<writeCh, readVars, queueVars, loopVars, received, spent, closeVars>>

(* A connection whose reads fail may still take bytes, until it is closed. *)
Write ==
    /\ ~Closing
    /\ WriteEnds("ok")
    /\ asked' = asked \cup {writer}

WriteFails ==
    /\ WriteEnds("failed")
    /\ UNCHANGED asked

WriterStops ==
    /\ writer = None /\ Closing
    /\ writer' = "exited"
    /\ UNCHANGED <<requestVars, writeCh, asked>>
    /\ UNCHANGED <<readVars, queueVars, loopVars, received, spent, closeVars>>

-----------------------------------------------------------------------------
(* readLoop.                                                               *)

failPendingTransactions ==
    /\ closedInbox' = closedInbox \cup ({transactions[k] : k \in Keys} \ {None})
    /\ transactions' = [k \in Keys |-> None]

(* Mutant: an indication is taken for the answer with its key. *)
EntryFor_AnyPacket(k, indication) == transactions[k]

(* The entry a packet belongs to: none for an indication. *)
EntryFor(k, indication) == IF indication THEN None ELSE transactions[k]

ReaderDone(label) == readerPc' = label /\ hand' = None

(* dispatchIndication, up to the select of enqueueIndication. *)
Enqueue(kind, n) ==
    /\ hand' = [kind |-> kind, n |-> n]
    /\ readerPc' = "enqueue"

Answer(p, e) ==
    /\ hand' = [entry |-> e, packet |-> p]
    /\ readerPc' = "answer"

(* The answer to q, perhaps too late.  A CTL answer nobody waits for, and
   any other whose caller did not end by its deadline in the last minutes,
   goes on as an event of unknown kind. *)
ReadAnswer(q) ==
    LET e == EntryFor(key[q], FALSE) IN
    /\ readerPc = "read" /\ q \in asked
    /\ asked' = asked \ {q}
    /\ \/ /\ e # None
          /\ Answer(q, e)
          /\ UNCHANGED recent
       \/ /\ e = None
          /\ Enqueue("unknown", 0)
          /\ UNCHANGED recent
       \/ /\ e = None /\ key[q][1] # "control" /\ key[q] \in recent
          /\ recent' = recent \ {key[q]}
          /\ UNCHANGED readVars
    /\ UNCHANGED <<counter, rivals, pc, key, written, inbox, closedInbox, transactions>>
    /\ UNCHANGED <<writeCh, writer, queueVars, loopVars, received, spent, closeVars>>

Count(kind) ==
    /\ Spend(IndicationCost)
    /\ received' = [received EXCEPT ![kind] = @ + 1]

(* An answer that belongs to no entry is judged by its message id, and many an
   indication has that of the request of the same name.  No request of CTL
   has the id of an indication. *)
TakenForIndication(q, kind) ==
    /\ readerPc = "read" /\ q \in asked
    /\ EntryFor(key[q], FALSE) = None
    /\ key[q][1] # "control" /\ kind # "reset"
    /\ asked' = asked \ {q}
    /\ Count(kind)
    /\ Enqueue(kind, received[kind] + 1)
    /\ UNCHANGED <<requestVars, writeCh, writer, queueVars, loopVars, closeVars>>

(* The modem puts a transaction id of its own on an indication. *)
ReadIndication(kind, k) ==
    LET e == EntryFor(k, TRUE) IN
    /\ readerPc = "read"
    /\ Count(kind)
    /\ \/ e # None /\ Answer("indication", e)
       \/ e = None /\ Enqueue(kind, received[kind] + 1)
    /\ UNCHANGED <<requestVars, writeVars, queueVars, loopVars, closeVars>>

(* Mutant: respCh has no buffer. *)
HasRoom_Unbuffered(r) == pc[r] = "sent"

HasRoom(r) == inbox[r] = None

(* The send is outside c.mu; a second packet for the same entry is dropped. *)
SendAnswer ==
    /\ readerPc = "answer" /\ hand.entry \notin closedInbox
    /\ inbox' = [inbox EXCEPT ![hand.entry] = IF HasRoom(hand.entry) THEN hand.packet ELSE @]
    /\ ReaderDone("read")
    /\ UNCHANGED <<counter, rivals, pc, key, written, closedInbox, transactions, recent>>
    /\ UNCHANGED <<writeCh, writer, asked>>
    /\ UNCHANGED <<queueVars, loopVars, received, spent, closeVars>>

QueueHasRoom == Len(indicationInCh) < IndicationQueueSize

EnqueueEvent ==
    /\ readerPc \in {"enqueue", "waitForRoom"} /\ QueueHasRoom
    /\ indicationInCh' = Append(indicationInCh, hand)
    /\ ReaderDone("read")
    /\ UNCHANGED <<stored, order, coalescedSignal>>
    /\ UNCHANGED <<requestVars, writeVars, loopVars, received, spent, closeVars>>

QueueIsFull ==
    /\ readerPc = "enqueue" /\ ~QueueHasRoom
    /\ readerPc' = IF hand.kind \in Coalesced THEN "store" ELSE "waitForRoom"
    /\ UNCHANGED hand
    /\ UNCHANGED <<requestVars, writeVars, queueVars, loopVars, received, spent, closeVars>>

(* An edge event is given up after ReadDeadline, or when the client closes. *)
DropEdge ==
    /\ \/ readerPc = "waitForRoom"
       \/ readerPc = "enqueue" /\ hand.kind \notin Coalesced /\ Closing
    /\ ReaderDone("read")
    /\ UNCHANGED <<requestVars, writeVars, queueVars, loopVars, received, spent, closeVars>>

(* Mutant: an event that is stored already is not replaced. *)
storeCoalescedEvent_Keeps ==
    /\ readerPc = "store"
    /\ order' = IF stored[hand.kind] = 0 THEN Append(order, hand.kind) ELSE order
    /\ stored' = [stored EXCEPT ![hand.kind] = IF @ = 0 THEN hand.n ELSE @]
    /\ ReaderDone("signal")
    /\ UNCHANGED <<indicationInCh, coalescedSignal>>
    /\ UNCHANGED <<requestVars, writeVars, loopVars, received, spent, closeVars>>

storeCoalescedEvent ==
    /\ readerPc = "store"
    /\ order' = IF stored[hand.kind] = 0 THEN Append(order, hand.kind) ELSE order
    /\ stored' = [stored EXCEPT ![hand.kind] = hand.n]
    /\ ReaderDone("signal")
    /\ UNCHANGED <<indicationInCh, coalescedSignal>>
    /\ UNCHANGED <<requestVars, writeVars, loopVars, received, spent, closeVars>>

SignalCoalesced ==
    /\ readerPc = "signal"
    /\ coalescedSignal' = TRUE
    /\ ReaderDone("read")
    /\ UNCHANGED <<indicationInCh, stored, order>>
    /\ UNCHANGED <<requestVars, writeVars, loopVars, received, spent, closeVars>>

(* Mutant: the callers that wait are not told. *)
ReaderFails_Silently ==
    /\ readerPc = "read" /\ ~connected /\ ~Closing
    /\ ReaderDone("exited")
    /\ UNCHANGED <<requestVars, writeVars, queueVars, loopVars, received, spent, closeVars>>

ReaderFails ==
    /\ readerPc = "read" /\ ~connected /\ ~Closing
    /\ failPendingTransactions
    /\ ReaderDone("exited")
    /\ UNCHANGED <<counter, rivals, pc, key, written, inbox, recent>>
    /\ UNCHANGED <<writeVars, queueVars, loopVars, received, spent, closeVars>>

ReaderStops ==
    /\ readerPc = "read" /\ Closing
    /\ ReaderDone("exited")
    /\ UNCHANGED <<requestVars, writeVars, queueVars, loopVars, received, spent, closeVars>>

-----------------------------------------------------------------------------
(* indicationLoop.                                                         *)

(* Mutant: after an event from the store the loop waits at once. *)
AfterDelivery_Waits == "select"

AfterDelivery == "pop"

popCoalescedEvent ==
    /\ loopPc = "pop"
    /\ IF order = <<>>
       THEN loopPc' = "select" /\ UNCHANGED <<order, stored, out>>
       ELSE /\ out' = [kind |-> Head(order), n |-> stored[Head(order)]]
            /\ order' = Tail(order)
            /\ stored' = [stored EXCEPT ![Head(order)] = 0]
            /\ loopPc' = "deliver"
    /\ UNCHANGED <<indicationInCh, coalescedSignal, eventCh, delivered>>
    /\ UNCHANGED <<requestVars, writeVars, readVars, received, spent, closeVars>>

TakeIndication ==
    /\ loopPc = "select" /\ indicationInCh # <<>>
    /\ out' = Head(indicationInCh) /\ indicationInCh' = Tail(indicationInCh)
    /\ loopPc' = "deliver"
    /\ UNCHANGED <<stored, order, coalescedSignal, eventCh, delivered>>
    /\ UNCHANGED <<requestVars, writeVars, readVars, received, spent, closeVars>>

TakeSignal ==
    /\ loopPc = "select" /\ coalescedSignal
    /\ coalescedSignal' = FALSE
    /\ loopPc' = "pop"
    /\ UNCHANGED <<indicationInCh, stored, order, out, eventCh, delivered>>
    /\ UNCHANGED <<requestVars, writeVars, readVars, received, spent, closeVars>>

deliverEvent ==
    /\ loopPc = "deliver" /\ closer # "closed"
    /\ eventCh < EventQueueSize
    /\ eventCh' = eventCh + 1
    /\ delivered' = [delivered EXCEPT ![out.kind] = IF out.n > @ THEN out.n ELSE @]
    /\ loopPc' = AfterDelivery /\ out' = None
    /\ UNCHANGED <<requestVars, writeVars, readVars, queueVars, received, spent, closeVars>>

(* Mutant: delivery does not look at closeCh. *)
LoopStops_OnlyIdle ==
    /\ loopPc = "select" /\ Closing
    /\ loopPc' = "exited" /\ out' = None
    /\ UNCHANGED <<eventCh, delivered>>
    /\ UNCHANGED <<requestVars, writeVars, readVars, queueVars, received, spent, closeVars>>

LoopStops ==
    /\ loopPc \in {"select", "deliver"} /\ Closing
    /\ loopPc' = "exited" /\ out' = None
    /\ UNCHANGED <<eventCh, delivered>>
    /\ UNCHANGED <<requestVars, writeVars, readVars, queueVars, received, spent, closeVars>>

(* External: whoever reads Events(). *)
TakeEvent ==
    /\ eventCh > 0
    /\ eventCh' = eventCh - 1
    /\ UNCHANGED <<loopPc, out, delivered>>
    /\ UNCHANGED <<requestVars, writeVars, readVars, queueVars, received, spent, closeVars>>

-----------------------------------------------------------------------------
(* Close, which runs once, and the connection.                             *)

Unplugged ==
    /\ ~Closing /\ connected /\ connected' = FALSE
    /\ UNCHANGED <<requestVars, writeVars, readVars, queueVars, loopVars, received, spent, closer>>

(* closeCh and the connection are closed one after the other. *)
CloseBegins ==
    /\ closer = "open" /\ closer' = "closing"
    /\ connected' = FALSE
    /\ UNCHANGED <<requestVars, writeVars, readVars, queueVars, loopVars, received, spent>>

(* Mutant: the callers are failed before the loops have stopped. *)
LoopsStopped_Unasked == TRUE

(* c.wg.Wait *)
LoopsStopped == readerPc = "exited" /\ writer = "exited" /\ loopPc = "exited"

CloseEnds ==
    /\ closer = "closing" /\ LoopsStopped
    /\ failPendingTransactions
    /\ closer' = "closed"
    /\ UNCHANGED <<counter, rivals, pc, key, written, inbox, recent>>
    /\ UNCHANGED <<writeVars, readVars, queueVars, loopVars, received, spent, connected>>

-----------------------------------------------------------------------------
Init ==
    /\ counter = [s \in Services |-> 0]
    /\ pc = [r \in Requests |-> "new"]
    /\ key = [r \in Requests |-> None]
    /\ written = [r \in Requests |-> None]
    /\ inbox = [r \in Requests |-> None] /\ closedInbox = {}
    /\ transactions = [k \in Keys |-> None] /\ recent = {}
    /\ rivals = [r \in Requests |-> {}]
    /\ writeCh = <<>> /\ writer = None /\ asked = {}
    /\ readerPc = "read" /\ hand = None
    /\ indicationInCh = <<>> /\ order = <<>> /\ coalescedSignal = FALSE
    /\ stored = [k \in Coalesced |-> 0]
    /\ loopPc = "pop" /\ out = None /\ eventCh = 0
    /\ received = [k \in Coalesced \cup Edges |-> 0]
    /\ delivered = [k \in Kinds |-> 0]
    /\ spent = 0
    /\ connected = TRUE /\ closer = "open"

Caller(r) ==
    \/ \E s \in Services : Register(r, s)
    \/ QueueWrite(r) \/ TakeResult(r) \/ TakeAnswer(r)
    \/ Deadline(r) \/ SeeClosed(r) \/ completeTransaction(r)

Writer == TakeWrite \/ Write \/ WriteFails \/ WriterStops

Reader ==
    \/ \E q \in Requests : ReadAnswer(q)
    \/ \E q \in Requests, kind \in Coalesced \cup Edges : TakenForIndication(q, kind)
    \/ \E kind \in Coalesced \cup Edges, k \in Keys : ReadIndication(kind, k)
    \/ SendAnswer \/ EnqueueEvent \/ QueueIsFull \/ DropEdge
    \/ storeCoalescedEvent \/ SignalCoalesced \/ ReaderFails \/ ReaderStops

Loop == popCoalescedEvent \/ TakeIndication \/ TakeSignal \/ deliverEvent \/ LoopStops

Next ==
    \/ \E r \in Requests : Caller(r)
    \/ Writer \/ Reader \/ Loop
    \/ TakeEvent \/ Unplugged \/ CloseBegins \/ CloseEnds

Spec == Init /\ [][Next]_vars

(* What a goroutine does by itself.  Left out is what only others or time
   bring about: a packet, a deadline, bytes the modem accepts. *)
CallerSteps(r) ==
    QueueWrite(r) \/ TakeResult(r) \/ TakeAnswer(r) \/ SeeClosed(r) \/ completeTransaction(r)
WriterSteps == TakeWrite \/ WriterStops \/ (~connected /\ (Write \/ WriteFails))
ReaderSteps ==
    \/ SendAnswer \/ EnqueueEvent \/ QueueIsFull \/ DropEdge
    \/ storeCoalescedEvent \/ SignalCoalesced \/ ReaderFails \/ ReaderStops

(* The scheduler runs every goroutine that can step; ReadDeadline passes;
   events are read as long as the client is open.  Nobody has to call Close. *)
Fairness ==
    /\ \A r \in Requests : WF_vars(CallerSteps(r))
    /\ WF_vars(WriterSteps) /\ WF_vars(ReaderSteps) /\ WF_vars(Loop)
    /\ WF_vars(~Closing /\ TakeEvent)
    /\ WF_vars(CloseEnds)

FairSpec == Spec /\ Fairness

-----------------------------------------------------------------------------
RequestTypes ==
    /\ counter \in [Services -> Nat] /\ \A s \in Services : counter[s] <= Largest(s)
    /\ pc \in [Requests -> Waiting \cup {"new", "answered", "failed", "timedOut", "ended"}]
    /\ key \in [Requests -> Keys \cup {None}]
    /\ written \in [Requests -> {"ok", "failed", None}]
    /\ inbox \in [Requests -> Requests \cup {"indication", None}]
    /\ closedInbox \subseteq Requests
    /\ transactions \in [Keys -> Requests \cup {None}] /\ recent \subseteq Keys
    /\ rivals \in [Requests -> SUBSET Requests]

WriterTypes ==
    /\ writeCh \in Seq(Requests) /\ Len(writeCh) <= TxQueueSize
    /\ writer \in Requests \cup {None, "exited"}
    /\ asked \subseteq Requests

EventTypes ==
    /\ readerPc \in {"read", "answer", "enqueue", "waitForRoom", "store", "signal", "exited"}
    /\ hand \in {None} \cup Events
                 \cup [entry : Requests, packet : Requests \cup {"indication"}]
    /\ indicationInCh \in Seq(Events) /\ Len(indicationInCh) <= IndicationQueueSize
    /\ stored \in [Coalesced -> 0 .. Budget] /\ order \in Seq(Coalesced)
    /\ coalescedSignal \in BOOLEAN
    /\ loopPc \in {"pop", "select", "deliver", "exited"} /\ out \in {None} \cup Events
    /\ eventCh \in 0 .. EventQueueSize
    /\ received \in [Coalesced \cup Edges -> 0 .. Budget]
    /\ delivered \in [Kinds -> 0 .. Budget]
    /\ spent \in 0 .. Budget
    /\ connected \in BOOLEAN /\ closer \in {"open", "closing", "closed"}

(* Every variable stays in its type; no id outgrows the width it is sent in. *)
TypeOK == RequestTypes /\ WriterTypes /\ EventTypes

(* Neither loop sends on a channel that is closed, which would end the
   program: respCh is closed by failPendingTransactions, eventCh by Close. *)
NoSendOnClosed ==
    /\ readerPc = "answer" => hand.entry \notin closedInbox
    /\ loopPc = "deliver" => closer # "closed"

(* SendRequest returns the answer to its own request, and never an indication
   or an answer of another service with the same transaction id.  The one
   other packet it may return is the answer to an older request whose id has
   come round while that answer was outstanding: nothing compares the message
   ids. *)
AnswerIsMine == \A r \in Requests : inbox[r] \in {r, None} \cup rivals[r]

(* No other request had its id while it was outstanding, before it or after. *)
Alone(r) == rivals[r] = {} /\ \A q \in Requests : r \notin rivals[q]

(* Once a request is written, its answer is still to come, or in the reader's
   hand, or in the caller's channel: an answer never finds the table without
   the entry that expects it while the caller waits, unless another request
   with its id has replaced or deleted that entry. *)
NoAnswerLost ==
    \A r \in Requests :
        (Alone(r) /\ (pc[r] = "sent" \/ (pc[r] = "queued" /\ written[r] = "ok"))) =>
            \/ r \in asked
            \/ readerPc = "answer" /\ hand = [entry |-> r, packet |-> r]
            \/ inbox[r] = r

(* The newest indication of a kind with a coalescing key is delivered or on
   its way, wherever the queue, the store and the loops stand. *)
OnItsWay(e) ==
    \/ readerPc \in {"enqueue", "store"} /\ hand = e
    \/ \E i \in DOMAIN indicationInCh : indicationInCh[i] = e
    \/ stored[e.kind] = e.n
    \/ loopPc = "deliver" /\ out = e

NewestIsKept ==
    \A k \in Coalesced :
        \/ Closing
        \/ delivered[k] = received[k]
        \/ OnItsWay([kind |-> k, n |-> received[k]])

(* The news that the modem was reset reaches the reader of Events() although
   the queue is full of other events. *)
ResetIsDelivered ==
    received["reset"] > delivered["reset"] ~>
        received["reset"] = delivered["reset"] \/ Closing

(* Close returns, and so does every SendRequest, with no deadline passing,
   nobody reading Events() and the modem stuck. *)
CloseReturns ==
    closer = "closing" ~>
        closer = "closed" /\ \A r \in Requests : pc[r] \in {"new", "ended"}

(* A lost connection ends the requests that wait for their answer while the
   reader lives; none of them has to wait for its deadline, but one whose entry
   another request with its id has replaced or deleted. *)
LossEndsWaits ==
    \A r \in Requests :
        (pc[r] = "sent" /\ ~connected /\ readerPc # "exited") ~> (pc[r] = "ended" \/ ~Alone(r))

=============================================================================

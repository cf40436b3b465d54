----------------------------- MODULE QmiManager -----------------------------
(***************************************************************************)
(* pkg/quectel-qmi/manager: the manager of one QMI modem.  It opens the     *)
(* control device, keeps one data call up while the program wants one, and  *)
(* re-opens everything after a modem reset.                                 *)
(*                                                                         *)
(* Goroutines: the event loop (sole reader of eventCh), the indication      *)
(* handler, timer callbacks, and the goroutines of the program that call    *)
(* the API.  An action is one critical section, one request to the modem or *)
(* one channel operation; m.wds, m.client and m.handleV4 are read outside   *)
(* m.mu as the code reads them.                                             *)
(*                                                                         *)
(* The configuration is the program's own: IPv4, AutoReconnect, NoDial, the *)
(* lazy data plane, no QMAP, MaxRecoverElapsed set.  Time is abstract: a    *)
(* timer fires at any moment after it is armed, `recent` says the dedup     *)
(* window of the last queued reset is open, and the one fact the program's   *)
(* durations guarantee is a guard (see waitResetQuietWindow).               *)
(***************************************************************************)
EXTENDS Integers, Sequences, FiniteSets

CONSTANTS
    Callers,            \* goroutines that call the API
    Calls,              \* the calls each of them makes
    EventCap,           \* capacity of eventCh
    StartIsPrompt,      \* StartCoreContext ends before a reset taken meanwhile is cleaned up
    MaxResets,          \* bound: resets of the modem
    MaxIndications,     \* bound: other indications from the modem, and ticks
    MaxTrouble,         \* bound: failures of the modem, the network and services
    MaxOps,             \* bound: API calls
    OpCost, Budget      \* bound: all of these together, a call at OpCost and the others at 1

Loop == "loop"
Procs == Callers \cup {Loop}
API == {"StartCore", "Connect", "Disconnect", "Stop"}
Timers == {"start", "check", "retry", "deferred", "deferred_retry"}
Senders == {Loop, "indication", "service", "retry", "deferred", "deferred_retry"}
Events == {"Start", "Stop", "CheckFull", "CheckTargeted", "StatusChanged", "ModemReset"}

ASSUME ManagerAssumption ==
    /\ Loop \notin Callers
    /\ Calls \in [Callers -> SUBSET API]
    /\ EventCap \in Nat \ {0}
    /\ StartIsPrompt \in BOOLEAN
    /\ MaxResets \in Nat /\ MaxIndications \in Nat
    /\ MaxTrouble \in Nat /\ MaxOps \in Nat
    /\ OpCost \in Nat /\ Budget \in Nat

VARIABLES
    state, desired, handle,                    \* m.state, m.desiredConnection, m.handleV4
    controlReady, coreReady, client, wds,      \* client: the epoch it was opened in, 0 is nil;
                                               \* wds: nil, of the client (open), of a closed one
    ctx,                                       \* none | live | cancelled
    eventCh,
    timers, fired, checkScheduled,             \* armed timers; callbacks on their way
    recovering, pending, recent, deferred,     \* the modemReset* fields
    queueing,                                  \* senders between the dedup check and the send
    failing,                                   \* recoverFirstFailAt is set
    gaveUp,                                    \* EventRecoveryExhausted was the last word
    pc, after, seen,                           \* control; the event loop's return point and locals
    got,                                       \* a dial's locals: its WDS service, its handle
    overtaken,                                 \* history: a dial had an answer in hand when Stop cleaned up
    ind,                                       \* indication handler: off | reading | sending
    epoch, calls, inbox,                       \* the modem: resets, data calls, indications
    inds, trouble, ops                         \* counters of the bounds

conn == <<state, desired, handle>>
core == <<controlReady, coreReady, client, wds>>
timing == <<timers, fired, checkScheduled>>
reset == <<recovering, pending, recent, deferred, queueing>>
giveup == <<failing, gaveUp>>
locals == <<after, seen, got, overtaken>>
loopLocals == <<after, seen>>
modem == <<epoch, calls, inbox>>
bounds == <<inds, trouble, ops>>
vars == <<conn, core, ctx, eventCh, timing, reset, giveup, pc, locals, ind, modem, bounds>>

-----------------------------------------------------------------------------
Affordable(cost) == OpCost * ops + (epoch - 1) + inds + trouble + cost <= Budget

Goto(p, label) == pc' = [pc EXCEPT ![p] = label]
Return(p) == IF p = Loop THEN "select" ELSE "idle"

(* Mutant: the channel never fills. *)
Room_Endless == TRUE

Room == Len(eventCh) < EventCap
Send(e) == Room /\ eventCh' = Append(eventCh, e)

(* A request works, or it is one of the bounded failures; Stop cancels the *)
(* context of requests under way.                                          *)
Works == UNCHANGED trouble
Fails == \/ ctx = "cancelled" /\ UNCHANGED trouble
         \/ trouble < MaxTrouble /\ Affordable(1) /\ trouble' = trouble + 1

(* scheduleAfter and stopScheduledTimers.  Callbacks that fired run on. *)
Arm(k) == timers' = timers \cup {k} /\ UNCHANGED <<fired, checkScheduled>>
stopScheduledTimers == timers' = {} /\ checkScheduled' = FALSE /\ UNCHANGED fired

(* cleanup: the timers, every service and the client go, the data call the *)
(* manager knows of is stopped.  A service that a dial holds is now one of a *)
(* closed client.                                                           *)
cleanup ==
    /\ stopScheduledTimers
    /\ controlReady' = FALSE /\ coreReady' = FALSE
    /\ client' = 0 /\ wds' = "nil"
    /\ handle' = 0
    /\ calls' = IF wds = "open" THEN calls \ {handle} ELSE calls
    /\ got' = [p \in Procs |-> IF got[p].wds = "open" THEN [got[p] EXCEPT !.wds = "closed"] ELSE got[p]]
    /\ inbox' = <<>>
    /\ UNCHANGED epoch

-----------------------------------------------------------------------------
(* StartCoreContext.  The device layer calls it until it succeeds once, so   *)
(* never on a manager that has run.                                          *)

StartCore(c) ==
    /\ pc[c] = "idle" /\ ctx = "none"
    /\ ~coreReady /\ state = "Disconnected"
    /\ state' = "Connecting" /\ desired' = FALSE
    /\ Goto(c, "open")
    /\ UNCHANGED <<handle, core, ctx, eventCh, timing, reset, giveup, locals, ind, modem,
                   inds, trouble>>

StartOpens(c) ==
    /\ pc[c] = "open"
    /\ \/ /\ Works
          /\ client' = epoch /\ controlReady' = TRUE
          /\ inbox' = <<>>
          /\ Goto(c, "launch")
          /\ UNCHANGED <<state, handle, coreReady, wds, timing, got, epoch, calls>>
       \/ /\ Fails
          /\ cleanup
          /\ state' = "Disconnected"
          /\ Goto(c, "idle")
    /\ UNCHANGED <<desired, ctx, eventCh, reset, giveup, loopLocals, overtaken, ind, inds, ops>>

StartLaunches(c) ==
    /\ pc[c] = "launch"
    /\ ctx' = "live"
    /\ stopScheduledTimers
    /\ ind' = "reading"
    /\ pc' = [pc EXCEPT ![c] = "ready", ![Loop] = "select"]
    /\ UNCHANGED <<conn, core, eventCh, reset, giveup, locals, modem, bounds>>

(* markCoreReadyLocked and setState: the end of StartCoreContext and of a    *)
(* recovery.                                                                 *)
MarkReady(p) ==
    /\ pc[p] = "ready"
    /\ controlReady' = TRUE /\ coreReady' = TRUE
    /\ failing' = FALSE
    /\ Goto(p, "settle")
    /\ UNCHANGED <<conn, client, wds, ctx, eventCh, timing, reset, gaveUp, locals, ind, modem,
                   bounds>>

Settle(p) ==
    /\ pc[p] = "settle"
    /\ state' = "Disconnected"
    /\ \/ /\ p = Loop /\ seen.desired
          /\ Arm("start")
       \/ /\ ~(p = Loop /\ seen.desired)
          /\ UNCHANGED timing
    /\ Goto(p, IF p = Loop THEN "recovered" ELSE "idle")
    /\ UNCHANGED <<desired, handle, core, ctx, eventCh, reset, giveup, locals, ind, modem,
                   bounds>>

-----------------------------------------------------------------------------
(* Connect, Disconnect and the two procedures they share with the loop.      *)

Connect(c) ==
    /\ pc[c] = "idle"
    /\ coreReady /\ state # "Stopping"
    /\ desired' = TRUE
    /\ Goto(c, IF state = "Connected" \/ (state = "Connecting" /\ handle # 0)
               THEN "idle" ELSE "dial")
    /\ UNCHANGED <<state, handle, core, ctx, eventCh, timing, reset, giveup, locals, ind, modem,
                   inds, trouble>>

Disconnect(c) ==
    /\ pc[c] = "idle"
    /\ coreReady /\ state # "Stopping"
    /\ desired' = FALSE
    /\ Goto(c, IF handle # 0 \/ state \in {"Connected", "Connecting"} THEN "hangup" ELSE "idle")
    /\ UNCHANGED <<state, handle, core, ctx, eventCh, timing, reset, giveup, locals, ind, modem,
                   inds, trouble>>

doConnect(p) ==
    /\ pc[p] = "dial"
    /\ IF \/ ~desired
          \/ state \in {"Connected", "Stopping"}
          \/ state = "Connecting" /\ handle # 0
       THEN Goto(p, Return(p)) /\ UNCHANGED state
       ELSE Goto(p, "alloc") /\ state' = "Connecting"
    /\ UNCHANGED <<desired, handle, core, ctx, eventCh, timing, reset, giveup, locals, ind, modem,
                   bounds>>

(* ensureDataPlaneServices: the request for the WDS service takes its time,  *)
(* and the answer is stored with no lock held, an error as nil.  A nil        *)
(* client is dereferenced; dialCtx may be cancelled by now.                   *)
NothingGot == [wds |-> "nil", handle |-> 0]

ensureDataPlane(p) ==
    /\ pc[p] = "alloc"
    /\ \/ wds # "nil" /\ Goto(p, "wda") /\ UNCHANGED got
       \/ wds = "nil" /\ ctx = "cancelled" /\ Goto(p, "dialfail") /\ UNCHANGED got
       \/ wds = "nil" /\ client = 0 /\ Goto(p, "panicked") /\ UNCHANGED got
       \/ /\ wds = "nil" /\ client # 0
          /\ Goto(p, "allocating") /\ got' = [got EXCEPT ![p].wds = "open"]
    /\ UNCHANGED <<conn, core, ctx, eventCh, timing, reset, giveup, loopLocals, overtaken, ind, modem,
                   bounds>>

(* A request on this service is answered, if the modem does. *)
Served(p) == got[p].wds = "open" /\ client = epoch

ServiceAllocated(p) ==
    /\ pc[p] = "allocating"
    /\ \/ Served(p) /\ Works /\ UNCHANGED got
       \/ /\ IF Served(p) THEN Fails ELSE Works
          /\ got' = [got EXCEPT ![p] = NothingGot]
    /\ Goto(p, "store_wds")
    /\ UNCHANGED <<conn, core, ctx, eventCh, timing, reset, giveup, loopLocals, overtaken, ind, modem,
                   inds, ops>>

StoreService(p) ==
    /\ pc[p] = "store_wds"
    /\ wds' = got[p].wds
    /\ got' = [got EXCEPT ![p] = NothingGot]
    /\ Goto(p, IF wds' = "nil" THEN "dialfail" ELSE "wda")
    /\ UNCHANGED <<conn, controlReady, coreReady, client, ctx, eventCh, timing, reset, giveup,
                   loopLocals, overtaken, ind, modem, bounds>>

(* m.wda is not modelled: any dial may find it missing, ask for it and fail. *)
(* Then doConnect looks for m.wds once.                                      *)
EnsureWDA(p) ==
    /\ pc[p] = "wda"
    /\ \/ Works /\ Goto(p, IF wds = "nil" THEN "dialfail" ELSE "call")
       \/ Fails /\ Goto(p, "dialfail")
       \/ client = 0 /\ Works /\ Goto(p, "panicked")
    /\ UNCHANGED <<conn, core, ctx, eventCh, timing, reset, giveup, locals, ind, modem,
                   inds, ops>>

(* wds.StartNetworkInterface, after requests for signal and registration: by *)
(* now m.wds may be nil.  A service the modem has revoked, or of a closed     *)
(* client, gets no answer.                                                   *)
StartNetworkInterface(p) ==
    /\ pc[p] = "call"
    /\ \/ wds # "nil" /\ Goto(p, "calling") /\ got' = [got EXCEPT ![p].wds = wds]
       \/ wds = "nil" /\ Goto(p, "panicked") /\ UNCHANGED got
    /\ UNCHANGED <<conn, core, ctx, eventCh, timing, reset, giveup, loopLocals, overtaken, ind, modem,
                   bounds>>

(* The modem numbers data calls as it likes. *)
newHandle == CHOOSE n \in 1..Cardinality(calls) + 2 : n \notin calls \cup {handle}

(* The answer, or the time-out of a request that the modem may have served.  *)
CallAnswered(p) ==
    /\ pc[p] = "calling"
    /\ \/ /\ Served(p) /\ Works
          /\ calls' = calls \cup {newHandle}
          /\ got' = [got EXCEPT ![p].handle = newHandle]
          /\ Goto(p, "store_handle")
       \/ /\ Served(p) /\ Fails
          /\ calls' \in {calls, calls \cup {newHandle}}
          /\ got' = [got EXCEPT ![p] = NothingGot]
          /\ Goto(p, "dialfail")
       \/ /\ ~Served(p) /\ Works
          /\ got' = [got EXCEPT ![p] = NothingGot]
          /\ Goto(p, "dialfail")
          /\ UNCHANGED calls
    /\ UNCHANGED <<conn, core, ctx, eventCh, timing, reset, giveup, loopLocals, overtaken, ind,
                   epoch, inbox, inds, ops>>

StoreHandle(p) ==
    /\ pc[p] = "store_handle"
    /\ handle' = got[p].handle
    /\ got' = [got EXCEPT ![p] = NothingGot]
    /\ Goto(p, "connected")
    /\ UNCHANGED <<state, desired, core, ctx, eventCh, timing, reset, giveup, loopLocals, overtaken,
                   ind, modem, bounds>>

(* configureNetwork reports every failure in the log only. *)
MarkConnected(p) ==
    /\ pc[p] = "connected"
    /\ state' = "Connected"
    /\ Goto(p, Return(p))
    /\ UNCHANGED <<desired, handle, core, ctx, eventCh, timing, reset, giveup, locals, ind, modem,
                   bounds>>

handleDialFailure(p) ==
    /\ pc[p] = "dialfail"
    /\ state' = "Disconnected"
    /\ IF desired THEN Arm("start") ELSE UNCHANGED timing
    /\ Goto(p, Return(p))
    /\ UNCHANGED <<desired, handle, core, ctx, eventCh, reset, giveup, locals, ind, modem,
                   bounds>>

(* doDisconnect: stop the call; forget it, whatever the modem answers; then  *)
(* setState.                                                                 *)
HangUp(p) ==
    /\ pc[p] = "hangup"
    /\ IF handle # 0 /\ wds # "nil"
       THEN /\ Goto(p, "forget")
            /\ \/ Works /\ calls' = IF wds = "open" /\ client = epoch THEN calls \ {handle} ELSE calls
               \/ Fails /\ UNCHANGED calls
       ELSE Goto(p, "hungup") /\ Works /\ UNCHANGED calls
    /\ UNCHANGED <<conn, core, ctx, eventCh, timing, reset, giveup, locals, ind,
                   epoch, inbox, inds, ops>>

ForgetCall(p) ==
    /\ pc[p] = "forget"
    /\ handle' = 0
    /\ Goto(p, "hungup")
    /\ UNCHANGED <<state, desired, core, ctx, eventCh, timing, reset, giveup, locals, ind, modem,
                   bounds>>

MarkDisconnected(p) ==
    /\ pc[p] = "hungup"
    /\ state' = "Disconnected"
    /\ Goto(p, IF p = Loop THEN after ELSE "idle")
    /\ UNCHANGED <<desired, handle, core, ctx, eventCh, timing, reset, giveup, locals, ind, modem,
                   bounds>>

-----------------------------------------------------------------------------
(* Stop: announce, cancel, wait for the loop and the indication handler,     *)
(* clean up.                                                                 *)

Stop(c) ==
    /\ pc[c] = "idle" /\ ctx # "cancelled"
    /\ desired' = FALSE /\ state' = "Stopping"
    /\ Goto(c, IF ~coreReady /\ state \in {"Disconnected", "Stopping"} THEN "cancel" ELSE "cancel_notify")
    /\ UNCHANGED <<handle, core, ctx, eventCh, timing, reset, giveup, locals, ind, modem,
                   inds, trouble>>

(* Mutant: Stop does not cancel the context. *)
StopCancels_KeepsContext(c) ==
    /\ pc[c] \in {"cancel", "cancel_notify"}
    /\ stopScheduledTimers
    /\ eventCh' = IF pc[c] = "cancel_notify" /\ Room THEN Append(eventCh, "Stop") ELSE eventCh
    /\ Goto(c, "join")
    /\ UNCHANGED <<conn, core, ctx, reset, giveup, locals, ind, modem, bounds>>

StopCancels(c) ==
    /\ pc[c] \in {"cancel", "cancel_notify"}
    /\ stopScheduledTimers
    /\ ctx' = IF ctx = "live" THEN "cancelled" ELSE ctx
    /\ eventCh' = IF pc[c] = "cancel_notify" /\ Room THEN Append(eventCh, "Stop") ELSE eventCh
    /\ Goto(c, "join")
    /\ UNCHANGED <<conn, core, reset, giveup, locals, ind, modem, bounds>>

(* A dial has the answer of the modem and has not stored it. *)
InHand == \E c \in Callers : pc[c] \in {"store_wds", "store_handle"} /\ got[c] # NothingGot

(* Mutant: Stop cleans up without waiting for the goroutines. *)
StopJoins_WithoutWaiting(c) ==
    /\ pc[c] = "join"
    /\ cleanup
    /\ overtaken' = InHand
    /\ Goto(c, "unstop")
    /\ UNCHANGED <<state, desired, ctx, eventCh, reset, giveup, loopLocals, ind, bounds>>

StopJoins(c) ==
    /\ pc[c] = "join"
    /\ pc[Loop] = "off" /\ ind = "off"
    /\ cleanup
    /\ overtaken' = InHand
    /\ Goto(c, "unstop")
    /\ UNCHANGED <<state, desired, ctx, eventCh, reset, giveup, loopLocals, ind, bounds>>

StopReturns(c) ==
    /\ pc[c] = "unstop"
    /\ state' = "Disconnected"
    /\ Goto(c, "stopped")
    /\ UNCHANGED <<desired, handle, core, ctx, eventCh, timing, reset, giveup, locals, ind, modem,
                   bounds>>

-----------------------------------------------------------------------------
(* eventLoop: one goroutine, at the select, in a handler, or blocked sending *)
(* to the channel only it reads.                                             *)

AtSelect == pc[Loop] = "select" /\ Loop \notin queueing

LoopExits ==
    /\ AtSelect /\ ctx = "cancelled"
    /\ Goto(Loop, "off")
    /\ UNCHANGED <<conn, core, ctx, eventCh, timing, reset, giveup, locals, ind, modem, bounds>>

LoopTicks ==
    /\ AtSelect
    /\ inds < MaxIndications /\ Affordable(1) /\ inds' = inds + 1
    /\ Goto(Loop, "send_tick")
    /\ UNCHANGED <<conn, core, ctx, eventCh, timing, reset, giveup, locals, ind, modem,
                   trouble, ops>>

LoopSends ==
    /\ \/ pc[Loop] = "send_tick" /\ Send("CheckFull")
       \/ pc[Loop] = "send_start" /\ Send("Start")
    /\ Goto(Loop, "select")
    /\ UNCHANGED <<conn, core, ctx, timing, reset, giveup, locals, ind, modem, bounds>>

(* Where the loop goes with an event. *)
handler == [Start |-> "dial", Stop |-> "hangup", StatusChanged |-> "select", ModemReset |-> "reset",
            CheckFull |-> "check", CheckTargeted |-> "check"]

(* handleEvent; scheduleTargetedCheck arms its timer once. *)
handleEvent ==
    /\ AtSelect /\ eventCh # <<>>
    /\ eventCh' = Tail(eventCh)
    /\ Goto(Loop, handler[Head(eventCh)])
    /\ after' = "select"
    /\ IF Head(eventCh) = "StatusChanged" /\ ~checkScheduled
       THEN /\ timers' = timers \cup {"check"} /\ checkScheduled' = TRUE
            /\ UNCHANGED fired
       ELSE UNCHANGED timing
    /\ UNCHANGED <<conn, core, ctx, reset, giveup, seen, got, overtaken, ind, modem, bounds>>

(* doStatusCheck: read the state, ask the modem, act on both. *)
CheckBegins ==
    /\ pc[Loop] = "check"
    /\ IF state \in {"Stopping", "Disconnected"} \/ client = 0
       THEN Goto(Loop, "select") /\ UNCHANGED seen
       ELSE /\ Goto(Loop, "query")
            /\ seen' = [seen EXCEPT !.state = state, !.desired = desired]
    /\ UNCHANGED <<conn, core, ctx, eventCh, timing, reset, giveup, after, got, overtaken, ind, modem,
                   bounds>>

CheckQueries ==
    /\ pc[Loop] = "query"
    /\ \/ /\ client = epoch /\ Works
          /\ seen' = [seen EXCEPT !.up = calls # {}]
          /\ Goto(Loop, "judge")
       \/ /\ IF client = epoch THEN Fails ELSE Works
          /\ Goto(Loop, "select") /\ UNCHANGED seen
    /\ UNCHANGED <<conn, core, ctx, eventCh, timing, reset, giveup, after, got, overtaken, ind, modem,
                   inds, ops>>

CheckJudges ==
    /\ pc[Loop] = "judge"
    /\ \/ /\ seen.up /\ seen.state # "Connected"
          /\ state' = "Connected"
          /\ Goto(Loop, "select")
          /\ Works /\ UNCHANGED <<handle, after>>
       \/ /\ seen.up /\ seen.state = "Connected"
          /\ \/ Works /\ Goto(Loop, "select") /\ UNCHANGED after
             \/ Fails /\ Goto(Loop, "hangup") /\ after' = "redial"
          /\ UNCHANGED <<state, handle>>
       \/ /\ ~seen.up /\ seen.state = "Connected"
          /\ handle' = 0 /\ state' = "Disconnected"
          /\ Goto(Loop, "redial")
          /\ Works /\ UNCHANGED after
       \/ /\ ~seen.up /\ seen.state # "Connected"
          /\ Goto(Loop, "select")
          /\ Works /\ UNCHANGED <<state, handle, after>>
    /\ UNCHANGED <<desired, core, ctx, eventCh, timing, reset, giveup, seen, got, overtaken, ind,
                   modem, inds, ops>>

CheckRedials ==
    /\ pc[Loop] = "redial"
    /\ Goto(Loop, IF seen.desired /\ state # "Stopping" THEN "send_start" ELSE "select")
    /\ UNCHANGED <<conn, core, ctx, eventCh, timing, reset, giveup, locals, ind, modem, bounds>>

-----------------------------------------------------------------------------
(* Mutant: a reset that arrives during a recovery is dropped. *)
enqueueModemResetEvent_DropsCoalesced(g) ==
    IF recovering \/ recent
    THEN UNCHANGED <<pending, recent, queueing>>
    ELSE recent' = TRUE /\ queueing' = queueing \cup {g} /\ UNCHANGED pending

(* Modem resets.  enqueueModemResetEvent, first section: coalesce, dedup.    *)

enqueueModemResetEvent(g) ==
    \/ /\ recovering
       /\ pending' = TRUE /\ UNCHANGED <<recent, queueing>>
    \/ /\ ~recovering /\ recent
       /\ UNCHANGED <<pending, recent, queueing>>
    \/ /\ ~recovering /\ ~recent
       /\ recent' = TRUE /\ queueing' = queueing \cup {g}
       /\ UNCHANGED pending

(* Then the send; on a full channel a timer tries again. *)
QueueReset(g) ==
    /\ g \in queueing \ {"deferred"}
    /\ queueing' = queueing \ {g}
    /\ \/ /\ Send("ModemReset")
          /\ UNCHANGED <<pending, deferred, timing>>
       \/ /\ ~Room /\ deferred
          /\ pending' = TRUE
          /\ UNCHANGED <<eventCh, deferred, timing>>
       \/ /\ ~Room /\ ~deferred
          /\ deferred' = TRUE /\ Arm("deferred")
          /\ UNCHANGED <<eventCh, pending>>
    /\ UNCHANGED <<conn, core, ctx, recovering, recent, giveup, pc, locals, ind, modem, bounds>>

QueueDeferred ==
    /\ "deferred" \in queueing
    /\ queueing' = queueing \ {"deferred"}
    /\ \/ /\ Send("ModemReset")
          /\ UNCHANGED <<pending, deferred, timing>>
       \/ /\ ~Room
          /\ deferred' = TRUE /\ pending' = TRUE /\ Arm("deferred_retry")
          /\ UNCHANGED eventCh
    /\ UNCHANGED <<conn, core, ctx, recovering, recent, giveup, pc, locals, ind, modem, bounds>>

(* modemResetDedupWindow passes. *)
DedupWindowCloses ==
    /\ recent /\ recent' = FALSE
    /\ UNCHANGED <<conn, core, ctx, eventCh, timing, recovering, pending, deferred, queueing, giveup,
                   pc, locals, ind, modem, bounds>>

(* handleModemResetEvent and the first lines of doRecoverFromModemReset.  *)
handleModemResetEvent ==
    /\ pc[Loop] = "reset"
    /\ recovering' = TRUE /\ pending' = FALSE
    /\ IF state = "Stopping"
       THEN Goto(Loop, "recovered") /\ UNCHANGED <<loopLocals, gaveUp>>
       ELSE /\ Goto(Loop, "hangup")
            /\ after' = "clean" /\ seen' = [seen EXCEPT !.desired = desired]
            /\ gaveUp' = FALSE
    /\ UNCHANGED <<conn, core, ctx, eventCh, timing, recent, deferred, queueing, failing, got,
                   overtaken, ind, modem, bounds>>

RecoverCleans ==
    /\ pc[Loop] = "clean"
    /\ StartIsPrompt => \A c \in Callers : pc[c] \notin {"ready", "settle"}
    /\ cleanup
    /\ Goto(Loop, "reopen")
    /\ UNCHANGED <<state, desired, ctx, eventCh, reset, giveup, loopLocals, overtaken, ind, bounds>>

(* Mutant: the retry is counted and never armed. *)
scheduleRecoverRetry_ArmsNothing == failing' = TRUE /\ UNCHANGED <<timing, gaveUp>>

(* scheduleRecoverRetry: give up when MaxRecoverElapsed has passed since the *)
(* first failure, else arm the retry.                                        *)
scheduleRecoverRetry ==
    \/ /\ failing
       /\ failing' = FALSE /\ gaveUp' = TRUE
       /\ UNCHANGED timing
    \/ /\ failing' = TRUE /\ Arm("retry")
       /\ UNCHANGED gaveUp

(* openClientAndAllocateServices, its failure, and the control device gone.  *)
RecoverReopens ==
    /\ pc[Loop] = "reopen"
    /\ \/ /\ Works
          /\ client' = epoch /\ controlReady' = TRUE
          /\ inbox' = <<>>
          /\ Goto(Loop, "quiet")
          /\ UNCHANGED <<state, timing, giveup>>
       \/ /\ Fails
          /\ state' = "Disconnected"
          /\ \/ scheduleRecoverRetry
             \/ failing' = FALSE /\ gaveUp' = TRUE /\ UNCHANGED timing
          /\ controlReady' = FALSE
          /\ Goto(Loop, "recovered")
          /\ UNCHANGED <<client, inbox>>
    /\ coreReady' = FALSE
    /\ UNCHANGED <<desired, handle, wds, ctx, eventCh, reset, locals, ind, epoch, calls,
                   inds, ops>>

(* Mutant: a reset in the quiet window makes it wait on instead of return. *)
waitResetQuietWindow_WaitsOn ==
    /\ pc[Loop] = "quiet"
    /\ \/ /\ ~pending /\ ~recent
          /\ Goto(Loop, "ready")
          /\ UNCHANGED <<timing, giveup>>
       \/ /\ ctx = "cancelled"
          /\ scheduleRecoverRetry
          /\ Goto(Loop, "recovered")
    /\ coreReady' = FALSE
    /\ UNCHANGED <<conn, controlReady, client, wds, ctx, eventCh, reset, locals, ind, modem, bounds>>

(* The quiet window is as long as the dedup window and begins later.  Every  *)
(* stage of the recovery marks the core not ready again.                     *)
waitResetQuietWindow ==
    /\ pc[Loop] = "quiet"
    /\ \/ /\ ~pending /\ ~recent
          /\ Goto(Loop, "ready")
          /\ UNCHANGED <<timing, giveup>>
       \/ /\ pending
          /\ Goto(Loop, "recovered")
          /\ UNCHANGED <<timing, giveup>>
       \/ /\ ~pending /\ ctx = "cancelled"
          /\ scheduleRecoverRetry
          /\ Goto(Loop, "recovered")
    /\ coreReady' = FALSE
    /\ UNCHANGED <<conn, controlReady, client, wds, ctx, eventCh, reset, locals, ind, modem, bounds>>

(* The end of handleModemResetEvent: a coalesced reset is queued again.  *)
ResetHandled ==
    /\ pc[Loop] = "recovered"
    /\ recovering' = FALSE /\ pending' = FALSE
    /\ Goto(Loop, IF pending THEN "requeue" ELSE "select")
    /\ UNCHANGED <<conn, core, ctx, eventCh, timing, recent, deferred, queueing, giveup, locals, ind,
                   modem, bounds>>

Requeue ==
    /\ pc[Loop] = "requeue"
    /\ enqueueModemResetEvent(Loop)
    /\ Goto(Loop, "select")
    /\ UNCHANGED <<conn, core, ctx, eventCh, timing, recovering, deferred, giveup, locals, ind,
                   modem, bounds>>

-----------------------------------------------------------------------------
(* Timer callbacks: off the list of armed timers, then, unless the context   *)
(* is cancelled, the scheduled function.                                     *)

TimerFires(k) ==
    /\ k \in timers
    /\ timers' = timers \ {k} /\ fired' = fired \cup {k}
    /\ UNCHANGED <<checkScheduled, conn, core, ctx, eventCh, reset, giveup, pc, locals, ind, modem,
                   bounds>>

StaleTimer(k) ==
    /\ k \in fired /\ ctx = "cancelled"
    /\ fired' = fired \ {k}
    /\ UNCHANGED <<timers, checkScheduled, conn, core, ctx, eventCh, reset, giveup, pc, locals, ind,
                   modem, bounds>>

Runs(k) == k \in fired /\ ctx # "cancelled" /\ fired' = fired \ {k} /\ UNCHANGED timers

ReconnectTimer ==
    /\ Runs("start")
    /\ Send("Start")
    /\ UNCHANGED <<checkScheduled, conn, core, ctx, reset, giveup, pc, locals, ind, modem, bounds>>

CheckTimer ==
    /\ Runs("check")
    /\ checkScheduled' = FALSE
    /\ eventCh' = IF Room THEN Append(eventCh, "CheckTargeted") ELSE eventCh
    /\ UNCHANGED <<conn, core, ctx, reset, giveup, pc, locals, ind, modem, bounds>>

RetryTimer ==
    /\ Runs("retry")
    /\ enqueueModemResetEvent("retry")
    /\ UNCHANGED <<checkScheduled, conn, core, ctx, eventCh, recovering, deferred, giveup, pc, locals,
                   ind, modem, bounds>>

DeferredTimer ==
    /\ Runs("deferred")
    /\ deferred' = FALSE
    /\ IF recovering
       THEN pending' = TRUE /\ UNCHANGED <<recent, queueing>>
       ELSE recent' = TRUE /\ queueing' = queueing \cup {"deferred"} /\ UNCHANGED pending
    /\ UNCHANGED <<checkScheduled, conn, core, ctx, eventCh, recovering, giveup, pc, locals, ind, modem,
                   bounds>>

(* It clears the dedup window first, so it is queued unless a recovery runs. *)
DeferredRetryTimer ==
    /\ Runs("deferred_retry")
    /\ deferred' = FALSE
    /\ IF recovering
       THEN pending' = TRUE /\ recent' = FALSE /\ UNCHANGED queueing
       ELSE recent' = TRUE /\ queueing' = queueing \cup {"deferred_retry"} /\ UNCHANGED pending
    /\ UNCHANGED <<checkScheduled, conn, core, ctx, eventCh, recovering, giveup, pc, locals, ind, modem,
                   bounds>>

-----------------------------------------------------------------------------
(* indicationHandler. *)

IndicationArrives ==
    /\ ind = "reading" /\ "indication" \notin queueing
    /\ inbox # <<>>
    /\ inbox' = Tail(inbox)
    /\ \/ /\ Head(inbox) = "reset"
          /\ enqueueModemResetEvent("indication")
          /\ UNCHANGED ind
       \/ /\ Head(inbox) = "status"
          /\ ind' = "sending"
          /\ UNCHANGED <<pending, recent, queueing>>
    /\ UNCHANGED <<conn, core, ctx, eventCh, timing, recovering, deferred, giveup, pc, locals,
                   epoch, calls, bounds>>

IndicationSends ==
    /\ ind = "sending"
    /\ Send("StatusChanged")
    /\ ind' = "reading"
    /\ UNCHANGED <<conn, core, ctx, timing, reset, giveup, pc, locals, modem, bounds>>

IndicationExits ==
    /\ ind = "reading" /\ "indication" \notin queueing
    /\ ctx = "cancelled"
    /\ ind' = "off"
    /\ UNCHANGED <<conn, core, ctx, eventCh, timing, reset, giveup, pc, locals, modem, bounds>>

-----------------------------------------------------------------------------
(* The modem, the network, and RequestCoreRecovery or                        *)
(* triggerCoreRecoveryFromService in any goroutine of the program.           *)

Notify(what) == inbox' = IF client # 0 THEN Append(inbox, what) ELSE inbox

ModemResets ==
    /\ epoch <= MaxResets /\ Affordable(1)
    /\ epoch' = epoch + 1
    /\ calls' = {}
    /\ Notify("reset")
    /\ UNCHANGED <<conn, core, ctx, eventCh, timing, reset, giveup, pc, locals, ind, bounds>>

NetworkDropsCalls ==
    /\ calls # {}
    /\ trouble < MaxTrouble /\ Affordable(1) /\ trouble' = trouble + 1
    /\ calls' = {}
    /\ UNCHANGED <<conn, core, ctx, eventCh, timing, reset, giveup, pc, locals, ind, epoch, inbox,
                   inds, ops>>

StatusIndication ==
    /\ client = epoch
    /\ inds < MaxIndications /\ Affordable(1) /\ inds' = inds + 1
    /\ Notify("status")
    /\ UNCHANGED <<conn, core, ctx, eventCh, timing, reset, giveup, pc, locals, ind, epoch, calls,
                   trouble, ops>>

RequestCoreRecovery ==
    /\ coreReady /\ state # "Stopping"
    /\ trouble < MaxTrouble /\ Affordable(1) /\ trouble' = trouble + 1
    /\ enqueueModemResetEvent("service")
    /\ UNCHANGED <<conn, core, ctx, eventCh, timing, recovering, deferred, giveup, pc, locals, ind,
                   modem, inds, ops>>

-----------------------------------------------------------------------------
Init ==
    /\ state = "Disconnected" /\ desired = FALSE /\ handle = 0
    /\ controlReady = FALSE /\ coreReady = FALSE /\ client = 0 /\ wds = "nil"
    /\ ctx = "none" /\ eventCh = <<>>
    /\ timers = {} /\ fired = {} /\ checkScheduled = FALSE
    /\ recovering = FALSE /\ pending = FALSE /\ recent = FALSE /\ deferred = FALSE
    /\ queueing = {}
    /\ failing = FALSE /\ gaveUp = FALSE
    /\ pc = [p \in Procs |-> IF p = Loop THEN "off" ELSE "idle"]
    /\ after = "select" /\ seen = [state |-> "Disconnected", desired |-> FALSE, up |-> FALSE]
    /\ got = [p \in Procs |-> NothingGot] /\ overtaken = FALSE
    /\ ind = "off"
    /\ epoch = 1 /\ calls = {} /\ inbox = <<>>
    /\ inds = 0 /\ trouble = 0 /\ ops = 0

Calling(c, call) == call \in Calls[c] /\ ops < MaxOps /\ Affordable(OpCost) /\ ops' = ops + 1

Procedure(p) ==
    \/ MarkReady(p) \/ Settle(p)
    \/ doConnect(p)
    \/ ensureDataPlane(p) \/ ServiceAllocated(p) \/ StoreService(p) \/ EnsureWDA(p)
    \/ StartNetworkInterface(p) \/ CallAnswered(p) \/ StoreHandle(p)
    \/ MarkConnected(p) \/ handleDialFailure(p)
    \/ HangUp(p) \/ ForgetCall(p) \/ MarkDisconnected(p)

CallerNext(c) ==
    \/ StartOpens(c) \/ StartLaunches(c)
    \/ StopCancels(c) \/ StopJoins(c) \/ StopReturns(c)
    \/ Procedure(c)

CallNext(c) ==
    \/ Calling(c, "StartCore") /\ StartCore(c)
    \/ Calling(c, "Connect") /\ Connect(c)
    \/ Calling(c, "Disconnect") /\ Disconnect(c)
    \/ Calling(c, "Stop") /\ Stop(c)

LoopNext ==
    \/ LoopExits \/ LoopSends \/ handleEvent
    \/ CheckBegins \/ CheckQueries \/ CheckJudges \/ CheckRedials
    \/ handleModemResetEvent \/ RecoverCleans \/ RecoverReopens \/ waitResetQuietWindow
    \/ ResetHandled \/ Requeue
    \/ Procedure(Loop)

TimerNext ==
    \/ \E k \in Timers : TimerFires(k) \/ StaleTimer(k)
    \/ ReconnectTimer \/ CheckTimer \/ RetryTimer \/ DeferredTimer \/ DeferredRetryTimer
    \/ DedupWindowCloses

SendNext == (\E g \in Senders : QueueReset(g)) \/ QueueDeferred

IndicationNext == IndicationArrives \/ IndicationSends \/ IndicationExits

ModemNext == ModemResets \/ NetworkDropsCalls \/ StatusIndication \/ RequestCoreRecovery

Next ==
    \/ \E c \in Callers : CallerNext(c) \/ CallNext(c)
    \/ LoopNext \/ LoopTicks
    \/ TimerNext \/ SendNext \/ IndicationNext \/ ModemNext

Spec == Init /\ [][Next]_vars

(* Goroutines with something to do are scheduled, timers fire, requests end. *)
(* Nothing is assumed of the modem, of new calls or of the tick.             *)
Fairness ==
    /\ \A c \in Callers : WF_vars(CallerNext(c))
    /\ WF_vars(LoopNext)
    /\ \A g \in Senders : WF_vars(QueueReset(g) \/ (g = "deferred" /\ QueueDeferred))
    /\ \A k \in Timers : WF_vars(TimerFires(k)) /\ WF_vars(StaleTimer(k))
    /\ WF_vars(ReconnectTimer) /\ WF_vars(CheckTimer)
    /\ WF_vars(RetryTimer) /\ WF_vars(DeferredTimer)
    /\ WF_vars(DeferredRetryTimer) /\ WF_vars(DedupWindowCloses)
    /\ WF_vars(IndicationNext)

FairSpec == Spec /\ Fairness

-----------------------------------------------------------------------------
Labels == {"off", "idle", "select", "open", "launch", "ready", "settle", "dial", "alloc",
           "allocating", "store_wds", "wda", "call", "calling", "store_handle", "connected",
           "dialfail", "hangup", "forget", "hungup", "cancel", "cancel_notify", "join", "unstop",
           "stopped", "panicked", "send_tick", "send_start", "check", "query", "judge", "redial",
           "reset", "clean", "reopen", "quiet", "recovered", "requeue"}
Services == {"nil", "open", "closed"}
States == {"Disconnected", "Connecting", "Connected", "Stopping"}

TypeOK ==
    /\ state \in States /\ desired \in BOOLEAN /\ handle \in Nat
    /\ controlReady \in BOOLEAN /\ coreReady \in BOOLEAN /\ client \in Nat /\ wds \in Services
    /\ ctx \in {"none", "live", "cancelled"}
    /\ eventCh \in Seq(Events) /\ Len(eventCh) <= EventCap
    /\ timers \subseteq Timers /\ fired \subseteq Timers /\ checkScheduled \in BOOLEAN
    /\ recovering \in BOOLEAN /\ pending \in BOOLEAN /\ recent \in BOOLEAN /\ deferred \in BOOLEAN
    /\ queueing \subseteq Senders
    /\ failing \in BOOLEAN /\ gaveUp \in BOOLEAN
    /\ pc \in [Procs -> Labels]
    /\ after \in {"select", "redial", "clean"}
    /\ seen \in [state : States, desired : BOOLEAN, up : BOOLEAN]
    /\ got \in [Procs -> [wds : Services, handle : Nat]] /\ overtaken \in BOOLEAN
    /\ ind \in {"off", "reading", "sending"}
    /\ epoch \in Nat /\ calls \subseteq Nat /\ inbox \in Seq({"reset", "status"})
    /\ inds \in 0..MaxIndications /\ trouble \in 0..MaxTrouble /\ ops \in 0..MaxOps

(* A reset on its way to the loop, or a recovery or its retry under way.     *)
ResetOnItsWay ==
    \/ "ModemReset" \in {eventCh[i] : i \in DOMAIN eventCh}
    \/ queueing # {}
    \/ (timers \cup fired) \cap {"retry", "deferred", "deferred_retry"} # {}
    \/ recovering
    \/ pc[Loop] \in {"reset", "requeue"}
    \/ "reset" \in {inbox[i] : i \in DOMAIN inbox}

(* The event loop has not dereferenced a service that is gone: a panic there  *)
(* ends the program.  It can happen (see README).                            *)
LoopSurvives == pc[Loop] # "panicked"

Running ==
    /\ ctx = "live" /\ LoopSurvives
    /\ \A c \in Callers : pc[c] \notin {"ready", "settle", "cancel", "cancel_notify"}

(* A reset, or the retry of a failed recovery, that is dropped: it meets the *)
(* dedup window of the reset whose recovery has just failed, or a full        *)
(* channel while modemResetDeferred is set.                                   *)
DroppedInWindow == recent /\ ~recovering /\ (RetryTimer \/ Requeue \/ IndicationArrives)
DroppedAsDeferred == ~Room /\ deferred /\ \E g \in Senders : QueueReset(g)

(* The core is down, nothing under way will bring it up, and nobody has been *)
(* told (EventRecoveryExhausted hands the device to the pool).                *)
Stranded == Running /\ ~coreReady /\ ~ResetOnItsWay /\ ~gaveUp

(* Only such a drop strands a core: no failure of a recovery, no reset during *)
(* one, no timer that a cleanup stops and no lost call does.                  *)
StrandedByDropOnly == [][Stranded' => Stranded \/ DroppedInWindow \/ DroppedAsDeferred]_vars

(* A core that is ready talks to the modem through a client from before its  *)
(* last reset, and nothing will replace it.                                   *)
CutOff == Running /\ coreReady /\ client # epoch /\ ~ResetOnItsWay

(* Of a core that is ready only a full channel can lose a reset: it is dropped *)
(* so itself, or it meets the dedup window of one that was (which left         *)
(* modemResetPending set).  Otherwise the dedup window, which drops resets on  *)
(* purpose, never drops one that counts.                                      *)
CutOffByDeferralOnly ==
    [][CutOff' => CutOff \/ DroppedAsDeferred \/ (DroppedInWindow /\ pending)]_vars

(* When Stop has returned, no goroutine of the manager runs, its context is  *)
(* cancelled (a timer armed too late does nothing) and it holds no client     *)
(* and no service of one that is open.  It holds no service and no call at    *)
(* all, unless a Connect had the modem's answer in hand when Stop cleaned up  *)
(* and stored it afterwards.                                                  *)
StopIsClean ==
    \A c \in Callers :
        pc[c] = "stopped" =>
            /\ client = 0 /\ wds # "open" /\ ~coreReady /\ ~controlReady
            /\ pc[Loop] = "off" /\ ind = "off" /\ ctx # "live"
            /\ overtaken \/ (wds = "nil" /\ handle = 0)

(* The channel is full and the loop, its only reader, itself waits to send to *)
(* it, or has gone and left the indication handler waiting.                   *)
ChannelStuck ==
    /\ ~Room
    /\ \/ pc[Loop] \in {"send_tick", "send_start"}
       \/ pc[Loop] = "off" /\ ind = "sending"

(* Stop returns, unless the loop panics or the channel is stuck. *)
InStop == \E c \in Callers : pc[c] \in {"cancel", "cancel_notify", "join", "unstop"}

StopEnds == InStop ~> (~InStop \/ ~LoopSurvives \/ ChannelStuck)

(* The core comes back, unless the manager gives up or is stopped, the core  *)
(* is stranded as above, or the channel is full again and again: a reset that *)
(* finds no room is only tried again after a while.                           *)
RecoveryEnds ==
    \/ (Running /\ ~coreReady) ~> (coreReady \/ gaveUp \/ ~Running \/ Stranded)
    \/ []<>~Room
=============================================================================

----------------------------- MODULE DevicePool -----------------------------
(***************************************************************************)
(* internal/device: how the pool starts, watches, removes and rebuilds the  *)
(* worker of one managed QMI device.  Four separate marks say what is under *)
(* way: `rebuilding` and the number of the newest start attempt (pool.go),  *)
(* `modemRebootRecovering` (pool_reboot_recovery.go), the active event of   *)
(* TransportRecoveryController, and the phase of lifecycleCoordinator.      *)
(*                                                                         *)
(* Goroutines come and go: a slot of Procs runs one call, of the API, of    *)
(* the udev watcher, of the health loop or of a recovery, and is free       *)
(* again.  An action is one critical section of p.mu, c.mu or lc.mu, or one *)
(* call that takes time.  Start attempts are compared for equality only, so *)
(* an attempt is the goroutine that began it.  Time is abstract: a delay    *)
(* elapses at any moment after it began; only the 90 s of the start watchdog*)
(* are known to outlast every start that is not hung.                       *)
(***************************************************************************)
EXTENDS Naturals

CONSTANTS
    Procs,          \* slots for goroutines
    Gens,           \* worker instances; a generation number is never reused while known
    NoProc, NoWorker,
    Operations,     \* what the API and the program ask: subset of Asked
    Rounds,         \* scans of a recovery (len(opts.delays))
    RebuildMax,     \* rebuildMaxInWindow
    MaxTrouble,     \* bound: failures of the device and of the QMI core, hung calls
    MaxOps          \* bound: operations asked for

Asked == {"remove", "rebuild", "reboot"}

ASSUME PoolAssumption ==
    /\ NoProc \notin Procs /\ NoWorker \notin Gens
    /\ Operations \subseteq Asked
    /\ Rounds \in Nat \ {0} /\ RebuildMax \in Nat
    /\ MaxTrouble \in Nat /\ MaxOps \in Nat

VARIABLES
    workers, rebuilding, current,       \* p.workers[id], p.rebuilding[id], whose p.rebuildAttempt[id] is
    recovering, wake,                   \* p.modemRebootRecovering[id], token in p.modemRebootWakeups[id]
    active, ctlGen, rebuilds,           \* TransportRecoveryController
    phase, expired,                     \* lifecycleCoordinator: the phase, its deadline is past
    core, running, retry, conv,         \* QMICore of a worker; workers not running; retry and convergence loops
    pc, task, then, w, mark, left,      \* goroutines: where, for what, RemoveWorker's return, locals
    armed,                              \* goroutines whose start watchdog may still fire
    suspect,                            \* the worker the health loop holds
    attached, trouble, ops       \* the USB device; counters of the bounds

pool == <<workers, rebuilding, current>>
reboot == <<recovering, wake>>
transport == <<active, ctlGen, rebuilds>>
lifecycle == <<phase, expired>>
instances == <<core, running, retry, conv>>
locals == <<task, then, w, mark, left>>
environment == <<attached, trouble, ops>>
vars == <<pool, reboot, transport, lifecycle, instances, pc, locals, armed, suspect, environment>>

-----------------------------------------------------------------------------
Goto(p, label) == pc' = [pc EXCEPT ![p] = label]

(* A goroutine begins at label; its slot and what it carries.              *)
Go(p, what, label, worker) ==
    /\ pc[p] = "idle"
    /\ Goto(p, label)
    /\ task' = [task EXCEPT ![p] = what]
    /\ w' = [w EXCEPT ![p] = worker]
    /\ UNCHANGED <<then, mark, left>>

(* A call ends, and its locals with it; the goroutine goes on, or ends too.  *)
Leave(p, label) ==
    /\ Goto(p, label)
    /\ w' = [w EXCEPT ![p] = NoWorker]
    /\ then' = [then EXCEPT ![p] = "none"]
    /\ mark' = [mark EXCEPT ![p] = FALSE]
    /\ IF label = "idle"
       THEN task' = [task EXCEPT ![p] = "none"] /\ left' = [left EXCEPT ![p] = 0]
       ELSE UNCHANGED <<task, left>>
Return(p) == Leave(p, "idle")

(* A start or a scan is over: a recovery looks at the result. *)
Continue(p) == Leave(p, IF task[p] = "recovery" THEN "verify" ELSE "idle")

Works == UNCHANGED trouble
Fails(freely) == \/ freely /\ UNCHANGED trouble
                 \/ ~freely /\ trouble < MaxTrouble /\ trouble' = trouble + 1

BeginRecovery == phase' = "recovering" /\ expired' = FALSE
FinishOnline == phase' = "online" /\ expired' = FALSE
MarkOffline == phase' = "offline" /\ expired' = FALSE

(* lifecycle.CanEvict *)
CanEvict == phase # "recovering" \/ expired

(* Controller.Observe: nil generations always match. *)
Observes(g) == ~active /\ (ctlGen = NoWorker \/ ctlGen = g)

Healthy(g) == core[g] = "up"

-----------------------------------------------------------------------------
(* AddWorkerFromConfig *)

Adding == {"build", "hung", "assign", "set_generation", "check", "register",
           "starting", "stuck", "scrap", "end_add"}
HungIn(p) == pc[p] \in {"hung", "stuck"}

AddEnter(p) ==
    /\ pc[p] = "add"
    /\ IF workers # NoWorker \/ rebuilding
       THEN /\ Continue(p)
            /\ UNCHANGED <<rebuilding, current, armed, lifecycle>>
       ELSE /\ rebuilding' = TRUE /\ current' = p
            /\ armed' = armed \cup {p}
            /\ BeginRecovery
            /\ Goto(p, "build") /\ UNCHANGED locals
    /\ UNCHANGED <<workers, reboot, transport, instances, suspect, environment>>

(* Discovery, the modem manager and the QMI objects; a probe may hang.      *)
Build(p) ==
    /\ pc[p] \in {"build", "hung"}
    /\ \/ attached /\ Works /\ Goto(p, "assign")
       \/ Fails(~attached) /\ Goto(p, "end_add")
    /\ UNCHANGED <<pool, reboot, transport, lifecycle, instances, locals, armed, suspect, attached, ops>>

BuildHangs(p) ==
    /\ pc[p] = "build" /\ Fails(FALSE) /\ Goto(p, "hung")
    /\ UNCHANGED <<pool, reboot, transport, lifecycle, instances, locals, armed, suspect, attached, ops>>

(* Generation numbers only have to differ from every one still held somewhere. *)
Held == {workers, ctlGen, suspect} \cup {w[p] : p \in Procs} \cup retry \cup conv
        \cup {g \in Gens : core[g] # "off"}
Fresh == CHOOSE g \in Gens : g \notin Held

(* assignWorkerGeneration, under p.mu, then under c.mu *)
AssignGeneration(p) ==
    /\ pc[p] = "assign"
    /\ Gens \ Held # {}
    /\ w' = [w EXCEPT ![p] = Fresh]
    /\ running' = running \cup {Fresh}
    /\ Goto(p, "set_generation")
    /\ UNCHANGED <<pool, reboot, transport, lifecycle, core, retry, conv, task, then, mark, left, armed, suspect, environment>>

SetWorkerGeneration(p) ==
    /\ pc[p] = "set_generation"
    /\ ctlGen' = w[p]
    /\ rebuilds' = IF ctlGen = w[p] THEN rebuilds ELSE 0
    /\ Goto(p, "check")
    /\ UNCHANGED <<pool, reboot, active, lifecycle, instances, locals, armed, suspect, environment>>

(* m.Start may fail; an attempt that is no longer the newest gives up. *)
CheckAttempt(p) ==
    /\ pc[p] = "check"
    /\ \/ /\ current = p /\ Works
          /\ Goto(p, "register") /\ UNCHANGED running
       \/ /\ current # p /\ Works
          /\ Goto(p, "end_add") /\ running' = running \ {w[p]}
       \/ /\ Fails(~attached)
          /\ Goto(p, "end_add") /\ running' = running \ {w[p]}
    /\ UNCHANGED <<pool, reboot, transport, lifecycle, core, retry, conv, locals, armed, suspect, attached, ops>>

(* registerWorkerStarting; startQMICoreWithStartupBudget begins.             *)
Register(p) ==
    /\ pc[p] = "register"
    /\ IF workers = NoWorker
       THEN /\ workers' = w[p] /\ BeginRecovery
            /\ core' = [core EXCEPT ![w[p]] = "starting"]
            /\ Goto(p, "starting") /\ UNCHANGED running
       ELSE /\ running' = running \ {w[p]}
            /\ Goto(p, "end_add") /\ UNCHANGED <<workers, core, lifecycle>>
    /\ UNCHANGED <<rebuilding, current, reboot, transport, retry, conv, locals, armed, suspect, environment>>

(* Stop does not cancel a start under way: the core of a removed worker may  *)
(* still come up, and call the device online.  It is followed no further.    *)
Started(g) == IF g \in running THEN "up" ELSE "off"

(* Mutant: the core is stopped while the worker is still registered. *)
CoreStarted_StopsFirst(p) ==
    /\ pc[p] \in {"starting", "stuck"}
    /\ \/ /\ attached /\ Works
          /\ core' = [core EXCEPT ![w[p]] = Started(w[p])] /\ FinishOnline
          /\ Goto(p, "end_add") /\ UNCHANGED <<workers, retry, running>>
       \/ /\ Fails(~attached \/ w[p] \notin running)
          /\ core' = [core EXCEPT ![w[p]] = "off"]
          /\ \/ retry' = retry \cup {w[p]} /\ Goto(p, "end_add") /\ UNCHANGED <<workers, running>>
             \/ /\ running' = running \ {w[p]}
                /\ Goto(p, "scrap") /\ UNCHANGED <<workers, retry>>
          /\ UNCHANGED lifecycle
    /\ UNCHANGED <<rebuilding, current, reboot, transport, conv, locals, armed, suspect, attached, ops>>

(* StartCoreContext returns.  A timeout leaves the retry loop behind, a dead *)
(* transport gives the worker up.                                            *)
CoreStarted(p) ==
    /\ pc[p] \in {"starting", "stuck"}
    /\ \/ /\ attached /\ Works
          /\ core' = [core EXCEPT ![w[p]] = Started(w[p])] /\ FinishOnline
          /\ Goto(p, "end_add") /\ UNCHANGED <<workers, retry>>
       \/ /\ Fails(~attached \/ w[p] \notin running)
          /\ core' = [core EXCEPT ![w[p]] = "off"]
          /\ \/ retry' = retry \cup {w[p]} /\ Goto(p, "end_add") /\ UNCHANGED workers
             \/ /\ workers' = IF workers = w[p] THEN NoWorker ELSE workers
                /\ Goto(p, "scrap") /\ UNCHANGED retry
          /\ UNCHANGED lifecycle
    /\ UNCHANGED <<rebuilding, current, reboot, transport, running, conv, locals, armed, suspect, attached, ops>>

CoreStartHangs(p) ==
    /\ pc[p] = "starting" /\ Fails(FALSE) /\ Goto(p, "stuck")
    /\ UNCHANGED <<pool, reboot, transport, lifecycle, instances, locals, armed, suspect, attached, ops>>

(* qmiCore.Stop and m.Stop of a worker whose start failed *)
Scrap(p) ==
    /\ pc[p] = "scrap"
    /\ running' = running \ {w[p]} /\ Goto(p, "end_add")
    /\ UNCHANGED <<pool, reboot, transport, lifecycle, core, retry, conv, locals, armed, suspect, environment>>

(* The deferred close(watchdogStop) and endRebuildAttemptIfCurrent *)
AddEnds(p) ==
    /\ pc[p] = "end_add"
    /\ armed' = armed \ {p}
    /\ rebuilding' = (rebuilding /\ current # p)
    /\ Continue(p)
    /\ UNCHANGED <<workers, current, reboot, transport, lifecycle, instances, suspect, environment>>

(* Mutant: the watchdog reports, and frees nothing. *)
Watchdog_OnlyLogs(p) ==
    /\ p \in armed /\ HungIn(p)
    /\ armed' = armed \ {p}
    /\ UNCHANGED <<pool, reboot, transport, lifecycle, instances, pc, locals, suspect, environment>>

(* startBootstrapWatchdog: fires once, after 90 s, on a start that hangs. *)
Watchdog(p) ==
    /\ p \in armed /\ HungIn(p)
    /\ armed' = armed \ {p}
    /\ rebuilding' = (rebuilding /\ current # p)
    /\ UNCHANGED <<workers, current, reboot, transport, lifecycle, instances, pc, locals, suspect, environment>>

-----------------------------------------------------------------------------
(* RemoveWorker; then[p] says where the caller goes on.                      *)

Removed(p, ok) ==
    \/ then[p] = "none" /\ Return(p)
    \/ (then[p] = "scanned" \/ (then[p] = "readd" /\ ~ok)) /\ Continue(p)
    \/ then[p] = "readd" /\ ok /\ Leave(p, "add")
    \/ then[p] \in {"add", "round", "handover"} /\ Leave(p, then[p])

CallRemove(p, return) == Goto(p, "remove") /\ then' = [then EXCEPT ![p] = return]

RemoveTakes(p) ==
    /\ pc[p] = "remove"
    /\ IF workers # NoWorker
       THEN /\ w' = [w EXCEPT ![p] = workers]
            /\ mark' = [mark EXCEPT ![p] = ~rebuilding]
            /\ workers' = NoWorker /\ rebuilding' = TRUE
            /\ Goto(p, "stop") /\ UNCHANGED <<task, then, left>>
       ELSE /\ IF rebuilding THEN Goto(p, "settle") /\ UNCHANGED locals ELSE Removed(p, FALSE)
            /\ UNCHANGED <<workers, rebuilding>>
    /\ UNCHANGED <<current, reboot, transport, lifecycle, instances, armed, suspect, environment>>

(* waitWorkerInitSettled: the start settles, or ten seconds pass. *)
Settle(p) ==
    /\ pc[p] = "settle"
    /\ IF workers # NoWorker \/ ~rebuilding THEN Goto(p, "remove") /\ UNCHANGED locals
                                            ELSE Removed(p, FALSE)
    /\ UNCHANGED <<pool, reboot, transport, lifecycle, instances, armed, suspect, environment>>

(* Mutant: the mark stays when the device is in recovery. *)
StopWorker_KeepsMark(p) ==
    /\ pc[p] = "stop"
    /\ running' = running \ {w[p]}
    /\ core' = [core EXCEPT ![w[p]] = IF @ = "starting" THEN @ ELSE "off"]
    /\ IF phase = "recovering" THEN UNCHANGED lifecycle ELSE MarkOffline
    /\ rebuilding' = (rebuilding /\ (~mark[p] \/ phase = "recovering"))
    /\ Removed(p, TRUE)
    /\ UNCHANGED <<workers, current, reboot, transport, retry, conv, armed, suspect, environment>>

(* close(worker.stop), QMICore.Stop and the rest of the worker; then the    *)
(* phase, and the mark if this call set it.  That QMICore.Stop ends is        *)
(* StopEnds of QmiManager, and what it excepts is not modelled here.         *)
StopWorker(p) ==
    /\ pc[p] = "stop"
    /\ running' = running \ {w[p]}
    /\ core' = [core EXCEPT ![w[p]] = IF @ = "starting" THEN @ ELSE "off"]
    /\ IF phase = "recovering" THEN UNCHANGED lifecycle ELSE MarkOffline
    /\ rebuilding' = (rebuilding /\ ~mark[p])
    /\ Removed(p, TRUE)
    /\ UNCHANGED <<workers, current, reboot, transport, retry, conv, armed, suspect, environment>>

(* RebuildWorker: the mark is taken unasked, and given up before the start.  *)
RebuildEnter(p) ==
    /\ pc[p] = "rebuild"
    /\ rebuilding' = TRUE
    /\ CallRemove(p, "handover") /\ UNCHANGED <<task, w, mark, left>>
    /\ UNCHANGED <<workers, current, reboot, transport, lifecycle, instances, armed, suspect, environment>>

Handover(p) ==
    /\ pc[p] = "handover"
    /\ rebuilding' = FALSE /\ Goto(p, "add")
    /\ UNCHANGED <<workers, current, reboot, transport, lifecycle, instances, locals, armed, suspect, environment>>

-----------------------------------------------------------------------------
(* rescanAndReconnect, the device of interest: first the hardware is listed, *)
(* then the worker is looked up.                                             *)

Discover(p) ==
    /\ pc[p] = "scan"
    /\ Goto(p, IF attached THEN "found" ELSE "missing")
    /\ UNCHANGED <<pool, reboot, transport, lifecycle, instances, locals, armed, suspect, environment>>

(* No worker: start one.  An unhealthy worker, or one whose paths changed, is *)
(* removed first; when that fails the start is given up, unless it is the AT   *)
(* port alone that moved.                                                     *)
ScanFound(p) ==
    /\ pc[p] = "found"
    /\ \/ /\ workers = NoWorker
          /\ BeginRecovery /\ Goto(p, "add") /\ UNCHANGED <<locals, trouble>>
       \/ /\ workers # NoWorker /\ ~Healthy(workers)
          /\ BeginRecovery /\ CallRemove(p, "add") /\ UNCHANGED <<task, w, mark, left, trouble>>
       \/ /\ workers # NoWorker /\ Fails(FALSE)
          /\ \E back \in {"add", "readd"} : CallRemove(p, back)
          /\ BeginRecovery /\ UNCHANGED <<task, w, mark, left>>
       \/ /\ workers # NoWorker /\ Healthy(workers)
          /\ Continue(p) /\ UNCHANGED <<lifecycle, trouble>>
    /\ UNCHANGED <<pool, reboot, transport, instances, armed, suspect, attached, ops>>

ScanMissing(p) ==
    /\ pc[p] = "missing"
    /\ IF workers = NoWorker
       THEN Continue(p) /\ UNCHANGED lifecycle
       ELSE BeginRecovery /\ CallRemove(p, "scanned") /\ UNCHANGED <<task, w, mark, left>>
    /\ UNCHANGED <<pool, reboot, transport, instances, armed, suspect, environment>>

-----------------------------------------------------------------------------
(* runModemRebootRecovery.  A worker that scheduled it with an event has     *)
(* observed the event before: task "observed" until the recovery begins.     *)

Begin(p) ==
    /\ pc[p] = "begin"
    /\ IF recovering
       THEN /\ active' = (active /\ task[p] # "observed")
            /\ Return(p) /\ UNCHANGED <<reboot, lifecycle>>
       ELSE /\ recovering' = TRUE /\ wake' = FALSE
            /\ BeginRecovery
            /\ CallRemove(p, "round")
            /\ task' = [task EXCEPT ![p] = "recovery"]
            /\ left' = [left EXCEPT ![p] = Rounds]
            /\ UNCHANGED <<active, w, mark>>
    /\ UNCHANGED <<pool, ctlGen, rebuilds, instances, armed, suspect, environment>>

(* Mutant: the rounds are not counted out. *)
Round_Endless(p) ==
    /\ pc[p] = "round"
    /\ left' = [left EXCEPT ![p] = @ - 1]
    /\ wake' = FALSE
    /\ IF attached THEN Goto(p, "scan") ELSE UNCHANGED pc
    /\ UNCHANGED <<pool, recovering, transport, lifecycle, instances, task, then, w, mark, armed, suspect, environment>>

(* Mutant: a round without the device does not count. *)
Round_Patient(p) ==
    /\ pc[p] = "round"
    /\ IF left[p] = 0
       THEN Goto(p, "finish") /\ UNCHANGED <<left, wake>>
       ELSE /\ left' = [left EXCEPT ![p] = IF attached THEN @ - 1 ELSE @]
            /\ wake' = FALSE
            /\ IF attached THEN Goto(p, "scan") ELSE UNCHANGED pc
    /\ UNCHANGED <<pool, recovering, transport, lifecycle, instances, task, then, w, mark, armed, suspect, environment>>

(* One round: its delay passes or a wake-up cuts it short; it needs the      *)
(* device to be there.                                                       *)
Round(p) ==
    /\ pc[p] = "round"
    /\ IF left[p] = 0
       THEN Goto(p, "finish") /\ UNCHANGED <<left, wake>>
       ELSE /\ left' = [left EXCEPT ![p] = @ - 1]
            /\ wake' = FALSE
            /\ IF attached THEN Goto(p, "scan") ELSE UNCHANGED pc
    /\ UNCHANGED <<pool, recovering, transport, lifecycle, instances, task, then, w, mark, armed, suspect, environment>>

(* refreshModemRebootRecoveredIdentity: the identity is there and the device *)
(* is online; or it is not.  Then the worker is removed (dead transport,     *)
(* half-ready worker), or left to the next round, or, when the control plane *)
(* is or was ready, to startQMIIdentityConvergence, which ends the recovery  *)
(* without FinishOnline.                                                     *)
Verify(p) ==
    /\ pc[p] = "verify"
    /\ \/ /\ workers = NoWorker /\ Works
          /\ Goto(p, "round") /\ UNCHANGED <<then, conv, lifecycle>>
       \/ /\ workers # NoWorker /\ Healthy(workers) /\ Works
          /\ FinishOnline /\ Goto(p, "finish") /\ UNCHANGED <<then, conv>>
       \/ /\ workers # NoWorker /\ Fails(~Healthy(workers))
          /\ \/ CallRemove(p, "round") /\ UNCHANGED conv
             \/ Goto(p, "round") /\ UNCHANGED <<then, conv>>
             \/ conv' = conv \cup {workers} /\ Goto(p, "finish") /\ UNCHANGED then
          /\ UNCHANGED lifecycle
    /\ UNCHANGED <<pool, reboot, transport, core, running, retry, task, w, mark, left, armed, suspect, attached, ops>>

(* The deferred finishModemRebootRecovery and Finish *)
Finish(p) ==
    /\ pc[p] = "finish"
    /\ recovering' = FALSE /\ wake' = FALSE
    /\ Goto(p, "finish_event")
    /\ UNCHANGED <<pool, transport, lifecycle, instances, locals, armed, suspect, environment>>

FinishEvent(p) ==
    /\ pc[p] = "finish_event"
    /\ active' = FALSE
    /\ Return(p)
    /\ UNCHANGED <<pool, reboot, ctlGen, rebuilds, lifecycle, instances, armed, suspect, environment>>

-----------------------------------------------------------------------------
(* Who calls: the QMI core, the health loop, udev, the API.                  *)

(* OnRecoveryExhausted: maybeScheduleTransportRebuild asks AllowRebuild. *)
Exhausted(g, p) ==
    /\ core[g] = "down"
    /\ core' = [core EXCEPT ![g] = "dead"]
    /\ IF rebuilds < RebuildMax
       THEN rebuilds' = rebuilds + 1 /\ Go(p, "event", "is_current", g)
       ELSE UNCHANGED <<rebuilds, pc, locals>>
    /\ UNCHANGED <<pool, reboot, active, ctlGen, lifecycle, running, retry, conv, armed, suspect, environment>>

(* handleTransportRecoveryExhausted: only the registered worker is heard,    *)
(* and Observe takes one event at a time.                                    *)
IsCurrent(p) ==
    /\ pc[p] = "is_current"
    /\ IF workers = w[p] THEN Goto(p, "observe") /\ UNCHANGED locals ELSE Return(p)
    /\ UNCHANGED <<pool, reboot, transport, lifecycle, instances, armed, suspect, environment>>

Observe(p) ==
    /\ pc[p] = "observe"
    /\ IF Observes(w[p])
       THEN /\ active' = TRUE
            /\ task' = [task EXCEPT ![p] = "observed"]
            /\ Goto(p, "begin") /\ UNCHANGED <<then, w, mark, left>>
       ELSE Return(p) /\ UNCHANGED active
    /\ UNCHANGED <<pool, reboot, ctlGen, rebuilds, lifecycle, instances, armed, suspect, environment>>

(* runHealthCheckTick takes a snapshot of the workers, and judges each later. *)
(* Looks that lead to nothing are left out: those of a healthy worker, of one *)
(* that suppressQMIUnhealthyEviction protects for a time, and the first two   *)
(* failures of a worker whose transport is not known to be down.              *)
HealthLook ==
    /\ suspect = NoWorker /\ workers # NoWorker /\ ~Healthy(workers) /\ CanEvict
    /\ suspect' = workers
    /\ UNCHANGED <<pool, reboot, transport, lifecycle, instances, pc, locals, armed, environment>>

HealthJudge(p) ==
    /\ suspect # NoWorker
    /\ suspect' = NoWorker
    /\ IF Healthy(suspect) \/ ~CanEvict
       THEN UNCHANGED <<lifecycle, pc, locals>>
       ELSE BeginRecovery /\ Go(p, "event", "observe", suspect)
    /\ UNCHANGED <<pool, reboot, transport, instances, armed, environment>>

(* Mutant: a device said to be in recovery is left alone. *)
HealthStarts_Waits(p) ==
    /\ workers = NoWorker /\ ~rebuilding /\ ~recovering /\ attached /\ phase # "recovering"
    /\ \/ Works /\ Go(p, "start", "add", NoWorker)
       \/ Fails(FALSE) /\ Go(p, "rescan", "scan", NoWorker)
    /\ UNCHANGED <<pool, reboot, transport, lifecycle, instances, armed, suspect, attached, ops>>

(* The tick starts a worker that is missing, or scans when its paths moved.  *)
HealthStarts(p) ==
    /\ workers = NoWorker /\ ~rebuilding /\ ~recovering /\ attached
    /\ \/ Works /\ Go(p, "start", "add", NoWorker)
       \/ Fails(FALSE) /\ Go(p, "rescan", "scan", NoWorker)
    /\ UNCHANGED <<pool, reboot, transport, lifecycle, instances, armed, suspect, attached, ops>>

(* udev, after its debounce: recoveries are woken; if none takes the token,  *)
(* the hardware is scanned.                                                  *)
UdevEvent(p) ==
    /\ IF recovering /\ ~wake
       THEN wake' = TRUE /\ UNCHANGED <<pc, locals>>
       ELSE Go(p, "rescan", "scan", NoWorker) /\ UNCHANGED wake
    /\ UNCHANGED <<pool, recovering, transport, lifecycle, instances, armed, suspect, ops>>

Unplug(p) ==
    /\ attached /\ Fails(FALSE) /\ attached' = FALSE
    /\ UdevEvent(p)

Plug(p) ==
    /\ ~attached /\ attached' = TRUE /\ UNCHANGED trouble
    /\ UdevEvent(p)

(* The API: RemoveWorker, RebuildWorker, a reboot and its recovery.          *)
Ask(p) ==
    /\ ops < MaxOps /\ ops' = ops + 1
    /\ \/ "remove" \in Operations /\ Go(p, "remove", "remove", NoWorker)
       \/ "rebuild" \in Operations /\ Go(p, "rebuild", "rebuild", NoWorker)
       \/ "reboot" \in Operations /\ Go(p, "reboot", "begin", NoWorker)
    /\ UNCHANGED <<pool, reboot, transport, lifecycle, instances, armed, suspect, attached, trouble>>

-----------------------------------------------------------------------------
(* The QMI core of a worker (module QmiManager) and the loops around it.     *)

(* The core loses the modem and tells the pool that it recovers. *)
CoreFalls(g) ==
    /\ core[g] = "up" /\ Fails(~attached)
    /\ core' = [core EXCEPT ![g] = "down"]
    /\ BeginRecovery
    /\ UNCHANGED <<pool, reboot, transport, running, retry, conv, pc, locals, armed, suspect, attached, ops>>

(* It is back; only a connected data plane says so to the pool. *)
CoreRecovers(g) ==
    /\ core[g] = "down" /\ attached
    /\ core' = [core EXCEPT ![g] = "up"]
    /\ FinishOnline \/ UNCHANGED lifecycle
    /\ UNCHANGED <<pool, reboot, transport, running, retry, conv, pc, locals, armed, suspect, environment>>

(* startQMICoreRetryLoop: ends when the worker stops or the core is up. *)
RetryStarts(g) ==
    /\ g \in retry /\ core[g] = "off"
    /\ IF g \notin running
       THEN retry' = retry \ {g} /\ UNCHANGED core
       ELSE core' = [core EXCEPT ![g] = "starting"] /\ UNCHANGED retry
    /\ UNCHANGED <<pool, reboot, transport, lifecycle, running, conv, pc, locals, armed, suspect, environment>>

RetryEnds(g) ==
    /\ g \in retry /\ core[g] = "starting"
    /\ \/ /\ attached /\ Works
          /\ core' = [core EXCEPT ![g] = Started(g)] /\ FinishOnline
          /\ retry' = retry \ {g}
       \/ /\ Fails(~attached \/ g \notin running)
          /\ core' = [core EXCEPT ![g] = "off"]
          /\ UNCHANGED <<retry, lifecycle>>
    /\ UNCHANGED <<pool, reboot, transport, running, conv, pc, locals, armed, suspect, attached, ops>>

(* convergeQMIIdentity: the identity came, or the worker stopped. *)
Converges(g) ==
    /\ g \in conv /\ (g \notin running \/ Healthy(g))
    /\ conv' = conv \ {g}
    /\ UNCHANGED <<pool, reboot, transport, lifecycle, core, running, retry, pc, locals, armed, suspect, environment>>

(* Its transport is dead, or its time is over: the worker is rebuilt. *)
Escalates(g, p) ==
    /\ g \in conv /\ ~Healthy(g)
    /\ conv' = conv \ {g}
    /\ Go(p, "event", "is_current", g)
    /\ UNCHANGED <<pool, reboot, transport, lifecycle, core, running, retry, armed, suspect, environment>>

(* The deadline of the phase passes: three minutes, more than a start takes. *)
DeadlineExpires ==
    /\ phase = "recovering" /\ ~expired /\ expired' = TRUE
    /\ \A p \in Procs : pc[p] \in Adding => HungIn(p)
    /\ UNCHANGED <<pool, reboot, transport, phase, instances, pc, locals, armed, suspect, environment>>

-----------------------------------------------------------------------------
Init ==
    /\ workers = NoWorker /\ rebuilding = FALSE /\ current = NoProc
    /\ recovering = FALSE /\ wake = FALSE
    /\ active = FALSE /\ ctlGen = NoWorker /\ rebuilds = 0
    /\ phase = "offline" /\ expired = FALSE
    /\ core = [g \in Gens |-> "off"] /\ running = {} /\ retry = {} /\ conv = {}
    /\ pc = [p \in Procs |-> "idle"] /\ task = [p \in Procs |-> "none"]
    /\ then = [p \in Procs |-> "none"] /\ w = [p \in Procs |-> NoWorker]
    /\ mark = [p \in Procs |-> FALSE] /\ left = [p \in Procs |-> 0]
    /\ armed = {} /\ suspect = NoWorker
    /\ attached = TRUE /\ trouble = 0 /\ ops = 0

(* What a goroutine does by itself, a hung one aside. *)
Step(p) ==
    \/ AddEnter(p) \/ AssignGeneration(p) \/ SetWorkerGeneration(p) \/ CheckAttempt(p)
    \/ Register(p) \/ Scrap(p) \/ AddEnds(p)
    \/ RemoveTakes(p) \/ Settle(p) \/ StopWorker(p)
    \/ RebuildEnter(p) \/ Handover(p)
    \/ Discover(p) \/ ScanFound(p) \/ ScanMissing(p)
    \/ Begin(p) \/ Round(p) \/ Verify(p) \/ Finish(p) \/ FinishEvent(p)
    \/ IsCurrent(p) \/ Observe(p)

Background(g) == CoreRecovers(g) \/ RetryStarts(g) \/ RetryEnds(g) \/ Converges(g)

Next ==
    \/ \E p \in Procs : \/ Step(p) \/ Build(p) \/ CoreStarted(p)
                        \/ BuildHangs(p) \/ CoreStartHangs(p) \/ Watchdog(p)
                        \/ HealthJudge(p) \/ HealthStarts(p)
                        \/ Unplug(p) \/ Plug(p) \/ Ask(p)
    \/ \E g \in Gens : \/ Background(g) \/ CoreFalls(g)
                       \/ \E p \in Procs : Exhausted(g, p) \/ Escalates(g, p)
    \/ HealthLook \/ DeadlineExpires

Spec == Init /\ [][Next]_vars

(* Every goroutine runs on unless a call of it hangs; timers fire, the health *)
(* loop ticks, and the QMI core ends its own recovery one way or the other.   *)
Fairness ==
    /\ \A p \in Procs : /\ WF_vars(Step(p))
                        /\ WF_vars(pc[p] = "build" /\ Build(p))
                        /\ WF_vars(pc[p] = "starting" /\ CoreStarted(p))
                        /\ WF_vars(Watchdog(p))
    /\ \A g \in Gens : /\ WF_vars(RetryStarts(g)) /\ WF_vars(RetryEnds(g))
                       /\ WF_vars(CoreRecovers(g) \/ \E p \in Procs : Exhausted(g, p))
                       /\ WF_vars(Converges(g) \/ \E p \in Procs : Escalates(g, p))
    /\ WF_vars(HealthLook) /\ WF_vars(\E p \in Procs : HealthJudge(p))
    /\ WF_vars(\E p \in Procs : HealthStarts(p))
    /\ WF_vars(DeadlineExpires)

FairSpec == Spec /\ Fairness

-----------------------------------------------------------------------------
Removing == {"remove", "settle", "stop"}
Scanning == {"scan", "found", "missing"}
Labels == Adding \cup Removing \cup Scanning \cup
    {"idle", "add", "rebuild", "handover", "begin", "round", "verify", "finish", "finish_event",
     "is_current", "observe"}
Tasks == {"none", "start", "rescan", "remove", "rebuild", "reboot", "event", "observed", "recovery"}
Returns == {"none", "add", "readd", "scanned", "round", "handover"}

TypeOK ==
    /\ workers \in Gens \cup {NoWorker} /\ rebuilding \in BOOLEAN /\ current \in Procs \cup {NoProc}
    /\ recovering \in BOOLEAN /\ wake \in BOOLEAN
    /\ active \in BOOLEAN /\ ctlGen \in Gens \cup {NoWorker} /\ rebuilds \in Nat
    /\ phase \in {"offline", "recovering", "online"} /\ expired \in BOOLEAN
    /\ core \in [Gens -> {"off", "starting", "up", "down", "dead"}]
    /\ running \subseteq Gens /\ retry \subseteq Gens /\ conv \subseteq Gens
    /\ pc \in [Procs -> Labels] /\ task \in [Procs -> Tasks] /\ then \in [Procs -> Returns]
    /\ w \in [Procs -> Gens \cup {NoWorker}]
    /\ mark \in [Procs -> BOOLEAN] /\ left \in [Procs -> Nat]
    /\ armed \subseteq Procs /\ suspect \in Gens \cup {NoWorker}
    /\ attached \in BOOLEAN /\ trouble \in Nat /\ ops \in Nat

(* The registered worker is one whose core nobody has stopped: every path    *)
(* that stops a worker takes its registration first (RemoveWorker, the abort *)
(* of a start, a start that finds another worker).                           *)
RegisteredIsRunning == workers # NoWorker => workers \in running

(* Who will clear the rebuilding mark: the newest start attempt, a removal   *)
(* that set it, or RebuildWorker before its handover.                        *)
Clears(p) ==
    \/ pc[p] \in Adding /\ current = p /\ (HungIn(p) => p \in armed)
    \/ pc[p] = "stop" /\ mark[p]
    \/ task[p] = "rebuild" /\ pc[p] \in Removing \cup {"handover"}

Recovers(p) == task[p] = "recovery" /\ pc[p] # "finish_event"

(* No mark of the pool outlives the calls that clear it, whatever starts,    *)
(* removals, rebuilds, watchdogs and recoveries overlap: the device would be *)
(* refused every start, or every recovery, for ever.                         *)
MarksAreOwned ==
    /\ rebuilding => \E p \in Procs : Clears(p)
    /\ recovering => \E p \in Procs : Recovers(p)
    /\ active => \E p \in Procs : task[p] \in {"observed", "recovery"}

(* There is one recovery of the device at a time. *)
OneRecovery == \A p, q \in Procs : Recovers(p) /\ Recovers(q) => p = q

(* A registered worker leaves the map before another enters it: no start, *)
(* however late it comes, takes the place of a running worker.            *)
NeverReplaced == [][workers # NoWorker => workers' \in {workers, NoWorker}]_vars

(* The rebuilding mark is cleared, even when the start that holds it hangs:  *)
(* the watchdog frees the slot of the device.                                *)
SlotIsFreed == rebuilding ~> ~rebuilding

SomeHung == \E p \in Procs : HungIn(p)

(* A recovery ends, with the worker online or with its rounds used up; only  *)
(* a start that hangs can keep it.                                           *)
RecoveryEnds == recovering ~> (~recovering \/ SomeHung)

(* Controller and pool disagree on the generation: no transport event of the *)
(* registered worker is heard.  A start that a newer one overtakes between   *)
(* the check of its attempt and its registration leaves this behind.         *)
Deaf == workers # NoWorker /\ ctlGen # workers

(* As long as the device is attached it is served again and again, by the    *)
(* health loop if by nobody else.                                            *)
DeviceComesBack ==
    []<>((workers # NoWorker /\ Healthy(workers)) \/ ~attached \/ SomeHung \/ Deaf)

(* The watchdog lets a device whose start hangs be retried (pool.go 901).    *)
HungStartIsRetried ==
    \A p \in Procs : pc[p] = "hung" ~>
        (pc[p] # "hung" \/ current # p \/ workers # NoWorker \/ ~attached)
=============================================================================

--------------------------- MODULE DevicePoolProofs ---------------------------
(***************************************************************************)
(* Proofs about DevicePool: its type invariant, that a registered worker   *)
(* runs and is never replaced, that there is one recovery at a time, and   *)
(* that no mark of the pool outlives the calls that clear it; then, on top  *)
(* of that, that no worker is left running with nobody to stop it, and that *)
(* of two open cores on the device one is being stopped.                    *)
(***************************************************************************)
EXTENDS DevicePool, TLAPS

(* A worker that its start has not registered yet is known to nobody else.   *)
Unregistered == {"set_generation", "check", "register"}
Known == {workers, suspect} \cup retry \cup conv \cup {g \in Gens : core[g] # "off"}
Private(p) ==
    /\ w[p] \in running \ Known
    /\ \A q \in Procs : w[q] = w[p] => q = p
Instances ==
    \A p \in Procs :
        /\ pc[p] \in Unregistered \cup {"starting", "stuck", "scrap", "stop"} => w[p] \in Gens
        /\ pc[p] \in Unregistered => Private(p)
        /\ pc[p] \in {"scrap", "stop"} => w[p] # workers

(* Where a goroutine with a task is, and where a removal returns: a rebuild   *)
(* to its handover, a recovery to the recovery.  An observed event waits for  *)
(* its recovery to begin, and only a recovery reaches the end of one.         *)
Begins == {"rebuild", "add", "handover"}
Ends == {"round", "verify", "finish", "finish_event"}
PlaceOK(p) ==
    /\ pc[p] = "rebuild" => task[p] = "rebuild"
    /\ task[p] = "rebuild" => pc[p] \in Begins \cup Adding \cup Removing
    /\ task[p] = "rebuild" /\ pc[p] \in Removing => then[p] = "handover"
    /\ task[p] = "observed" => pc[p] = "begin"
    /\ task[p] = "recovery" => pc[p] \in {"add"} \cup Adding \cup Removing \cup Scanning \cup Ends
    /\ task[p] = "recovery" /\ pc[p] \in Removing => then[p] \in {"add", "readd", "scanned", "round"}
    /\ pc[p] = "idle" => then[p] = "none"
    /\ pc[p] \in Ends \/ (pc[p] \in Removing /\ then[p] = "round") => task[p] = "recovery"
Places == \A p \in Procs : PlaceOK(p)

(* A start that will clear the mark has its watchdog still: a goroutine that *)
(* was given up clears nothing.                                              *)
ClearsForSure(p) == Clears(p) /\ (pc[p] \in Adding => p \in armed)

(* Each mark and its owner: the slot of the device, the recovery, the event. *)
SlotOwned == rebuilding => \E p \in Procs : ClearsForSure(p)
RecoveryOwned ==
    /\ recovering => \E p \in Procs : Recovers(p)
    /\ \A p \in Procs : Recovers(p) => recovering
EventOwned == active => \E p \in Procs : task[p] \in {"observed", "recovery"}
Marks == SlotOwned /\ RecoveryOwned /\ OneRecovery /\ EventOwned

IInv == TypeOK /\ Instances /\ RegisteredIsRunning /\ Places /\ Marks
-----------------------------------------------------------------------------
(* Types: the locals of the goroutines, and the rest.                       *)

LocalsOK ==
    /\ pc \in [Procs -> Labels] /\ task \in [Procs -> Tasks] /\ then \in [Procs -> Returns]
    /\ w \in [Procs -> Gens \cup {NoWorker}]
    /\ mark \in [Procs -> BOOLEAN] /\ left \in [Procs -> Nat]

(* A call that ends leaves its locals with their types. *)
LEMMA LeaveTypes ==
    ASSUME LocalsOK, NEW p \in Procs, NEW label \in Labels, Leave(p, label)
    PROVE  LocalsOK'
BY DEF LocalsOK, Leave, Goto, Tasks, Returns

(* Nor does a call that ends with its goroutine. *)
LEMMA ReturnTypes == ASSUME LocalsOK, NEW p \in Procs, Return(p) PROVE LocalsOK'
<1>1. "idle" \in Labels
  BY DEF Labels
<1> QED BY <1>1, LeaveTypes DEF Return

(* Nor a start or a scan that ends, in a recovery or not. *)
LEMMA ContinueTypes == ASSUME LocalsOK, NEW p \in Procs, Continue(p) PROVE LocalsOK'
<1>1. "idle" \in Labels /\ "verify" \in Labels
  BY DEF Labels
<1> QED BY <1>1, LeaveTypes DEF Continue

(* Nor a removal that ends, wherever its caller goes on. *)
LEMMA RemovedTypes ==
    ASSUME LocalsOK, NEW p \in Procs, NEW ok \in BOOLEAN, Removed(p, ok) PROVE LocalsOK'
<1>1. {"add", "round", "handover"} \subseteq Labels
  BY DEF Labels
<1>2. "add" \in Labels /\ (then[p] \in {"add", "round", "handover"} => then[p] \in Labels)
  BY <1>1
<1> QED BY <1>2, ReturnTypes, ContinueTypes, LeaveTypes DEF Removed

(* A goroutine that begins has its locals of their types. *)
LEMMA GoTypes ==
    ASSUME LocalsOK, NEW p \in Procs, NEW what \in Tasks, NEW label \in Labels,
           NEW worker \in Gens \cup {NoWorker}, Go(p, what, label, worker)
    PROVE  LocalsOK'
BY DEF LocalsOK, Go, Goto

RestOK ==
    /\ workers \in Gens \cup {NoWorker} /\ rebuilding \in BOOLEAN /\ current \in Procs \cup {NoProc}
    /\ recovering \in BOOLEAN /\ wake \in BOOLEAN
    /\ active \in BOOLEAN /\ ctlGen \in Gens \cup {NoWorker} /\ rebuilds \in Nat
    /\ phase \in {"offline", "recovering", "online"} /\ expired \in BOOLEAN
    /\ core \in [Gens -> {"off", "starting", "up", "down", "dead"}]
    /\ running \subseteq Gens /\ retry \subseteq Gens /\ conv \subseteq Gens
    /\ armed \subseteq Procs /\ suspect \in Gens \cup {NoWorker}
    /\ attached \in BOOLEAN /\ trouble \in Nat /\ ops \in Nat

(* The two together are the type invariant. *)
LEMMA TypeSplit == /\ TypeOK <=> LocalsOK /\ RestOK
                   /\ (TypeOK <=> LocalsOK /\ RestOK)'
BY DEF TypeOK, LocalsOK, RestOK

(* The free generation is one. *)
LEMMA FreshIsFree == Gens \ Held # {} => Fresh \in Gens /\ Fresh \notin Held
BY DEF Fresh

(* A step of a start keeps the types. *)
LEMMA AddTypes ==
    ASSUME LocalsOK, RestOK, Instances, NEW p \in Procs,
           \/ AddEnter(p) \/ Build(p) \/ BuildHangs(p) \/ AssignGeneration(p) \/ SetWorkerGeneration(p)
           \/ CheckAttempt(p) \/ Register(p) \/ CoreStarted(p) \/ CoreStartHangs(p) \/ Scrap(p)
           \/ AddEnds(p) \/ Watchdog(p)
    PROVE  LocalsOK' /\ RestOK'
<1> USE DEF pool, reboot, transport, lifecycle, instances, locals, environment,
            BeginRecovery, FinishOnline, MarkOffline, Fails, Works
<1>1. ASSUME NEW label \in Adding, Goto(p, label), UNCHANGED locals PROVE LocalsOK'
  BY <1>1 DEF LocalsOK, Goto, Labels
<1>2. {"build", "hung", "assign", "set_generation", "check", "register", "starting", "stuck",
       "scrap", "end_add"} \subseteq Adding
  BY DEF Adding
<1>3. w[p] \in Gens \cup {NoWorker}
  BY DEF LocalsOK
<1>4. CASE AddEnter(p)
  <2>1. LocalsOK'  BY <1>1, <1>2, <1>4, ContinueTypes DEF AddEnter
  <2> QED BY <1>4, <2>1 DEF AddEnter, RestOK
<1>5. CASE Build(p)
  <2>1. LocalsOK'  BY <1>1, <1>2, <1>5 DEF Build
  <2> QED BY <1>5, <2>1 DEF Build, RestOK
<1>6. CASE BuildHangs(p)
  <2>1. LocalsOK'  BY <1>1, <1>2, <1>6 DEF BuildHangs
  <2> QED BY <1>6, <2>1 DEF BuildHangs, RestOK
<1>7. CASE AssignGeneration(p)
  <2>1. Fresh \in Gens
    BY <1>7, FreshIsFree DEF AssignGeneration
  <2>2. "set_generation" \in Labels
    BY DEF Labels, Adding
  <2>3. LocalsOK'
    BY <1>7, <2>1, <2>2 DEF AssignGeneration, LocalsOK, Goto
  <2> QED BY <1>7, <2>1, <2>3 DEF AssignGeneration, RestOK
<1>8. CASE SetWorkerGeneration(p)
  <2>1. LocalsOK'  BY <1>1, <1>2, <1>8 DEF SetWorkerGeneration
  <2> QED BY <1>3, <1>8, <2>1 DEF SetWorkerGeneration, RestOK
<1>9. CASE CheckAttempt(p)
  <2>1. LocalsOK'  BY <1>1, <1>2, <1>9 DEF CheckAttempt
  <2> QED BY <1>9, <2>1 DEF CheckAttempt, RestOK
<1>10. CASE Register(p)
  <2>1. LocalsOK'  BY <1>1, <1>2, <1>10 DEF Register
  <2> QED BY <1>3, <1>10, <2>1 DEF Register, RestOK
<1>11. CASE CoreStarted(p)
  <2>1. LocalsOK'  BY <1>1, <1>2, <1>11 DEF CoreStarted
  <2>2. core' \in [Gens -> {"off", "starting", "up", "down", "dead"}]
    BY <1>11 DEF CoreStarted, Started, RestOK
  <2>3. w[p] \in Gens
    BY <1>11 DEF CoreStarted, Instances
  <2>4. trouble' \in Nat
    BY <1>11 DEF CoreStarted, RestOK
  <2> QED BY <1>11, <2>1, <2>2, <2>3, <2>4 DEF CoreStarted, RestOK
<1>12. CASE CoreStartHangs(p)
  <2>1. LocalsOK'  BY <1>1, <1>2, <1>12 DEF CoreStartHangs
  <2> QED BY <1>12, <2>1 DEF CoreStartHangs, RestOK
<1>13. CASE Scrap(p)
  <2>1. LocalsOK'  BY <1>1, <1>2, <1>13 DEF Scrap
  <2> QED BY <1>13, <2>1 DEF Scrap, RestOK
<1>14. CASE AddEnds(p)
  <2>1. LocalsOK'  BY <1>14, ContinueTypes DEF AddEnds
  <2> QED BY <1>14, <2>1 DEF AddEnds, RestOK
<1>15. CASE Watchdog(p)  BY <1>15 DEF Watchdog, LocalsOK, RestOK
<1> QED BY <1>4, <1>5, <1>6, <1>7, <1>8, <1>9, <1>10, <1>11, <1>12, <1>13, <1>14, <1>15

(* A step of a removal or a rebuild keeps the types. *)
LEMMA RemoveTypes ==
    ASSUME LocalsOK, RestOK, NEW p \in Procs,
           \/ RemoveTakes(p) \/ Settle(p) \/ StopWorker(p) \/ RebuildEnter(p) \/ Handover(p)
    PROVE  LocalsOK' /\ RestOK'
<1> USE DEF pool, reboot, transport, lifecycle, instances, locals, environment, MarkOffline
<1>1. {"stop", "settle", "remove", "add", "handover"} \subseteq Labels /\ "handover" \in Returns
  BY DEF Labels, Removing, Returns
<1>2. CASE RemoveTakes(p)
  <2>1. CASE workers # NoWorker
    <3>1. LocalsOK'  BY <1>1, <1>2, <2>1 DEF RemoveTakes, LocalsOK, RestOK, Goto
    <3> QED BY <1>2, <2>1, <3>1 DEF RemoveTakes, RestOK
  <2>2. CASE workers = NoWorker
    <3>1. LocalsOK'
      <4>1. CASE rebuilding  BY <1>1, <1>2, <2>2, <4>1 DEF RemoveTakes, LocalsOK, Goto
      <4>2. CASE ~rebuilding  BY <1>2, <2>2, <4>2, RemovedTypes DEF RemoveTakes
      <4> QED BY <4>1, <4>2
    <3> QED BY <1>2, <2>2, <3>1 DEF RemoveTakes, RestOK
  <2> QED BY <2>1, <2>2
<1>3. CASE Settle(p)
  <2>1. LocalsOK'
    <3>1. CASE workers # NoWorker \/ ~rebuilding
      BY <1>1, <1>3, <3>1 DEF Settle, LocalsOK, Goto
    <3>2. CASE ~(workers # NoWorker \/ ~rebuilding)
      BY <1>3, <3>2, RemovedTypes DEF Settle
    <3> QED BY <3>1, <3>2
  <2> QED BY <1>3, <2>1 DEF Settle, RestOK
<1>4. CASE StopWorker(p)
  <2>1. LocalsOK'  BY <1>4, RemovedTypes DEF StopWorker
  <2> QED BY <1>4, <2>1 DEF StopWorker, RestOK
<1>5. CASE RebuildEnter(p)
  <2>1. LocalsOK'  BY <1>1, <1>5 DEF RebuildEnter, CallRemove, Goto, LocalsOK
  <2> QED BY <1>5, <2>1 DEF RebuildEnter, RestOK
<1>6. CASE Handover(p)
  <2>1. LocalsOK'  BY <1>1, <1>6 DEF Handover, Goto, LocalsOK
  <2> QED BY <1>6, <2>1 DEF Handover, RestOK
<1> QED BY <1>2, <1>3, <1>4, <1>5, <1>6

(* A step of a scan or a recovery keeps the types. *)
LEMMA RecoveryTypes ==
    ASSUME LocalsOK, RestOK, NEW p \in Procs,
           \/ Discover(p) \/ ScanFound(p) \/ ScanMissing(p)
           \/ Begin(p) \/ Round(p) \/ Verify(p) \/ Finish(p) \/ FinishEvent(p)
           \/ IsCurrent(p) \/ Observe(p)
    PROVE  LocalsOK' /\ RestOK'
<1> USE DEF pool, reboot, transport, lifecycle, instances, locals, environment,
            BeginRecovery, FinishOnline, Fails, Works
<1>1. /\ {"found", "missing", "add", "remove", "finish", "scan", "round", "finish_event",
          "observe", "begin"} \subseteq Labels
      /\ {"add", "readd", "scanned", "round"} \subseteq Returns
      /\ {"observed", "recovery"} \subseteq Tasks
  BY DEF Labels, Removing, Scanning, Returns, Tasks
<1>2. CASE Discover(p)
  <2>1. LocalsOK'  BY <1>1, <1>2 DEF Discover, Goto, LocalsOK
  <2> QED BY <1>2, <2>1 DEF Discover, RestOK
<1>3. CASE ScanFound(p)
  <2>1. LocalsOK'
    <3>1. CASE Continue(p)  BY <3>1, ContinueTypes
    <3>2. CASE Goto(p, "add") /\ UNCHANGED locals  BY <1>1, <3>2 DEF Goto, LocalsOK
    <3>3. CASE (CallRemove(p, "add") \/ CallRemove(p, "readd")) /\ UNCHANGED <<task, w, mark, left>>
      BY <1>1, <3>3 DEF CallRemove, Goto, LocalsOK
    <3> QED BY <1>3, <3>1, <3>2, <3>3 DEF ScanFound
  <2>2. trouble' \in Nat
    BY <1>3 DEF ScanFound, RestOK
  <2> QED BY <1>3, <2>1, <2>2 DEF ScanFound, RestOK
<1>4. CASE ScanMissing(p)
  <2>1. LocalsOK'
    <3>1. CASE workers = NoWorker  BY <1>4, <3>1, ContinueTypes DEF ScanMissing
    <3>2. CASE workers # NoWorker
      BY <1>1, <1>4, <3>2 DEF ScanMissing, CallRemove, Goto, LocalsOK
    <3> QED BY <3>1, <3>2
  <2> QED BY <1>4, <2>1 DEF ScanMissing, RestOK
<1>5. CASE Begin(p)
  <2>1. LocalsOK'
    <3>1. CASE recovering  BY <1>5, <3>1, ReturnTypes DEF Begin
    <3>2. CASE ~recovering
      BY <1>1, <1>5, <3>2, PoolAssumption DEF Begin, CallRemove, Goto, LocalsOK
    <3> QED BY <3>1, <3>2
  <2> QED BY <1>5, <2>1 DEF Begin, RestOK
<1>6. CASE Round(p)
  <2>1. LocalsOK'
    <3>1. CASE left[p] = 0  BY <1>1, <1>6, <3>1 DEF Round, Goto, LocalsOK
    <3>2. CASE left[p] # 0
      <4>1. left[p] - 1 \in Nat  BY <3>2 DEF LocalsOK
      <4> QED BY <1>1, <1>6, <3>2, <4>1 DEF Round, Goto, LocalsOK
    <3> QED BY <3>1, <3>2
  <2> QED BY <1>6, <2>1 DEF Round, RestOK
<1>7. CASE Verify(p)
  <2>1. LocalsOK'
    <3>1. CASE (Goto(p, "round") \/ Goto(p, "finish")) /\ UNCHANGED locals
      BY <1>1, <3>1 DEF Goto, LocalsOK
    <3>2. CASE CallRemove(p, "round") /\ UNCHANGED <<task, w, mark, left>>
      BY <1>1, <3>2 DEF CallRemove, Goto, LocalsOK
    <3> QED BY <1>7, <3>1, <3>2 DEF Verify
  <2>2. trouble' \in Nat
    BY <1>7 DEF Verify, RestOK
  <2>3. phase' \in {"offline", "recovering", "online"} /\ expired' \in BOOLEAN
    BY <1>7 DEF Verify, RestOK
  <2>4. conv' \subseteq Gens
    BY <1>7 DEF Verify, RestOK
  <2> QED BY <1>7, <2>1, <2>2, <2>3, <2>4 DEF Verify, RestOK
<1>8. CASE Finish(p)
  <2>1. LocalsOK'  BY <1>1, <1>8 DEF Finish, Goto, LocalsOK
  <2> QED BY <1>8, <2>1 DEF Finish, RestOK
<1>9. CASE FinishEvent(p)
  <2>1. LocalsOK'  BY <1>9, ReturnTypes DEF FinishEvent
  <2> QED BY <1>9, <2>1 DEF FinishEvent, RestOK
<1>10. CASE IsCurrent(p)
  <2>1. LocalsOK'
    <3>1. CASE workers = w[p]  BY <1>1, <1>10, <3>1 DEF IsCurrent, Goto, LocalsOK
    <3>2. CASE workers # w[p]  BY <1>10, <3>2, ReturnTypes DEF IsCurrent
    <3> QED BY <3>1, <3>2
  <2> QED BY <1>10, <2>1 DEF IsCurrent, RestOK
<1>11. CASE Observe(p)
  <2>1. LocalsOK'
    <3>1. CASE Observes(w[p])  BY <1>1, <1>11, <3>1 DEF Observe, Goto, LocalsOK
    <3>2. CASE ~Observes(w[p])  BY <1>11, <3>2, ReturnTypes DEF Observe
    <3> QED BY <3>1, <3>2
  <2> QED BY <1>11, <2>1 DEF Observe, RestOK
<1> QED BY <1>2, <1>3, <1>4, <1>5, <1>6, <1>7, <1>8, <1>9, <1>10, <1>11

(* A call that begins keeps the types. *)
LEMMA CallerTypes ==
    ASSUME LocalsOK, RestOK, NEW p \in Procs,
           \/ HealthJudge(p) \/ HealthStarts(p) \/ Unplug(p) \/ Plug(p) \/ Ask(p)
           \/ \E g \in Gens : Exhausted(g, p) \/ Escalates(g, p)
    PROVE  LocalsOK' /\ RestOK'
<1> USE DEF pool, reboot, transport, lifecycle, instances, environment, BeginRecovery, Fails, Works
<1>1. /\ {"add", "scan", "remove", "rebuild", "begin", "is_current", "observe"} \subseteq Labels
      /\ {"start", "rescan", "remove", "rebuild", "reboot", "event"} \subseteq Tasks
  BY DEF Labels, Removing, Scanning, Tasks
<1>2. UNCHANGED <<pc, locals>> => LocalsOK'
  BY DEF LocalsOK, locals
<1>3. CASE HealthJudge(p)
  <2>1. LocalsOK'  BY <1>1, <1>2, <1>3, GoTypes DEF HealthJudge, RestOK
  <2> QED BY <1>3, <2>1 DEF HealthJudge, RestOK
<1>4. CASE HealthStarts(p)
  <2>1. LocalsOK'  BY <1>1, <1>4, GoTypes DEF HealthStarts
  <2> QED BY <1>4, <2>1 DEF HealthStarts, RestOK
<1>5. CASE UdevEvent(p) /\ (Unplug(p) \/ Plug(p))
  <2>1. LocalsOK'  BY <1>1, <1>2, <1>5, GoTypes DEF UdevEvent
  <2>2. trouble' \in Nat /\ attached' \in BOOLEAN
    <3>1. CASE Unplug(p)
      <4>1. trouble' \in Nat  BY <3>1 DEF Unplug, RestOK
      <4>2. attached' = FALSE  BY <3>1, Zenon DEF Unplug
      <4> QED BY <4>1, <4>2
    <3>2. CASE Plug(p)  BY <3>2 DEF Plug, RestOK
    <3> QED BY <1>5, <3>1, <3>2
  <2> QED BY <1>5, <2>1, <2>2 DEF UdevEvent, RestOK
<1>6. CASE Ask(p)
  <2>1. LocalsOK'  BY <1>1, <1>6, GoTypes DEF Ask
  <2> QED BY <1>6, <2>1 DEF Ask, RestOK
<1>7. ASSUME NEW g \in Gens, Exhausted(g, p) PROVE LocalsOK' /\ RestOK'
  <2>1. LocalsOK'  BY <1>1, <1>2, <1>7, GoTypes DEF Exhausted
  <2> QED BY <1>7, <2>1 DEF Exhausted, RestOK
<1>8. ASSUME NEW g \in Gens, Escalates(g, p) PROVE LocalsOK' /\ RestOK'
  <2>1. LocalsOK'  BY <1>1, <1>8, GoTypes DEF Escalates
  <2> QED BY <1>8, <2>1 DEF Escalates, RestOK
<1> QED BY <1>3, <1>4, <1>5, <1>6, <1>7, <1>8 DEF Unplug, Plug

(* A step of a core, a loop around it, or a clock keeps the types. *)
LEMMA CoreTypes ==
    ASSUME LocalsOK, RestOK,
           \/ \E g \in Gens : Background(g) \/ CoreFalls(g)
           \/ HealthLook \/ DeadlineExpires \/ UNCHANGED vars
    PROVE  LocalsOK' /\ RestOK'
<1> USE DEF pool, reboot, transport, lifecycle, instances, locals, environment,
            BeginRecovery, FinishOnline, Fails, Works
<1>1. ASSUME NEW g \in Gens, CoreRecovers(g) PROVE LocalsOK' /\ RestOK'
  BY <1>1 DEF CoreRecovers, LocalsOK, RestOK
<1>2. ASSUME NEW g \in Gens, RetryStarts(g) PROVE LocalsOK' /\ RestOK'
  BY <1>2 DEF RetryStarts, LocalsOK, RestOK
<1>3. ASSUME NEW g \in Gens, RetryEnds(g) PROVE LocalsOK' /\ RestOK'
  <2>1. trouble' \in Nat
    BY <1>3 DEF RetryEnds, RestOK
  <2>2. core' \in [Gens -> {"off", "starting", "up", "down", "dead"}]
    BY <1>3 DEF RetryEnds, Started, RestOK
  <2>3. phase' \in {"offline", "recovering", "online"} /\ expired' \in BOOLEAN /\ retry' \subseteq Gens
    BY <1>3 DEF RetryEnds, RestOK
  <2> QED BY <1>3, <2>1, <2>2, <2>3 DEF RetryEnds, LocalsOK, RestOK
<1>4. ASSUME NEW g \in Gens, Converges(g) PROVE LocalsOK' /\ RestOK'
  BY <1>4 DEF Converges, LocalsOK, RestOK
<1>5. ASSUME NEW g \in Gens, CoreFalls(g) PROVE LocalsOK' /\ RestOK'
  <2>1. trouble' \in Nat
    BY <1>5 DEF CoreFalls, RestOK
  <2> QED BY <1>5, <2>1 DEF CoreFalls, LocalsOK, RestOK
<1>6. CASE HealthLook  BY <1>6 DEF HealthLook, LocalsOK, RestOK
<1>7. CASE DeadlineExpires  BY <1>7 DEF DeadlineExpires, LocalsOK, RestOK
<1>8. CASE UNCHANGED vars  BY <1>8 DEF vars, LocalsOK, RestOK
<1> QED BY <1>1, <1>2, <1>3, <1>4, <1>5, <1>6, <1>7, <1>8 DEF Background

-----------------------------------------------------------------------------
(* Instances: a worker is registered once, by the start that made it, and   *)
(* stopped after it left the map.                                           *)

Special == Unregistered \cup {"starting", "stuck", "scrap", "stop"}

(* A step of one goroutine that stops nobody and makes nobody known. *)
LEMMA InstancesKept ==
    ASSUME LocalsOK, Instances, RegisteredIsRunning, NEW p \in Procs,
           running' = running, workers' \in {workers, NoWorker},
           Known' \subseteq Known \cup {NoWorker} \cup (IF pc'[p] \in Unregistered THEN {} ELSE {w[p]}),
           \A q \in Procs \ {p} : pc'[q] = pc[q] /\ w'[q] = w[q],
           w'[p] \in Known \cup {NoWorker, w[p]},
           pc'[p] \in Unregistered => pc[p] \in Unregistered /\ w'[p] = w[p],
           pc'[p] \in Special => w'[p] \in Gens,
           pc'[p] \in {"scrap", "stop"} => w'[p] # workers'
    PROVE  Instances' /\ RegisteredIsRunning'
<1>1. RegisteredIsRunning'
  BY DEF RegisteredIsRunning
<1>2. ASSUME NEW q \in Procs PROVE pc'[q] \in Special => w'[q] \in Gens
  BY DEF Instances, Special
<1>3. ASSUME NEW q \in Procs, pc'[q] \in Unregistered PROVE Private(q)'
  <2>1. pc[q] \in Unregistered /\ w'[q] = w[q] /\ Private(q) /\ w[q] \in Gens
    BY <1>3 DEF Instances
  <2>2. w[q] \in running' \ Known'
    <3>1. p # q => w[p] # w[q]
      BY <2>1 DEF Private
    <3>2. p = q => pc'[p] \in Unregistered
      BY <1>3
    <3> QED BY <2>1, <3>1, <3>2, PoolAssumption DEF Private
  <2>3. ASSUME NEW r \in Procs, w'[r] = w'[q] PROVE r = q
    BY <2>1, <2>3, PoolAssumption DEF Private
  <2> QED BY <2>1, <2>2, <2>3 DEF Private
<1>4. ASSUME NEW q \in Procs, pc'[q] \in {"scrap", "stop"} PROVE w'[q] # workers'
  BY <1>4, PoolAssumption DEF Instances
<1> QED BY <1>1, <1>2, <1>3, <1>4, Zenon DEF Instances, Special

(* A call that ends forgets its worker and goes to no special place. *)
Forgets(p) ==
    /\ \A q \in Procs \ {p} : pc'[q] = pc[q] /\ w'[q] = w[q]
    /\ w'[p] = NoWorker /\ pc'[p] \notin Special

(* Calls end so, all three kinds. *)
LEMMA CallForgets ==
    ASSUME LocalsOK, NEW p \in Procs,
           Return(p) \/ Continue(p) \/ \E ok \in BOOLEAN : Removed(p, ok)
    PROVE  Forgets(p)
<1>1. ASSUME NEW label, label \notin Special, Leave(p, label) PROVE Forgets(p)
  BY <1>1 DEF Forgets, Leave, Goto, LocalsOK
<1>2. {"idle", "verify", "add", "round", "handover"} \cap Special = {}
  BY DEF Special, Unregistered
<1>3. Return(p) => Forgets(p)
  BY <1>1, <1>2 DEF Return
<1>4. Continue(p) => Forgets(p)
  BY <1>1, <1>2 DEF Continue
<1> QED BY <1>1, <1>2, <1>3, <1>4 DEF Removed

(* So nothing changes for the instances, if the step is that and no more. *)
LEMMA ForgetKept ==
    ASSUME LocalsOK, Instances, RegisteredIsRunning, NEW p \in Procs, Forgets(p),
           UNCHANGED <<workers, suspect, core, running, retry, conv>>
    PROVE  Instances' /\ RegisteredIsRunning'
<1>1. Known' = Known
  BY DEF Known
<1> QED BY <1>1, InstancesKept DEF Forgets, Special

(* Nor when a goroutine moves to no special place, with or without a worker. *)
LEMMA MoveKept ==
    ASSUME LocalsOK, Instances, RegisteredIsRunning, NEW p \in Procs,
           NEW label \in Labels \ Special, Goto(p, label),
           \/ w' = w
           \/ \E g \in Known \cup {NoWorker} : w' = [w EXCEPT ![p] = g],
           running' = running, workers' \in {workers, NoWorker},
           Known' \subseteq Known \cup {NoWorker}
    PROVE  Instances' /\ RegisteredIsRunning'
<1>1. \A q \in Procs \ {p} : pc'[q] = pc[q] /\ w'[q] = w[q]
  BY DEF LocalsOK, Goto
<1>2. pc'[p] = label /\ w'[p] \in Known \cup {NoWorker, w[p]}
  BY DEF LocalsOK, Goto
<1> QED BY <1>1, <1>2, InstancesKept DEF Special

(* Nor when nobody moves. *)
LEMMA RestKept ==
    ASSUME Instances, RegisteredIsRunning,
           UNCHANGED <<pc, w, workers, running>>, Known' \subseteq Known
    PROVE  Instances' /\ RegisteredIsRunning'
BY DEF Instances, RegisteredIsRunning, Private

(* A worker is stopped by the start that gives it up, or by who removed it.  *)
LEMMA StopKept ==
    ASSUME LocalsOK, Instances, RegisteredIsRunning, NEW p \in Procs,
           pc[p] \in Unregistered \cup {"scrap", "stop"},
           running' = running \ {w[p]}, workers' = workers,
           Known' \subseteq Known \cup {NoWorker},
           \A q \in Procs \ {p} : pc'[q] = pc[q] /\ w'[q] = w[q],
           w'[p] \in {w[p], NoWorker}, pc'[p] \notin Special
    PROVE  Instances' /\ RegisteredIsRunning'
<1>1. w[p] \in Gens /\ w[p] # workers
  BY DEF Instances, Private, Known
<1>2. ASSUME NEW q \in Procs, pc'[q] \in Special
      PROVE  q # p /\ pc[q] \in Special /\ w'[q] = w[q] /\ w[q] \in Gens
  BY <1>2 DEF Instances, Special
<1>3. ASSUME NEW q \in Procs, pc'[q] \in Unregistered PROVE Private(q)'
  <2>1. q # p /\ pc[q] \in Unregistered /\ Private(q) /\ w'[q] = w[q] /\ w[q] \in Gens
    BY <1>2, <1>3 DEF Special, Instances
  <2>2. w[q] # w[p]
    BY <2>1 DEF Private
  <2> QED BY <2>1, <2>2, PoolAssumption DEF Private
<1>4. RegisteredIsRunning'
  BY <1>1 DEF RegisteredIsRunning
<1>5. ASSUME NEW q \in Procs, pc'[q] \in {"scrap", "stop"} PROVE w'[q] # workers'
  BY <1>2, <1>5 DEF Instances, Special
<1> QED BY <1>2, <1>3, <1>4, <1>5, Zenon DEF Instances, Special

(* A step of a start keeps the instances. *)
LEMMA AddInstances ==
    ASSUME LocalsOK, RestOK, Instances, RegisteredIsRunning, NEW p \in Procs,
           \/ AddEnter(p) \/ Build(p) \/ BuildHangs(p) \/ AssignGeneration(p) \/ SetWorkerGeneration(p)
           \/ CheckAttempt(p) \/ Register(p) \/ CoreStarted(p) \/ CoreStartHangs(p) \/ Scrap(p)
           \/ AddEnds(p) \/ Watchdog(p)
    PROVE  Instances' /\ RegisteredIsRunning'
<1> USE DEF pool, instances, locals
<1>1. {"build", "hung", "assign", "end_add"} \subseteq Labels \ Special
  BY DEF Labels, Adding, Special, Unregistered
<1>2. ASSUME NEW label, Goto(p, label), UNCHANGED locals
      PROVE  /\ \A q \in Procs \ {p} : pc'[q] = pc[q] /\ w'[q] = w[q]
             /\ pc'[p] = label /\ w'[p] = w[p]
  BY <1>2 DEF Goto, LocalsOK
<1>3. UNCHANGED <<workers, suspect, core, retry, conv>> => Known' = Known
  BY DEF Known
<1>4. CASE AddEnter(p)
  <2>1. CASE Continue(p)
    BY <1>4, <2>1, CallForgets, ForgetKept DEF AddEnter
  <2>2. CASE Goto(p, "build") /\ UNCHANGED locals
    BY <1>1, <1>3, <1>4, <2>2, MoveKept DEF AddEnter
  <2> QED BY <1>4, <2>1, <2>2 DEF AddEnter
<1>5. CASE Build(p)  BY <1>1, <1>3, <1>5, MoveKept DEF Build
<1>6. CASE BuildHangs(p)  BY <1>1, <1>3, <1>6, MoveKept DEF BuildHangs
<1>7. CASE AssignGeneration(p)
  <2>1. Fresh \in Gens /\ Fresh \notin Known /\ \A q \in Procs : w[q] # Fresh
    BY <1>7, FreshIsFree DEF AssignGeneration, Held, Known
  <2>2. /\ \A q \in Procs \ {p} : pc'[q] = pc[q] /\ w'[q] = w[q]
        /\ pc'[p] = "set_generation" /\ w'[p] = Fresh
        /\ running' = running \cup {Fresh} /\ workers' = workers /\ Known' = Known
    BY <1>3, <1>7 DEF AssignGeneration, Goto, LocalsOK
  <2>3. RegisteredIsRunning'
    BY <2>2 DEF RegisteredIsRunning
  <2>4. ASSUME NEW q \in Procs, pc'[q] \in Unregistered PROVE Private(q)'
    <3>1. CASE q = p  BY <2>1, <2>2, <3>1 DEF Private
    <3>2. CASE q # p
      <4>1. Private(q) /\ w'[q] = w[q]
        BY <2>2, <2>4, <3>2 DEF Instances
      <4> QED BY <2>1, <2>2, <4>1 DEF Private
    <3> QED BY <3>1, <3>2
  <2>5. ASSUME NEW q \in Procs
        PROVE  /\ pc'[q] \in Special => w'[q] \in Gens
               /\ pc'[q] \in {"scrap", "stop"} => w'[q] # workers'
    <3>1. CASE q = p  BY <2>1, <2>2, <3>1 DEF Special
    <3>2. CASE q # p  BY <2>2, <3>2 DEF Instances, Special
    <3> QED BY <3>1, <3>2
  <2> QED BY <2>3, <2>4, <2>5, Zenon DEF Instances, Special
<1>8. CASE SetWorkerGeneration(p)
  <2>1. w[p] \in Gens /\ pc[p] \in Unregistered
    BY <1>8 DEF SetWorkerGeneration, Instances, Unregistered
  <2> QED BY <1>2, <1>3, <1>8, <2>1, InstancesKept DEF SetWorkerGeneration
<1>9. CASE CheckAttempt(p)
  <2>1. w[p] \in Gens /\ pc[p] \in Unregistered
    BY <1>9 DEF CheckAttempt, Instances, Unregistered
  <2>2. CASE Goto(p, "register") /\ running' = running
    BY <1>2, <1>3, <1>9, <2>1, <2>2, InstancesKept DEF CheckAttempt
  <2>3. CASE Goto(p, "end_add") /\ running' = running \ {w[p]}
    BY <1>1, <1>2, <1>3, <1>9, <2>1, <2>3, StopKept DEF CheckAttempt
  <2> QED BY <1>9, <2>2, <2>3 DEF CheckAttempt
<1>10. CASE Register(p)
  <2>1. w[p] \in Gens /\ pc[p] \in Unregistered /\ Private(p)
    BY <1>10 DEF Register, Instances, Unregistered
  <2>2. CASE workers = NoWorker
    <3>1. /\ \A q \in Procs \ {p} : pc'[q] = pc[q] /\ w'[q] = w[q]
          /\ pc'[p] = "starting" /\ w'[p] = w[p]
          /\ running' = running /\ workers' = w[p]
      BY <1>2, <1>10, <2>2 DEF Register
    <3>2. Known' \subseteq Known \cup {w[p]}
      BY <1>10, <2>2 DEF Register, Known, RestOK
    <3>3. RegisteredIsRunning'
      BY <2>1, <3>1 DEF RegisteredIsRunning, Private
    <3>4. ASSUME NEW q \in Procs \ {p}, pc[q] \in Special PROVE w[q] \in Gens /\ (w[q] = w[p] => pc[q] \notin Special)
      BY <2>1, <3>4 DEF Private, Instances, Special
    <3>5. ASSUME NEW q \in Procs, pc'[q] \in Unregistered PROVE Private(q)'
      <4>1. q # p /\ Private(q) /\ w[q] # w[p]
        BY <2>1, <3>1, <3>5 DEF Unregistered, Instances, Private
      <4> QED BY <3>1, <3>2, <4>1 DEF Private
    <3>6. ASSUME NEW q \in Procs
          PROVE  /\ pc'[q] \in Special => w'[q] \in Gens
                 /\ pc'[q] \in {"scrap", "stop"} => w'[q] # workers'
      <4>1. CASE q = p  BY <2>1, <3>1, <4>1
      <4>2. CASE q # p  BY <2>1, <3>1, <3>4, <4>2 DEF Special, Private
      <4> QED BY <4>1, <4>2
    <3> QED BY <3>3, <3>5, <3>6, Zenon DEF Instances, Special
  <2>3. CASE workers # NoWorker
    BY <1>1, <1>2, <1>3, <1>10, <2>1, <2>3, StopKept DEF Register
  <2> QED BY <2>2, <2>3
<1>11. CASE CoreStarted(p)
  <2>1. w[p] \in Gens /\ pc[p] \notin Unregistered
    BY <1>11 DEF CoreStarted, Instances, Unregistered
  <2>2. Known' \subseteq Known \cup {NoWorker, w[p]} /\ workers' \in {workers, NoWorker}
    BY <1>11, <2>1 DEF CoreStarted, Known, RestOK
  <2>3. pc'[p] \in {"end_add", "scrap"} /\ (pc'[p] = "scrap" => w'[p] # workers')
    BY <1>2, <1>11, <2>1, PoolAssumption DEF CoreStarted
  <2> QED BY <1>1, <1>2, <1>11, <2>1, <2>2, <2>3, InstancesKept DEF CoreStarted, Unregistered
<1>12. CASE CoreStartHangs(p)
  <2>1. w[p] \in Gens
    BY <1>12 DEF CoreStartHangs, Instances
  <2> QED BY <1>2, <1>3, <1>12, <2>1, InstancesKept DEF CoreStartHangs, Unregistered
<1>13. CASE Scrap(p)
  BY <1>1, <1>2, <1>3, <1>13, StopKept DEF Scrap
<1>14. CASE AddEnds(p)  BY <1>14, CallForgets, ForgetKept DEF AddEnds
<1>15. CASE Watchdog(p)  BY <1>3, <1>15, RestKept DEF Watchdog
<1> QED BY <1>4, <1>5, <1>6, <1>7, <1>8, <1>9, <1>10, <1>11, <1>12, <1>13, <1>14, <1>15

(* A step of a removal or a rebuild keeps the instances. *)
LEMMA RemoveInstances ==
    ASSUME LocalsOK, RestOK, Instances, RegisteredIsRunning, NEW p \in Procs,
           \/ RemoveTakes(p) \/ Settle(p) \/ StopWorker(p) \/ RebuildEnter(p) \/ Handover(p)
    PROVE  Instances' /\ RegisteredIsRunning'
<1> USE DEF pool, instances, locals
<1>1. {"settle", "remove", "add"} \subseteq Labels \ Special
  BY DEF Labels, Removing, Special, Unregistered
<1>2. UNCHANGED <<workers, suspect, core, retry, conv>> => Known' = Known
  BY DEF Known
<1>3. CASE RemoveTakes(p)
  <2>1. CASE workers # NoWorker
    <3>1. /\ \A q \in Procs \ {p} : pc'[q] = pc[q] /\ w'[q] = w[q]
          /\ pc'[p] = "stop" /\ w'[p] = workers /\ workers' = NoWorker
      BY <1>3, <2>1 DEF RemoveTakes, Goto, LocalsOK
    <3>2. workers \in Known \cap Gens /\ Known' \subseteq Known \cup {NoWorker}
      BY <1>3, <2>1 DEF RemoveTakes, Known, RestOK
    <3> QED BY <1>3, <2>1, <3>1, <3>2, InstancesKept DEF RemoveTakes, Unregistered
  <2>2. CASE workers = NoWorker
    <3>1. CASE rebuilding  BY <1>1, <1>2, <1>3, <2>2, <3>1, MoveKept DEF RemoveTakes
    <3>2. CASE ~rebuilding  BY <1>3, <2>2, <3>2, CallForgets, ForgetKept DEF RemoveTakes
    <3> QED BY <3>1, <3>2
  <2> QED BY <2>1, <2>2
<1>4. CASE Settle(p)
  <2>1. CASE workers # NoWorker \/ ~rebuilding
    BY <1>1, <1>2, <1>4, <2>1, MoveKept DEF Settle
  <2>2. CASE ~(workers # NoWorker \/ ~rebuilding)
    BY <1>4, <2>2, CallForgets, ForgetKept DEF Settle
  <2> QED BY <2>1, <2>2
<1>5. CASE StopWorker(p)
  <2>1. Known' \subseteq Known
    BY <1>5 DEF StopWorker, Known, RestOK
  <2>2. Forgets(p)
    BY <1>5, CallForgets DEF StopWorker
  <2> QED BY <1>5, <2>1, <2>2, StopKept DEF StopWorker, Forgets
<1>6. CASE RebuildEnter(p)  BY <1>1, <1>2, <1>6, MoveKept DEF RebuildEnter, CallRemove
<1>7. CASE Handover(p)  BY <1>1, <1>2, <1>7, MoveKept DEF Handover
<1> QED BY <1>3, <1>4, <1>5, <1>6, <1>7

(* A step of a scan or a recovery keeps the instances. *)
LEMMA RecoveryInstances ==
    ASSUME LocalsOK, RestOK, Instances, RegisteredIsRunning, NEW p \in Procs,
           \/ Discover(p) \/ ScanFound(p) \/ ScanMissing(p)
           \/ Begin(p) \/ Round(p) \/ Verify(p) \/ Finish(p) \/ FinishEvent(p)
           \/ IsCurrent(p) \/ Observe(p)
    PROVE  Instances' /\ RegisteredIsRunning'
<1> USE DEF pool, instances, locals
<1>1. {"found", "missing", "add", "remove", "finish", "scan", "round", "finish_event", "observe", "begin"}
          \subseteq Labels \ Special
  BY DEF Labels, Removing, Scanning, Special, Unregistered
<1>2. UNCHANGED <<workers, suspect, core, retry, conv>> => Known' = Known
  BY DEF Known
<1>3. ASSUME NEW label \in {"found", "missing", "add", "remove", "finish", "scan", "round", "finish_event",
                            "observe", "begin"},
             Goto(p, label), w' = w, UNCHANGED <<running, workers>>, Known' \subseteq Known \cup {NoWorker}
      PROVE  Instances' /\ RegisteredIsRunning'
  BY <1>1, <1>3, MoveKept
<1>4. CASE Discover(p)  BY <1>2, <1>3, <1>4 DEF Discover
<1>5. CASE ScanFound(p)
  <2>1. CASE Continue(p)  BY <1>5, <2>1, CallForgets, ForgetKept DEF ScanFound
  <2>2. CASE (Goto(p, "add") \/ Goto(p, "remove")) /\ w' = w
    BY <1>2, <1>3, <1>5, <2>2 DEF ScanFound
  <2> QED BY <1>5, <2>1, <2>2 DEF ScanFound, CallRemove
<1>6. CASE ScanMissing(p)
  <2>1. CASE workers = NoWorker  BY <1>6, <2>1, CallForgets, ForgetKept DEF ScanMissing
  <2>2. CASE workers # NoWorker  BY <1>2, <1>3, <1>6, <2>2 DEF ScanMissing, CallRemove
  <2> QED BY <2>1, <2>2
<1>7. CASE Begin(p)
  <2>1. CASE recovering  BY <1>7, <2>1, CallForgets, ForgetKept DEF Begin
  <2>2. CASE ~recovering  BY <1>2, <1>3, <1>7, <2>2 DEF Begin, CallRemove
  <2> QED BY <2>1, <2>2
<1>8. CASE Round(p)
  <2>1. CASE Goto(p, "finish") \/ Goto(p, "scan")  BY <1>2, <1>3, <1>8, <2>1 DEF Round
  <2>2. CASE UNCHANGED pc  BY <1>2, <1>8, <2>2, RestKept DEF Round
  <2> QED BY <1>8, <2>1, <2>2 DEF Round
<1>9. CASE Verify(p)
  <2>1. Known' \subseteq Known \cup {NoWorker}
    BY <1>9 DEF Verify, Known
  <2>2. Goto(p, "round") \/ Goto(p, "finish") \/ Goto(p, "remove")
    BY <1>9 DEF Verify, CallRemove
  <2> QED BY <1>3, <1>9, <2>1, <2>2 DEF Verify
<1>10. CASE Finish(p)  BY <1>2, <1>3, <1>10 DEF Finish
<1>11. CASE FinishEvent(p)  BY <1>11, CallForgets, ForgetKept DEF FinishEvent
<1>12. CASE IsCurrent(p)
  <2>1. CASE workers = w[p]  BY <1>2, <1>3, <1>12, <2>1 DEF IsCurrent
  <2>2. CASE workers # w[p]  BY <1>12, <2>2, CallForgets, ForgetKept DEF IsCurrent
  <2> QED BY <2>1, <2>2
<1>13. CASE Observe(p)
  <2>1. CASE Observes(w[p])  BY <1>2, <1>3, <1>13, <2>1 DEF Observe
  <2>2. CASE ~Observes(w[p])  BY <1>13, <2>2, CallForgets, ForgetKept DEF Observe
  <2> QED BY <2>1, <2>2
<1> QED BY <1>4, <1>5, <1>6, <1>7, <1>8, <1>9, <1>10, <1>11, <1>12, <1>13

(* A call that begins keeps the instances. *)
LEMMA CallerInstances ==
    ASSUME LocalsOK, RestOK, Instances, RegisteredIsRunning, NEW p \in Procs,
           \/ HealthJudge(p) \/ HealthStarts(p) \/ Unplug(p) \/ Plug(p) \/ Ask(p)
           \/ \E g \in Gens : Exhausted(g, p) \/ Escalates(g, p)
    PROVE  Instances' /\ RegisteredIsRunning'
<1> USE DEF pool, instances, locals
<1>1. {"add", "scan", "remove", "rebuild", "begin", "is_current", "observe"} \subseteq Labels \ Special
  BY DEF Labels, Removing, Scanning, Special, Unregistered
<1>2. ASSUME NEW label \in Labels \ Special, NEW g \in Known \cup {NoWorker}, NEW what,
             Go(p, what, label, g), UNCHANGED <<running, workers>>, Known' \subseteq Known \cup {NoWorker}
      PROVE  Instances' /\ RegisteredIsRunning'
  BY <1>2, MoveKept DEF Go
<1>3. UNCHANGED <<workers, suspect, core, retry, conv>> => Known' = Known
  BY DEF Known
<1>4. CASE HealthJudge(p)
  <2>1. Known' \subseteq Known \cup {NoWorker} /\ suspect \in Known
    BY <1>4 DEF HealthJudge, Known
  <2>2. CASE UNCHANGED <<pc, locals>>
    <3>1. UNCHANGED <<pc, w, workers, running, core, retry, conv>> /\ suspect' = NoWorker
      BY <1>4, <2>2 DEF HealthJudge
    <3> QED BY <2>1, <3>1, PoolAssumption DEF Instances, RegisteredIsRunning, Private
  <2>3. CASE Go(p, "event", "observe", suspect)
    BY <1>1, <1>2, <1>4, <2>1, <2>3 DEF HealthJudge
  <2> QED BY <1>4, <2>2, <2>3 DEF HealthJudge
<1>5. CASE HealthStarts(p)  BY <1>1, <1>2, <1>3, <1>5 DEF HealthStarts
<1>6. CASE UdevEvent(p) /\ UNCHANGED <<workers, suspect, instances>>
  <2>1. CASE UNCHANGED <<pc, locals>>  BY <1>3, <1>6, <2>1, RestKept
  <2>2. CASE Go(p, "rescan", "scan", NoWorker)  BY <1>1, <1>2, <1>3, <1>6, <2>2
  <2> QED BY <1>6, <2>1, <2>2 DEF UdevEvent
<1>7. CASE Ask(p)  BY <1>1, <1>2, <1>3, <1>7 DEF Ask
<1>8. ASSUME NEW g \in Gens, Exhausted(g, p) PROVE Instances' /\ RegisteredIsRunning'
  <2>1. Known' \subseteq Known /\ g \in Known
    BY <1>8 DEF Exhausted, Known, RestOK
  <2>2. CASE UNCHANGED <<pc, locals>>  BY <1>8, <2>1, <2>2, RestKept DEF Exhausted
  <2>3. CASE Go(p, "event", "is_current", g)  BY <1>1, <1>2, <1>8, <2>1, <2>3 DEF Exhausted
  <2> QED BY <1>8, <2>2, <2>3 DEF Exhausted
<1>9. ASSUME NEW g \in Gens, Escalates(g, p) PROVE Instances' /\ RegisteredIsRunning'
  <2>1. Known' \subseteq Known /\ g \in Known
    BY <1>9 DEF Escalates, Known
  <2> QED BY <1>1, <1>2, <1>9, <2>1 DEF Escalates
<1> QED BY <1>4, <1>5, <1>6, <1>7, <1>8, <1>9 DEF Unplug, Plug, UdevEvent

(* A step of a core, a loop around it, or a clock keeps the instances. *)
LEMMA CoreInstances ==
    ASSUME LocalsOK, RestOK, Instances, RegisteredIsRunning,
           \/ \E g \in Gens : Background(g) \/ CoreFalls(g)
           \/ HealthLook \/ DeadlineExpires \/ UNCHANGED vars
    PROVE  Instances' /\ RegisteredIsRunning'
<1> USE DEF pool, instances, locals
<1>1. ASSUME NEW g \in Gens, CoreRecovers(g) PROVE Known' \subseteq Known
  BY <1>1 DEF CoreRecovers, Known, RestOK
<1>2. ASSUME NEW g \in Gens, RetryStarts(g) PROVE Known' \subseteq Known
  BY <1>2 DEF RetryStarts, Known, RestOK
<1>3. ASSUME NEW g \in Gens, RetryEnds(g) PROVE Known' \subseteq Known
  BY <1>3 DEF RetryEnds, Known, RestOK
<1>4. ASSUME NEW g \in Gens, Converges(g) PROVE Known' \subseteq Known
  BY <1>4 DEF Converges, Known
<1>5. ASSUME NEW g \in Gens, CoreFalls(g) PROVE Known' \subseteq Known
  BY <1>5 DEF CoreFalls, Known, RestOK
<1>6. HealthLook \/ DeadlineExpires \/ UNCHANGED vars => Known' \subseteq Known
  BY DEF HealthLook, DeadlineExpires, vars, Known
<1>7. UNCHANGED <<pc, w, workers, running>>
  BY DEF Background, CoreRecovers, RetryStarts, RetryEnds, Converges, CoreFalls, HealthLook,
         DeadlineExpires, vars
<1> QED BY <1>1, <1>2, <1>3, <1>4, <1>5, <1>6, <1>7, RestKept DEF Background

-----------------------------------------------------------------------------
(* Places: where a goroutine with a task is.                                *)

(* A step of one goroutine leaves the places of the others. *)
LEMMA PlacesKept ==
    ASSUME LocalsOK, Places, NEW p \in Procs,
           \A q \in Procs \ {p} : pc'[q] = pc[q] /\ task'[q] = task[q] /\ then'[q] = then[q],
           PlaceOK(p)'
    PROVE  Places'
BY DEF Places, PlaceOK

(* The frame of a call that goes on or ends. *)
LEMMA LeaveFrame ==
    ASSUME LocalsOK, NEW p \in Procs, NEW label \in Labels, Leave(p, label)
    PROVE  /\ \A q \in Procs \ {p} : pc'[q] = pc[q] /\ task'[q] = task[q] /\ then'[q] = then[q] /\ mark'[q] = mark[q]
           /\ pc'[p] = label /\ then'[p] = "none" /\ ~mark'[p]
           /\ task'[p] = IF label = "idle" THEN "none" ELSE task[p]
BY DEF Leave, Goto, LocalsOK

(* What a goroutine does when its call has ended, and its new place.        *)
Departs(p, label) ==
    /\ \A q \in Procs \ {p} : pc'[q] = pc[q] /\ task'[q] = task[q] /\ then'[q] = then[q] /\ mark'[q] = mark[q]
    /\ pc'[p] = label /\ then'[p] = "none" /\ task'[p] = IF label = "idle" THEN "none" ELSE task[p]

(* A goroutine that ends is idle, and at its place. *)
LEMMA ReturnDeparts == ASSUME LocalsOK, NEW p \in Procs, Return(p) PROVE Departs(p, "idle") /\ PlaceOK(p)'
<1>1. "idle" \in Labels
  BY DEF Labels
<1>2. Departs(p, "idle")
  BY <1>1, LeaveFrame DEF Return, Departs
<1> QED BY <1>2 DEF Departs, PlaceOK, Ends, Removing

(* After a start or a scan a recovery verifies; others end. *)
LEMMA ContinueDeparts ==
    ASSUME LocalsOK, NEW p \in Procs, Continue(p)
    PROVE  Departs(p, IF task[p] = "recovery" THEN "verify" ELSE "idle") /\ PlaceOK(p)'
<1>1. "idle" \in Labels /\ "verify" \in Labels
  BY DEF Labels
<1>2. Departs(p, IF task[p] = "recovery" THEN "verify" ELSE "idle")
  BY <1>1, LeaveFrame DEF Continue, Departs
<1> QED BY <1>2 DEF Departs, PlaceOK, Ends, Removing

(* After a removal a rebuild hands over, and a recovery is never lost. *)
LEMMA RemovedDeparts ==
    ASSUME LocalsOK, Places, NEW p \in Procs, pc[p] \in Removing, NEW ok \in BOOLEAN, Removed(p, ok)
    PROVE  /\ \E label \in {"idle", "verify", "add", "round", "handover"} :
                 /\ Departs(p, label)
                 /\ label = "idle" => task[p] \notin {"rebuild", "recovery", "observed"}
                 /\ task[p] = "rebuild" => label = "handover"
           /\ PlaceOK(p)'
<1>1. PlaceOK(p)
  BY DEF Places
<1>2. {"add", "round", "handover"} \subseteq Labels /\ "begin" \notin Removing
  BY DEF Labels, Removing
<1>3. CASE then[p] = "none" /\ Return(p)
  BY <1>1, <1>2, <1>3, ReturnDeparts DEF PlaceOK
<1>4. CASE then[p] \in {"scanned", "readd"} /\ Continue(p)
  BY <1>1, <1>2, <1>4, ContinueDeparts DEF PlaceOK
<1>5. CASE then[p] \in {"readd", "add"} /\ Leave(p, "add")
  <2>1. Departs(p, "add") /\ task[p] \notin {"rebuild", "observed"}
    BY <1>1, <1>2, <1>5, LeaveFrame DEF Departs, PlaceOK
  <2> QED BY <2>1 DEF Departs, PlaceOK, Ends, Removing
<1>6. CASE then[p] = "round" /\ Leave(p, "round")
  <2>1. Departs(p, "round") /\ task[p] = "recovery"
    BY <1>1, <1>2, <1>6, LeaveFrame DEF Departs, PlaceOK
  <2> QED BY <2>1 DEF Departs, PlaceOK, Ends, Removing
<1>7. CASE then[p] = "handover" /\ Leave(p, "handover")
  <2>1. Departs(p, "handover") /\ task[p] \notin {"recovery", "observed"}
    BY <1>1, <1>2, <1>7, LeaveFrame DEF Departs, PlaceOK
  <2> QED BY <2>1 DEF Departs, PlaceOK, Ends, Begins, Removing
<1> QED BY <1>3, <1>4, <1>5, <1>6, <1>7 DEF Removed

(* A step of a start, a removal or a rebuild keeps the places. *)
LEMMA StartPlaces ==
    ASSUME LocalsOK, Places, NEW p \in Procs,
           \/ AddEnter(p) \/ Build(p) \/ BuildHangs(p) \/ AssignGeneration(p) \/ SetWorkerGeneration(p)
           \/ CheckAttempt(p) \/ Register(p) \/ CoreStarted(p) \/ CoreStartHangs(p) \/ Scrap(p)
           \/ AddEnds(p) \/ Watchdog(p)
           \/ RemoveTakes(p) \/ Settle(p) \/ StopWorker(p) \/ RebuildEnter(p) \/ Handover(p)
    PROVE  Places'
<1> USE DEF locals
<1>1. PlaceOK(p) /\ p \in DOMAIN pc
  BY DEF Places, LocalsOK
<1>2. ASSUME NEW label \in Adding, Goto(p, label), UNCHANGED <<task, then>>,
             pc[p] \in Adding \cup {"add"}
      PROVE  Places'
  <2>1. \A q \in Procs \ {p} : pc'[q] = pc[q] /\ task'[q] = task[q] /\ then'[q] = then[q]
    BY <1>2 DEF Goto, LocalsOK
  <2>2. PlaceOK(p)'
    BY <1>1, <1>2 DEF Goto, PlaceOK, Adding, Removing, Ends
  <2> QED BY <2>1, <2>2, PlacesKept
<1>3. {"build", "hung", "assign", "set_generation", "check", "register", "starting", "stuck", "scrap", "end_add"}
          \subseteq Adding
  BY DEF Adding
<1>4. CASE AddEnter(p)
  <2>1. CASE Continue(p)  BY <2>1, ContinueDeparts, PlacesKept DEF Departs
  <2>2. CASE Goto(p, "build") /\ UNCHANGED locals  BY <1>2, <1>3, <1>4, <2>2 DEF AddEnter
  <2> QED BY <1>4, <2>1, <2>2 DEF AddEnter
<1>5. CASE Build(p)  BY <1>2, <1>3, <1>5 DEF Build
<1>6. CASE BuildHangs(p)  BY <1>2, <1>3, <1>6 DEF BuildHangs
<1>7. CASE AssignGeneration(p)  BY <1>2, <1>3, <1>7 DEF AssignGeneration
<1>8. CASE SetWorkerGeneration(p)  BY <1>2, <1>3, <1>8 DEF SetWorkerGeneration
<1>9. CASE CheckAttempt(p)  BY <1>2, <1>3, <1>9 DEF CheckAttempt
<1>10. CASE Register(p)  BY <1>2, <1>3, <1>10 DEF Register
<1>11. CASE CoreStarted(p)  BY <1>2, <1>3, <1>11 DEF CoreStarted
<1>12. CASE CoreStartHangs(p)  BY <1>2, <1>3, <1>12 DEF CoreStartHangs
<1>13. CASE Scrap(p)  BY <1>2, <1>3, <1>13 DEF Scrap
<1>14. CASE AddEnds(p)  BY <1>14, ContinueDeparts, PlacesKept DEF AddEnds, Departs
<1>15. CASE Watchdog(p)  BY <1>15 DEF Watchdog, Places, PlaceOK
<1>16. ASSUME NEW label \in Removing, Goto(p, label), UNCHANGED <<task, then>>, pc[p] \in Removing
      PROVE  Places'
  <2>1. \A q \in Procs \ {p} : pc'[q] = pc[q] /\ task'[q] = task[q] /\ then'[q] = then[q]
    BY <1>16 DEF Goto, LocalsOK
  <2>2. PlaceOK(p)'
    BY <1>1, <1>16 DEF Goto, PlaceOK, Removing, Ends
  <2> QED BY <2>1, <2>2, PlacesKept
<1>17. ASSUME NEW ok \in BOOLEAN, Removed(p, ok), pc[p] \in Removing PROVE Places'
  BY <1>17, RemovedDeparts, PlacesKept DEF Departs
<1>18. {"remove", "settle", "stop"} \subseteq Removing
  BY DEF Removing
<1>19. CASE RemoveTakes(p)
  <2>1. Removed(p, FALSE) \/ ((Goto(p, "stop") \/ Goto(p, "settle")) /\ UNCHANGED <<task, then>>)
    BY <1>19 DEF RemoveTakes
  <2> QED BY <1>16, <1>17, <1>18, <1>19, <2>1 DEF RemoveTakes
<1>20. CASE Settle(p)
  <2>1. Removed(p, FALSE) \/ (Goto(p, "remove") /\ UNCHANGED <<task, then>>)
    BY <1>20 DEF Settle
  <2> QED BY <1>16, <1>17, <1>18, <1>20, <2>1 DEF Settle
<1>21. CASE StopWorker(p)  BY <1>17, <1>18, <1>21 DEF StopWorker
<1>22. CASE RebuildEnter(p)
  <2>1. PlaceOK(p)'
    BY <1>1, <1>22 DEF RebuildEnter, CallRemove, Goto, PlaceOK, LocalsOK, Begins, Adding, Removing, Scanning, Ends
  <2> QED BY <1>22, <2>1, PlacesKept DEF RebuildEnter, CallRemove, Goto, LocalsOK
<1>23. CASE Handover(p)
  <2>1. PlaceOK(p)'
    BY <1>1, <1>23 DEF Handover, Goto, PlaceOK, Begins, Adding, Removing, Scanning, Ends
  <2> QED BY <1>23, <2>1, PlacesKept DEF Handover, Goto, LocalsOK
<1> QED BY <1>4, <1>5, <1>6, <1>7, <1>8, <1>9, <1>10, <1>11, <1>12, <1>13, <1>14, <1>15, <1>19, <1>20,
           <1>21, <1>22, <1>23

(* A step of a scan or a recovery keeps the places. *)
LEMMA RecoveryPlaces ==
    ASSUME LocalsOK, Places, NEW p \in Procs,
           \/ Discover(p) \/ ScanFound(p) \/ ScanMissing(p)
           \/ Begin(p) \/ Round(p) \/ Verify(p) \/ Finish(p) \/ FinishEvent(p)
           \/ IsCurrent(p) \/ Observe(p)
    PROVE  Places'
<1> USE DEF locals
<1>1. PlaceOK(p)
  BY DEF Places
<1>2. ASSUME PlaceOK(p)', NEW label, Goto(p, label), NEW back, then' \in {then, [then EXCEPT ![p] = back]},
             NEW what, task' \in {task, [task EXCEPT ![p] = what]}
      PROVE  Places'
  BY <1>2, PlacesKept DEF Goto, LocalsOK
<1>13. ASSUME PlaceOK(p)', NEW back, CallRemove(p, back), UNCHANGED task PROVE Places'
  BY <1>13, PlacesKept DEF CallRemove, Goto, LocalsOK
<1>3. CASE Discover(p)
  <2>1. PlaceOK(p)'
    BY <1>1, <1>3 DEF Discover, Goto, PlaceOK, LocalsOK, Begins, Adding, Removing, Scanning, Ends
  <2> QED BY <1>2, <1>3, <2>1 DEF Discover
<1>4. CASE ScanFound(p)
  <2>1. CASE Continue(p)  BY <2>1, ContinueDeparts, PlacesKept DEF Departs
  <2>2. CASE Goto(p, "add") /\ UNCHANGED locals
    <3>1. PlaceOK(p)'
      BY <1>1, <1>4, <2>2 DEF ScanFound, Goto, PlaceOK, LocalsOK, Begins, Adding, Removing, Scanning, Ends
    <3> QED BY <1>2, <2>2, <3>1
  <2>3. ASSUME NEW back \in {"add", "readd"}, CallRemove(p, back), UNCHANGED <<task, w, mark, left>>
        PROVE  Places'
    <3>1. PlaceOK(p)'
      BY <1>1, <1>4, <2>3 DEF ScanFound, CallRemove, Goto, PlaceOK, LocalsOK, Begins, Adding, Removing, Scanning, Ends
    <3> QED BY <1>13, <2>3, <3>1
  <2> QED BY <1>4, <2>1, <2>2, <2>3 DEF ScanFound
<1>5. CASE ScanMissing(p)
  <2>1. CASE Continue(p)  BY <2>1, ContinueDeparts, PlacesKept DEF Departs
  <2>2. CASE CallRemove(p, "scanned") /\ UNCHANGED <<task, w, mark, left>>
    <3>1. PlaceOK(p)'
      BY <1>1, <1>5, <2>2 DEF ScanMissing, CallRemove, Goto, PlaceOK, LocalsOK, Begins, Adding, Removing, Scanning, Ends
    <3> QED BY <1>13, <2>2, <3>1
  <2> QED BY <1>5, <2>1, <2>2 DEF ScanMissing
<1>6. CASE Begin(p)
  <2>1. CASE recovering  BY <1>6, <2>1, ReturnDeparts, PlacesKept DEF Begin, Departs
  <2>2. CASE ~recovering
    <3>1. PlaceOK(p)'
      BY <1>6, <2>2 DEF Begin, CallRemove, Goto, PlaceOK, LocalsOK, Begins, Adding, Removing, Scanning, Ends
    <3> QED BY <1>2, <1>6, <2>2, <3>1 DEF Begin, CallRemove
  <2> QED BY <2>1, <2>2
<1>7. CASE Round(p)
  <2>1. CASE Goto(p, "finish") \/ Goto(p, "scan")
    <3>1. PlaceOK(p)'
      BY <1>1, <1>7, <2>1 DEF Round, Goto, PlaceOK, LocalsOK, Begins, Adding, Removing, Scanning, Ends
    <3> QED BY <1>2, <1>7, <2>1, <3>1 DEF Round
  <2>2. CASE UNCHANGED pc  BY <1>7, <2>2 DEF Round, Places, PlaceOK
  <2> QED BY <1>7, <2>1, <2>2 DEF Round
<1>8. CASE Verify(p)
  <2>1. task[p] = "recovery"
    BY <1>1, <1>8 DEF Verify, PlaceOK, Ends
  <2>2. CASE (Goto(p, "round") \/ Goto(p, "finish")) /\ UNCHANGED <<task, then>>
    <3>1. PlaceOK(p)'
      BY <2>1, <2>2 DEF Goto, PlaceOK, LocalsOK, Begins, Adding, Removing, Scanning, Ends
    <3> QED BY <1>2, <2>2, <3>1
  <2>3. CASE CallRemove(p, "round") /\ UNCHANGED task
    <3>1. PlaceOK(p)'
      BY <2>1, <2>3 DEF CallRemove, Goto, PlaceOK, LocalsOK, Begins, Adding, Removing, Scanning, Ends
    <3> QED BY <1>13, <2>3, <3>1
  <2> QED BY <1>8, <2>2, <2>3 DEF Verify
<1>9. CASE Finish(p)
  <2>1. PlaceOK(p)'
    BY <1>1, <1>9 DEF Finish, Goto, PlaceOK, LocalsOK, Begins, Adding, Removing, Scanning, Ends
  <2> QED BY <1>2, <1>9, <2>1 DEF Finish
<1>10. CASE FinishEvent(p)  BY <1>10, ReturnDeparts, PlacesKept DEF FinishEvent, Departs
<1>11. CASE IsCurrent(p)
  <2>1. CASE Goto(p, "observe") /\ UNCHANGED locals
    <3>1. PlaceOK(p)'
      BY <1>1, <1>11, <2>1 DEF IsCurrent, Goto, PlaceOK, LocalsOK, Begins, Adding, Removing, Scanning, Ends
    <3> QED BY <1>2, <2>1, <3>1
  <2>2. CASE Return(p)  BY <2>2, ReturnDeparts, PlacesKept DEF Departs
  <2> QED BY <1>11, <2>1, <2>2 DEF IsCurrent
<1>12. CASE Observe(p)
  <2>1. CASE Observes(w[p])
    <3>1. PlaceOK(p)'
      BY <1>12, <2>1 DEF Observe, Goto, PlaceOK, LocalsOK, Begins, Adding, Removing, Scanning, Ends
    <3> QED BY <1>2, <1>12, <2>1, <3>1 DEF Observe
  <2>2. CASE ~Observes(w[p])  BY <1>12, <2>2, ReturnDeparts, PlacesKept DEF Observe, Departs
  <2> QED BY <2>1, <2>2
<1> QED BY <1>3, <1>4, <1>5, <1>6, <1>7, <1>8, <1>9, <1>10, <1>11, <1>12

(* A goroutine that begins was idle, without a task to finish. *)
LEMMA GoPlaces ==
    ASSUME LocalsOK, Places, NEW p \in Procs, NEW what, NEW label, NEW g, Go(p, what, label, g),
           <<what, label>> \in {<<"start", "add">>, <<"rescan", "scan">>, <<"remove", "remove">>,
                                <<"rebuild", "rebuild">>, <<"reboot", "begin">>, <<"event", "is_current">>,
                                <<"event", "observe">>}
    PROVE  /\ Places'
           /\ \A q \in Procs \ {p} : pc'[q] = pc[q] /\ task'[q] = task[q] /\ mark'[q] = mark[q]
           /\ task[p] \notin {"rebuild", "observed", "recovery"} /\ pc[p] = "idle"
           /\ task'[p] \notin {"observed", "recovery"}
<1>1. \A q \in Procs \ {p} : pc'[q] = pc[q] /\ task'[q] = task[q] /\ then'[q] = then[q] /\ mark'[q] = mark[q]
  BY DEF Go, Goto, LocalsOK
<1>2. pc[p] = "idle" /\ pc'[p] = label /\ task'[p] = what /\ then' = then /\ then[p] = "none"
  BY DEF Go, Goto, LocalsOK, Places, PlaceOK
<1>3. task[p] \notin {"rebuild", "observed", "recovery"}
  BY <1>2 DEF Places, PlaceOK, Begins, Adding, Removing, Scanning, Ends
<1>4. PlaceOK(p)'
  BY <1>2 DEF PlaceOK, Begins, Adding, Removing, Scanning, Ends
<1> QED BY <1>1, <1>2, <1>3, <1>4, PlacesKept

-----------------------------------------------------------------------------
(* Marks: each has its owner, and a step takes an owner away only with it.  *)

Alone(p) == \A q \in Procs \ {p} : pc'[q] = pc[q] /\ task'[q] = task[q] /\ mark'[q] = mark[q]

(* The rebuilding mark, when nobody touches it. *)
LEMMA SlotKept ==
    ASSUME SlotOwned, NEW p \in Procs, Alone(p), rebuilding' => rebuilding,
           UNCHANGED <<current, armed>>, ClearsForSure(p) => ClearsForSure(p)'
    PROVE  SlotOwned'
<1>1. ASSUME NEW q \in Procs \ {p}, ClearsForSure(q) PROVE ClearsForSure(q)'
  BY <1>1 DEF ClearsForSure, Clears, HungIn, Alone
<1> QED BY <1>1 DEF SlotOwned

(* The recovery, when it goes on or is not touched. *)
LEMMA RecoveryKept ==
    ASSUME RecoveryOwned, OneRecovery, NEW p \in Procs, Alone(p), UNCHANGED recovering,
           Recovers(p)' <=> Recovers(p)
    PROVE  RecoveryOwned' /\ OneRecovery'
<1>1. ASSUME NEW q \in Procs PROVE Recovers(q)' <=> Recovers(q)
  <2>1. CASE q = p  BY <2>1
  <2>2. CASE q # p  BY <2>2 DEF Recovers, Alone
  <2> QED BY <2>1, <2>2
<1> QED BY <1>1 DEF RecoveryOwned, OneRecovery

(* The event, when its bearer keeps it. *)
LEMMA EventKept ==
    ASSUME EventOwned, NEW p \in Procs, Alone(p), active' => active,
           task[p] \in {"observed", "recovery"} => task'[p] \in {"observed", "recovery"} \/ ~active'
    PROVE  EventOwned'
BY DEF EventOwned, Alone

(* The three together. *)
LEMMA MarksKept ==
    ASSUME Marks, NEW p \in Procs, Alone(p), UNCHANGED <<rebuilding, current, armed, recovering, active>>,
           ClearsForSure(p) => ClearsForSure(p)',
           Recovers(p)' <=> Recovers(p),
           task[p] \in {"observed", "recovery"} => task'[p] \in {"observed", "recovery"}
    PROVE  Marks'
BY SlotKept, RecoveryKept, EventKept DEF Marks

(* A call that ends keeps the marks, unless it has a mark to clear.         *)
LEMMA DepartsKept ==
    ASSUME NEW p \in Procs, NEW label, Departs(p, label)
    PROVE  /\ Alone(p)
           /\ label = "idle" /\ task[p] \notin {"observed", "recovery"} =>
                /\ Recovers(p)' <=> Recovers(p)
                /\ task'[p] \notin {"observed", "recovery"}
           /\ label \notin {"idle", "finish_event"} /\ pc[p] # "finish_event" =>
                /\ Recovers(p)' <=> Recovers(p)
                /\ task'[p] = task[p]
BY DEF Departs, Alone, Recovers

(* A step within a start keeps the marks. *)
LEMMA AddMarks ==
    ASSUME LocalsOK, RestOK, Places, Marks, NEW p \in Procs,
           \/ AddEnter(p) \/ Build(p) \/ BuildHangs(p) \/ AssignGeneration(p) \/ SetWorkerGeneration(p)
           \/ CheckAttempt(p) \/ Register(p) \/ CoreStarted(p) \/ CoreStartHangs(p) \/ Scrap(p)
           \/ AddEnds(p) \/ Watchdog(p)
    PROVE  Marks'
<1> USE DEF pool, reboot, transport, locals
<1>1. PlaceOK(p)
  BY DEF Places
<1>2. {"build", "hung", "assign", "set_generation", "check", "register", "starting", "stuck", "scrap", "end_add"}
          \subseteq Adding /\ "finish_event" \notin Adding \cup {"add"}
  BY DEF Adding
<1>3. ASSUME NEW label \in Adding, Goto(p, label), UNCHANGED <<task, mark>>, pc[p] \in Adding,
             UNCHANGED <<rebuilding, current, armed, recovering, active>>
      PROVE  Marks'
  <2>1. Alone(p) /\ pc'[p] = label
    BY <1>3 DEF Alone, Goto, LocalsOK
  <2>2. pc[p] \notin Removing \cup {"stop", "handover"}
    BY <1>3 DEF Adding, Removing
  <2>3. ClearsForSure(p) => ClearsForSure(p)'
    BY <1>3, <2>1, <2>2 DEF ClearsForSure, Clears, HungIn
  <2>4. Recovers(p)' <=> Recovers(p)
    BY <1>2, <1>3, <2>1 DEF Recovers
  <2> QED BY <1>3, <2>1, <2>3, <2>4, MarksKept
<1>4. CASE AddEnter(p)
  <2>1. pc[p] = "add" /\ ~ClearsForSure(p)
    BY <1>4 DEF AddEnter, ClearsForSure, Clears, Adding, Removing
  <2>2. task[p] # "observed"
    BY <1>1, <2>1 DEF PlaceOK
  <2>3. CASE workers # NoWorker \/ rebuilding
    <3>1. Departs(p, IF task[p] = "recovery" THEN "verify" ELSE "idle")
      BY <1>4, <2>3, ContinueDeparts DEF AddEnter
    <3> QED BY <1>4, <2>1, <2>2, <2>3, <3>1, DepartsKept, MarksKept DEF AddEnter
  <2>4. CASE ~(workers # NoWorker \/ rebuilding)
    <3>1. Alone(p) /\ pc'[p] = "build" /\ UNCHANGED <<task, mark, recovering, active>>
      BY <1>4, <2>4 DEF AddEnter, Alone, Goto, LocalsOK
    <3>2. SlotOwned'
      BY <1>2, <1>4, <2>4, <3>1 DEF AddEnter, SlotOwned, ClearsForSure, Clears, HungIn
    <3>3. Recovers(p)' <=> Recovers(p)
      BY <2>1, <3>1 DEF Recovers
    <3> QED BY <3>1, <3>2, <3>3, RecoveryKept, EventKept DEF Marks
  <2> QED BY <2>3, <2>4
<1>5. CASE Build(p)  BY <1>2, <1>3, <1>5 DEF Build
<1>6. CASE BuildHangs(p)  BY <1>2, <1>3, <1>6 DEF BuildHangs
<1>7. CASE AssignGeneration(p)  BY <1>2, <1>3, <1>7 DEF AssignGeneration
<1>8. CASE SetWorkerGeneration(p)  BY <1>2, <1>3, <1>8 DEF SetWorkerGeneration
<1>9. CASE CheckAttempt(p)  BY <1>2, <1>3, <1>9 DEF CheckAttempt
<1>10. CASE Register(p)  BY <1>2, <1>3, <1>10 DEF Register
<1>11. CASE CoreStarted(p)  BY <1>2, <1>3, <1>11 DEF CoreStarted
<1>12. CASE CoreStartHangs(p)  BY <1>2, <1>3, <1>12 DEF CoreStartHangs
<1>13. CASE Scrap(p)  BY <1>2, <1>3, <1>13 DEF Scrap
<1>14. CASE AddEnds(p)
  <2>1. pc[p] = "end_add" /\ task[p] # "observed"
    BY <1>1, <1>14 DEF AddEnds, PlaceOK
  <2>2. Departs(p, IF task[p] = "recovery" THEN "verify" ELSE "idle")
    BY <1>14, ContinueDeparts DEF AddEnds
  <2>3. SlotOwned'
    <3>1. ASSUME rebuilding' PROVE \E q \in Procs : ClearsForSure(q)'
      <4>1. rebuilding /\ current # p
        BY <1>14, <3>1 DEF AddEnds
      <4>2. PICK q \in Procs : ClearsForSure(q)
        BY <4>1 DEF Marks, SlotOwned
      <4>3. q # p
        BY <2>1, <4>1, <4>2 DEF ClearsForSure, Clears, Removing
      <4> QED BY <1>14, <2>2, <4>2, <4>3 DEF AddEnds, Departs, ClearsForSure, Clears, HungIn
    <3> QED BY <3>1 DEF SlotOwned
  <2>4. UNCHANGED <<recovering, active>>
    BY <1>14 DEF AddEnds
  <2> QED BY <2>1, <2>2, <2>3, <2>4, DepartsKept, RecoveryKept, EventKept DEF Marks
<1>15. CASE Watchdog(p)
  <2>1. pc[p] \in Adding
    BY <1>2, <1>15 DEF Watchdog, HungIn
  <2>2. SlotOwned'
    <3>1. ASSUME rebuilding' PROVE \E q \in Procs : ClearsForSure(q)'
      <4>1. rebuilding /\ current # p
        BY <1>15, <3>1 DEF Watchdog
      <4>2. PICK q \in Procs : ClearsForSure(q)
        BY <4>1 DEF Marks, SlotOwned
      <4>3. q # p
        BY <2>1, <4>1, <4>2 DEF ClearsForSure, Clears, Removing, Adding
      <4> QED BY <1>15, <4>2, <4>3 DEF Watchdog, ClearsForSure, Clears, HungIn
    <3> QED BY <3>1 DEF SlotOwned
  <2>3. Alone(p) /\ UNCHANGED <<recovering, active, task, pc>>
    BY <1>15 DEF Watchdog, Alone
  <2> QED BY <2>2, <2>3, RecoveryKept, EventKept DEF Marks, Recovers
<1> QED BY <1>4, <1>5, <1>6, <1>7, <1>8, <1>9, <1>10, <1>11, <1>12, <1>13, <1>14, <1>15

(* A step of a removal or a rebuild keeps the marks. *)
LEMMA RemoveMarks ==
    ASSUME LocalsOK, RestOK, Places, Marks, NEW p \in Procs,
           \/ RemoveTakes(p) \/ Settle(p) \/ StopWorker(p) \/ RebuildEnter(p) \/ Handover(p)
    PROVE  Marks'
<1> USE DEF pool, reboot, transport, locals
<1>1. PlaceOK(p)
  BY DEF Places
<1>2. {"remove", "settle", "stop"} \cap Adding = {}
  BY DEF Adding
<1>3. ASSUME NEW ok \in BOOLEAN, Removed(p, ok), pc[p] \in Removing, UNCHANGED <<recovering, active>>
      PROVE  /\ Alone(p) /\ RecoveryOwned' /\ OneRecovery' /\ EventOwned'
             /\ task[p] = "rebuild" => pc'[p] = "handover" /\ task'[p] = task[p]
  <2>1. PICK label \in {"idle", "verify", "add", "round", "handover"} :
            /\ Departs(p, label)
            /\ label = "idle" => task[p] \notin {"rebuild", "recovery", "observed"}
            /\ task[p] = "rebuild" => label = "handover"
    BY <1>3, RemovedDeparts
  <2>2. pc[p] # "finish_event"
    BY <1>3 DEF Removing
  <2>3. Alone(p) /\ (Recovers(p)' <=> Recovers(p))
        /\ (task[p] \in {"observed", "recovery"} => task'[p] \in {"observed", "recovery"})
    BY <2>1, <2>2, DepartsKept
  <2> QED BY <1>3, <2>1, <2>3, RecoveryKept, EventKept DEF Marks, Departs
<1>4. ASSUME NEW label \in Removing, Goto(p, label), UNCHANGED <<task, recovering, active>>, pc[p] \in Removing,
             \A q \in Procs \ {p} : mark'[q] = mark[q]
      PROVE  /\ Alone(p) /\ pc'[p] = label
             /\ RecoveryOwned' /\ OneRecovery' /\ EventOwned'
  <2>1. Alone(p) /\ pc'[p] = label
    BY <1>4 DEF Alone, Goto, LocalsOK
  <2>2. Recovers(p)' <=> Recovers(p)
    BY <1>4, <2>1 DEF Recovers, Removing
  <2> QED BY <1>4, <2>1, <2>2, RecoveryKept, EventKept DEF Marks
<1>5. CASE RemoveTakes(p)
  <2>1. pc[p] = "remove" /\ UNCHANGED <<current, armed, recovering, active>>
    BY <1>5 DEF RemoveTakes
  <2>2. CASE workers # NoWorker
    <3>1. /\ Goto(p, "stop") /\ UNCHANGED task /\ \A q \in Procs \ {p} : mark'[q] = mark[q]
          /\ mark'[p] = ~rebuilding
      BY <1>5, <2>2 DEF RemoveTakes, LocalsOK
    <3>2. Alone(p) /\ pc'[p] = "stop" /\ RecoveryOwned' /\ OneRecovery' /\ EventOwned'
      BY <1>4, <2>1, <3>1 DEF Removing
    <3>3. SlotOwned'
      <4>1. CASE ~rebuilding
        BY <1>2, <3>1, <3>2, <4>1 DEF SlotOwned, ClearsForSure, Clears
      <4>2. CASE rebuilding
        <5>1. PICK q \in Procs : ClearsForSure(q)
          BY <4>2 DEF Marks, SlotOwned
        <5>2. CASE q = p
          <6>1. task[p] = "rebuild"
            BY <1>2, <2>1, <5>1, <5>2 DEF ClearsForSure, Clears
          <6> QED BY <1>2, <3>1, <3>2, <6>1 DEF SlotOwned, ClearsForSure, Clears, Removing
        <5>3. CASE q # p
          BY <2>1, <3>2, <5>1, <5>3 DEF SlotOwned, ClearsForSure, Clears, HungIn, Alone
        <5> QED BY <5>2, <5>3
      <4> QED BY <4>1, <4>2
    <3> QED BY <3>2, <3>3 DEF Marks
  <2>3. CASE workers = NoWorker /\ rebuilding
    <3>1. Goto(p, "settle") /\ UNCHANGED <<task, mark, rebuilding>>
      BY <1>5, <2>3 DEF RemoveTakes
    <3>2. Alone(p) /\ pc'[p] = "settle" /\ RecoveryOwned' /\ OneRecovery' /\ EventOwned'
      BY <1>4, <2>1, <3>1 DEF Removing
    <3>3. ClearsForSure(p) => ClearsForSure(p)'
      BY <1>2, <2>1, <3>1, <3>2 DEF ClearsForSure, Clears, Removing
    <3> QED BY <2>1, <3>1, <3>2, <3>3, SlotKept DEF Marks
  <2>4. CASE workers = NoWorker /\ ~rebuilding
    BY <1>3, <1>5, <2>1, <2>4 DEF RemoveTakes, Removing, Marks, SlotOwned
  <2> QED BY <2>2, <2>3, <2>4
<1>6. CASE Settle(p)
  <2>1. pc[p] = "settle" /\ UNCHANGED <<rebuilding, current, armed, recovering, active>>
    BY <1>6 DEF Settle
  <2>2. CASE Goto(p, "remove") /\ UNCHANGED locals
    <3>1. Alone(p) /\ pc'[p] = "remove" /\ RecoveryOwned' /\ OneRecovery' /\ EventOwned'
      BY <1>4, <2>1, <2>2 DEF Removing
    <3>2. ClearsForSure(p) => ClearsForSure(p)'
      BY <1>2, <2>1, <2>2, <3>1 DEF ClearsForSure, Clears, Removing
    <3> QED BY <2>1, <3>1, <3>2, SlotKept DEF Marks
  <2>3. CASE Removed(p, FALSE)
    <3>1. /\ Alone(p) /\ RecoveryOwned' /\ OneRecovery' /\ EventOwned'
          /\ task[p] = "rebuild" => pc'[p] = "handover" /\ task'[p] = task[p]
      BY <1>3, <2>1, <2>3 DEF Removing
    <3>2. ClearsForSure(p) => ClearsForSure(p)'
      BY <1>2, <2>1, <3>1 DEF ClearsForSure, Clears, Adding
    <3> QED BY <2>1, <3>1, <3>2, SlotKept DEF Marks
  <2> QED BY <1>6, <2>2, <2>3 DEF Settle
<1>7. CASE StopWorker(p)
  <2>1. pc[p] = "stop" /\ UNCHANGED <<current, armed, recovering, active>> /\ rebuilding' = (rebuilding /\ ~mark[p])
    BY <1>7 DEF StopWorker
  <2>2. /\ Alone(p) /\ RecoveryOwned' /\ OneRecovery' /\ EventOwned'
        /\ task[p] = "rebuild" => pc'[p] = "handover" /\ task'[p] = task[p]
    BY <1>3, <1>7, <2>1 DEF StopWorker, Removing
  <2>3. CASE mark[p]
    BY <2>1, <2>2, <2>3 DEF Marks, SlotOwned
  <2>4. CASE ~mark[p]
    <3>1. ClearsForSure(p) => ClearsForSure(p)'
      BY <1>2, <2>1, <2>2, <2>4 DEF ClearsForSure, Clears, Adding
    <3> QED BY <2>1, <2>2, <3>1, SlotKept DEF Marks
  <2> QED BY <2>3, <2>4
<1>8. CASE RebuildEnter(p)
  <2>1. pc[p] = "rebuild" /\ UNCHANGED <<current, armed, recovering, active>>
    BY <1>8 DEF RebuildEnter
  <2>2. Alone(p) /\ pc'[p] = "remove" /\ UNCHANGED task
    BY <1>8 DEF RebuildEnter, CallRemove, Goto, Alone, LocalsOK
  <2>3. Recovers(p)' <=> Recovers(p)
    BY <2>1, <2>2 DEF Recovers
  <2>4. SlotOwned'
    <3>1. CASE task[p] = "rebuild"
      BY <1>2, <2>2, <3>1 DEF SlotOwned, ClearsForSure, Clears, Removing
    <3>2. CASE task[p] # "rebuild"
      BY <1>1, <2>1, <3>2 DEF PlaceOK
    <3> QED BY <3>1, <3>2
  <2> QED BY <2>1, <2>2, <2>3, <2>4, RecoveryKept, EventKept DEF Marks
<1>9. CASE Handover(p)
  <2>1. Alone(p) /\ pc'[p] = "add" /\ UNCHANGED <<task, recovering, active>> /\ ~rebuilding' /\ pc[p] = "handover"
    BY <1>9 DEF Handover, Goto, Alone, LocalsOK
  <2>2. Recovers(p)' <=> Recovers(p)
    BY <2>1 DEF Recovers
  <2> QED BY <2>1, <2>2, RecoveryKept, EventKept DEF Marks, SlotOwned
<1> QED BY <1>5, <1>6, <1>7, <1>8, <1>9

(* A step of a scan or a recovery keeps the marks. *)
LEMMA RecoveryMarks ==
    ASSUME LocalsOK, RestOK, Places, Marks, NEW p \in Procs,
           \/ Discover(p) \/ ScanFound(p) \/ ScanMissing(p)
           \/ Begin(p) \/ Round(p) \/ Verify(p) \/ Finish(p) \/ FinishEvent(p)
           \/ IsCurrent(p) \/ Observe(p)
    PROVE  Marks'
<1> USE DEF pool, reboot, transport, locals
<1> DEFINE Here == Scanning \cup Ends \cup {"begin", "is_current", "observe"}
<1>1. PlaceOK(p)
  BY DEF Places
<1>2. pc[p] \in Here
  BY DEF Discover, ScanFound, ScanMissing, Begin, Round, Verify, Finish, FinishEvent, IsCurrent, Observe,
         Scanning, Ends
<1>3. ~ClearsForSure(p) /\ UNCHANGED <<rebuilding, current, armed>>
  BY <1>2 DEF ClearsForSure, Clears, Scanning, Ends, Adding, Removing, Discover, ScanFound, ScanMissing,
              Begin, Round, Verify, Finish, FinishEvent, IsCurrent, Observe
<1>4. ASSUME NEW label, label # "finish_event", Goto(p, label), pc[p] # "finish_event", UNCHANGED <<task, mark>>,
             UNCHANGED <<recovering, active>>
      PROVE  Marks'
  <2>1. Alone(p) /\ pc'[p] = label
    BY <1>4 DEF Alone, Goto, LocalsOK
  <2>2. Recovers(p)' <=> Recovers(p)
    BY <1>4, <2>1 DEF Recovers
  <2> QED BY <1>3, <1>4, <2>1, <2>2, MarksKept
<1>5. ASSUME Continue(p), pc[p] \in Scanning, UNCHANGED <<recovering, active>> PROVE Marks'
  <2>1. task[p] # "observed" /\ pc[p] # "finish_event"
    BY <1>1, <1>5 DEF PlaceOK, Scanning
  <2>2. Departs(p, IF task[p] = "recovery" THEN "verify" ELSE "idle")
    BY <1>5, ContinueDeparts
  <2> QED BY <1>3, <1>5, <2>1, <2>2, DepartsKept, MarksKept
<1>6. ASSUME Return(p), task[p] \notin {"observed", "recovery"}, UNCHANGED <<recovering, active>> PROVE Marks'
  <2>1. Departs(p, "idle")
    BY <1>6, ReturnDeparts
  <2> QED BY <1>3, <1>6, <2>1, DepartsKept, MarksKept
<1>7. CASE Discover(p)  BY <1>4, <1>7 DEF Discover
<1>8. CASE ScanFound(p)
  <2>1. Continue(p) \/ ((Goto(p, "add") \/ Goto(p, "remove")) /\ UNCHANGED <<task, mark>>)
    BY <1>8 DEF ScanFound, CallRemove
  <2> QED BY <1>4, <1>5, <1>8, <2>1 DEF ScanFound, Scanning
<1>9. CASE ScanMissing(p)
  <2>1. Continue(p) \/ (Goto(p, "remove") /\ UNCHANGED <<task, mark>>)
    BY <1>9 DEF ScanMissing, CallRemove
  <2> QED BY <1>4, <1>5, <1>9, <2>1 DEF ScanMissing, Scanning
<1>10. CASE Begin(p)
  <2>1. pc[p] = "begin" /\ task[p] # "recovery" /\ ~Recovers(p)
    BY <1>1, <1>10 DEF Begin, PlaceOK, Recovers, Adding, Removing, Scanning, Ends
  <2>2. CASE recovering
    <3>1. Departs(p, "idle") /\ UNCHANGED recovering /\ active' = (active /\ task[p] # "observed")
      BY <1>10, <2>2, ReturnDeparts DEF Begin
    <3>2. Alone(p) /\ (Recovers(p)' <=> Recovers(p))
      BY <2>1, <3>1 DEF Departs, Alone, Recovers
    <3>3. SlotOwned'
      BY <1>3, <3>2, SlotKept DEF Marks
    <3>4. EventOwned'
      BY <2>1, <3>1, <3>2, EventKept DEF Marks
    <3> QED BY <3>1, <3>2, <3>3, <3>4, RecoveryKept DEF Marks
  <2>3. CASE ~recovering
    <3>1. /\ Alone(p) /\ pc'[p] = "remove" /\ task'[p] = "recovery"
          /\ recovering' /\ active' = active
      BY <1>10, <2>3 DEF Begin, CallRemove, Goto, Alone, LocalsOK
    <3>2. \A q \in Procs \ {p} : ~Recovers(q) /\ ~Recovers(q)'
      BY <2>3, <3>1 DEF Marks, RecoveryOwned, Alone, Recovers
    <3>3. RecoveryOwned' /\ OneRecovery'
      BY <3>1, <3>2 DEF RecoveryOwned, OneRecovery, Recovers
    <3>4. SlotOwned'
      BY <1>3, <3>1, SlotKept DEF Marks
    <3> QED BY <3>1, <3>3, <3>4, EventKept DEF Marks
  <2> QED BY <2>2, <2>3
<1>11. CASE Round(p)
  <2>1. Goto(p, "finish") \/ Goto(p, "scan") \/ UNCHANGED pc
    BY <1>11 DEF Round
  <2>2. pc[p] = "round" /\ UNCHANGED <<task, mark, recovering, active>>
    BY <1>11 DEF Round
  <2>3. CASE UNCHANGED pc
    BY <1>3, <2>2, <2>3, MarksKept DEF Alone, Recovers
  <2> QED BY <1>4, <2>1, <2>2, <2>3
<1>12. CASE Verify(p)
  <2>1. Goto(p, "round") \/ Goto(p, "finish") \/ Goto(p, "remove")
    BY <1>12 DEF Verify, CallRemove
  <2> QED BY <1>4, <1>12, <2>1 DEF Verify
<1>13. CASE Finish(p)
  <2>1. pc[p] = "finish" /\ task[p] = "recovery" /\ ~recovering' /\ UNCHANGED active
    BY <1>1, <1>13 DEF Finish, PlaceOK, Ends
  <2>2. Alone(p) /\ pc'[p] = "finish_event" /\ UNCHANGED task
    BY <1>13 DEF Finish, Goto, Alone, LocalsOK
  <2>3. \A q \in Procs : ~Recovers(q)'
    BY <2>1, <2>2 DEF Marks, OneRecovery, Recovers, Alone
  <2>4. SlotOwned'
    BY <1>3, <2>2, SlotKept DEF Marks
  <2> QED BY <2>1, <2>2, <2>3, <2>4, EventKept DEF Marks, RecoveryOwned, OneRecovery
<1>14. CASE FinishEvent(p)
  <2>1. pc[p] = "finish_event" /\ Departs(p, "idle") /\ ~active' /\ UNCHANGED recovering
    BY <1>14, ReturnDeparts DEF FinishEvent
  <2>2. Alone(p) /\ (Recovers(p)' <=> Recovers(p))
    BY <2>1 DEF Departs, Alone, Recovers
  <2>3. SlotOwned'
    BY <1>3, <2>2, SlotKept DEF Marks
  <2> QED BY <2>1, <2>2, <2>3, RecoveryKept DEF Marks, EventOwned
<1>15. CASE IsCurrent(p)
  <2>1. pc[p] = "is_current" /\ task[p] \notin {"observed", "recovery"}
    BY <1>1, <1>15 DEF IsCurrent, PlaceOK, Adding, Removing, Scanning, Ends
  <2>2. Return(p) \/ (Goto(p, "observe") /\ UNCHANGED <<task, mark>>)
    BY <1>15 DEF IsCurrent
  <2> QED BY <1>4, <1>6, <1>15, <2>1, <2>2 DEF IsCurrent
<1>16. CASE Observe(p)
  <2>1. pc[p] = "observe" /\ task[p] \notin {"observed", "recovery"} /\ UNCHANGED recovering
    BY <1>1, <1>16 DEF Observe, PlaceOK, Adding, Removing, Scanning, Ends
  <2>2. CASE Observes(w[p])
    <3>1. Alone(p) /\ pc'[p] = "begin" /\ task'[p] = "observed"
      BY <1>16, <2>2 DEF Observe, Goto, Alone, LocalsOK
    <3>2. Recovers(p)' <=> Recovers(p)
      BY <2>1, <3>1 DEF Recovers
    <3>3. SlotOwned'
      BY <1>3, <3>1, SlotKept DEF Marks
    <3> QED BY <2>1, <3>1, <3>2, <3>3, RecoveryKept DEF Marks, EventOwned
  <2>3. CASE ~Observes(w[p])
    BY <1>6, <1>16, <2>1, <2>3 DEF Observe
  <2> QED BY <2>2, <2>3
<1> QED BY <1>7, <1>8, <1>9, <1>10, <1>11, <1>12, <1>13, <1>14, <1>15, <1>16

(* A call that begins, a core, a loop or a clock keeps the marks. *)
LEMMA OtherMarks ==
    ASSUME LocalsOK, RestOK, Places, Marks,
           \/ \E p \in Procs :
                \/ HealthJudge(p) \/ HealthStarts(p) \/ Unplug(p) \/ Plug(p) \/ Ask(p)
                \/ \E g \in Gens : Exhausted(g, p) \/ Escalates(g, p)
           \/ \E g \in Gens : Background(g) \/ CoreFalls(g)
           \/ HealthLook \/ DeadlineExpires \/ UNCHANGED vars
    PROVE  Places' /\ Marks'
<1> USE DEF pool, reboot, transport, locals
<1>1. UNCHANGED <<rebuilding, current, armed, recovering, active>>
  BY DEF HealthJudge, HealthStarts, Unplug, Plug, UdevEvent, Ask, Exhausted, Escalates, Background,
         CoreRecovers, RetryStarts, RetryEnds, Converges, CoreFalls, HealthLook, DeadlineExpires, vars
<1>2. \/ UNCHANGED <<pc, task, then, mark>>
      \/ \E p \in Procs, g \in Gens \cup {NoWorker} :
           \/ Go(p, "start", "add", g) \/ Go(p, "rescan", "scan", g) \/ Go(p, "remove", "remove", g)
           \/ Go(p, "rebuild", "rebuild", g) \/ Go(p, "reboot", "begin", g) \/ Go(p, "event", "is_current", g)
           \/ Go(p, "event", "observe", g)
  <2>1. ASSUME NEW p \in Procs, HealthJudge(p)
        PROVE  UNCHANGED <<pc, task, then, mark>> \/ Go(p, "event", "observe", suspect)
    BY <2>1 DEF HealthJudge
  <2>2. ASSUME NEW p \in Procs, HealthStarts(p)
        PROVE  Go(p, "start", "add", NoWorker) \/ Go(p, "rescan", "scan", NoWorker)
    BY <2>2 DEF HealthStarts
  <2>3. ASSUME NEW p \in Procs, Unplug(p) \/ Plug(p)
        PROVE  UNCHANGED <<pc, task, then, mark>> \/ Go(p, "rescan", "scan", NoWorker)
    BY <2>3 DEF Unplug, Plug, UdevEvent
  <2>4. ASSUME NEW p \in Procs, Ask(p)
        PROVE  \/ Go(p, "remove", "remove", NoWorker) \/ Go(p, "rebuild", "rebuild", NoWorker)
               \/ Go(p, "reboot", "begin", NoWorker)
    BY <2>4 DEF Ask
  <2>5. ASSUME NEW p \in Procs, NEW g \in Gens, Exhausted(g, p) \/ Escalates(g, p)
        PROVE  UNCHANGED <<pc, task, then, mark>> \/ Go(p, "event", "is_current", g)
    BY <2>5 DEF Exhausted, Escalates
  <2>6. ASSUME \/ \E g \in Gens : Background(g) \/ CoreFalls(g)
               \/ HealthLook \/ DeadlineExpires \/ UNCHANGED vars
        PROVE  UNCHANGED <<pc, task, then, mark>>
    BY <2>6 DEF Background, CoreRecovers, RetryStarts, RetryEnds, Converges, CoreFalls, HealthLook,
                DeadlineExpires, vars
  <2>7. suspect \in Gens \cup {NoWorker}
    BY DEF RestOK
  <2> QED BY <2>1, <2>2, <2>3, <2>4, <2>5, <2>6, <2>7
<1>3. CASE UNCHANGED <<pc, task, then, mark>>
  <2>1. Places'
    BY <1>3 DEF Places, PlaceOK
  <2>2. /\ \A q \in Procs : /\ ClearsForSure(q)' <=> ClearsForSure(q)
                            /\ Recovers(q)' <=> Recovers(q)
    BY <1>1, <1>3 DEF ClearsForSure, Clears, HungIn, Recovers
  <2>3. SlotOwned' /\ RecoveryOwned' /\ OneRecovery' /\ EventOwned'
    BY <1>1, <1>3, <2>2 DEF Marks, SlotOwned, RecoveryOwned, OneRecovery, EventOwned
  <2> QED BY <2>1, <2>3 DEF Marks
<1>4. ASSUME NEW p \in Procs, NEW what, NEW label, NEW g, Go(p, what, label, g),
             <<what, label>> \in {<<"start", "add">>, <<"rescan", "scan">>, <<"remove", "remove">>,
                                  <<"rebuild", "rebuild">>, <<"reboot", "begin">>, <<"event", "is_current">>,
                                  <<"event", "observe">>}
      PROVE  Places' /\ Marks'
  <2>1. /\ Places' /\ Alone(p)
        /\ task[p] \notin {"rebuild", "observed", "recovery"} /\ pc[p] = "idle"
        /\ task'[p] \notin {"observed", "recovery"}
    BY <1>4, GoPlaces DEF Alone
  <2>2. ~ClearsForSure(p)
    BY <2>1 DEF ClearsForSure, Clears, Adding
  <2>3. Recovers(p)' <=> Recovers(p)
    BY <2>1 DEF Recovers
  <2> QED BY <1>1, <2>1, <2>2, <2>3, MarksKept
<1> QED BY <1>2, <1>3, <1>4

-----------------------------------------------------------------------------
(* It holds at first. *)
LEMMA InitIInv == Init => IInv
<1> SUFFICES ASSUME Init PROVE IInv
  OBVIOUS
<1> USE PoolAssumption DEF Init
<1>1. TypeOK
  BY DEF TypeOK, Labels, Tasks, Returns
<1>2. Instances /\ RegisteredIsRunning
  BY DEF Instances, RegisteredIsRunning, Unregistered
<1>3. Places
  BY DEF Places, PlaceOK, Ends, Removing
<1>4. Marks
  BY DEF Marks, SlotOwned, RecoveryOwned, OneRecovery, EventOwned, Recovers
<1> QED BY <1>1, <1>2, <1>3, <1>4 DEF IInv

(* The invariant is inductive. *)
LEMMA NextIInv == IInv /\ [Next]_vars => IInv'
<1> SUFFICES ASSUME IInv, [Next]_vars PROVE IInv'
  OBVIOUS
<1>1. LocalsOK /\ RestOK /\ Instances /\ RegisteredIsRunning /\ Places /\ Marks
  BY TypeSplit DEF IInv
<1>2. ASSUME NEW p \in Procs,
             \/ AddEnter(p) \/ Build(p) \/ BuildHangs(p) \/ AssignGeneration(p) \/ SetWorkerGeneration(p)
             \/ CheckAttempt(p) \/ Register(p) \/ CoreStarted(p) \/ CoreStartHangs(p) \/ Scrap(p)
             \/ AddEnds(p) \/ Watchdog(p)
      PROVE  LocalsOK' /\ RestOK' /\ Instances' /\ RegisteredIsRunning' /\ Places' /\ Marks'
  BY <1>1, <1>2, AddTypes, AddInstances, StartPlaces, AddMarks
<1>3. ASSUME NEW p \in Procs,
             RemoveTakes(p) \/ Settle(p) \/ StopWorker(p) \/ RebuildEnter(p) \/ Handover(p)
      PROVE  LocalsOK' /\ RestOK' /\ Instances' /\ RegisteredIsRunning' /\ Places' /\ Marks'
  BY <1>1, <1>3, RemoveTypes, RemoveInstances, StartPlaces, RemoveMarks
<1>4. ASSUME NEW p \in Procs,
             \/ Discover(p) \/ ScanFound(p) \/ ScanMissing(p)
             \/ Begin(p) \/ Round(p) \/ Verify(p) \/ Finish(p) \/ FinishEvent(p)
             \/ IsCurrent(p) \/ Observe(p)
      PROVE  LocalsOK' /\ RestOK' /\ Instances' /\ RegisteredIsRunning' /\ Places' /\ Marks'
  BY <1>1, <1>4, RecoveryTypes, RecoveryInstances, RecoveryPlaces, RecoveryMarks
<1>5. ASSUME NEW p \in Procs,
             \/ HealthJudge(p) \/ HealthStarts(p) \/ Unplug(p) \/ Plug(p) \/ Ask(p)
             \/ \E g \in Gens : Exhausted(g, p) \/ Escalates(g, p)
      PROVE  LocalsOK' /\ RestOK' /\ Instances' /\ RegisteredIsRunning' /\ Places' /\ Marks'
  BY <1>1, <1>5, CallerTypes, CallerInstances, OtherMarks
<1>6. ASSUME \/ \E g \in Gens : Background(g) \/ CoreFalls(g)
             \/ HealthLook \/ DeadlineExpires \/ UNCHANGED vars
      PROVE  LocalsOK' /\ RestOK' /\ Instances' /\ RegisteredIsRunning' /\ Places' /\ Marks'
  BY <1>1, <1>6, CoreTypes, CoreInstances, OtherMarks
<1>7. LocalsOK' /\ RestOK' /\ Instances' /\ RegisteredIsRunning' /\ Places' /\ Marks'
  BY <1>2, <1>3, <1>4, <1>5, <1>6 DEF Next, Step
<1> QED BY <1>7, TypeSplit DEF IInv

(* The inductive invariant holds always. *)
LEMMA PoolIInv == Spec => []IInv
BY InitIInv, NextIInv, PTL DEF Spec

-----------------------------------------------------------------------------
(* The pool keeps its types, for any number of goroutines and workers. *)
THEOREM PoolTypeOK == Spec => []TypeOK
<1>1. IInv => TypeOK
  BY DEF IInv
<1> QED BY <1>1, PoolIInv, PTL

(* The registered worker is never one whose core a removal or a failed start *)
(* has stopped, however many calls of pool.go overlap.                       *)
THEOREM RegisteredWorkersRun == Spec => []RegisteredIsRunning
<1>1. IInv => RegisteredIsRunning
  BY DEF IInv
<1> QED BY <1>1, PoolIInv, PTL

(* The marks of the pool that keep others away, rebuilding, recovering and   *)
(* the active event, are set only while a call goes on that will clear them. *)
THEOREM MarksHaveOwners == Spec => []MarksAreOwned
<1>1. IInv => MarksAreOwned
  BY DEF IInv, Marks, SlotOwned, RecoveryOwned, EventOwned, MarksAreOwned, ClearsForSure
<1> QED BY <1>1, PoolIInv, PTL

(* No two recoveries of the device overlap, whoever begins them. *)
THEOREM RecoveriesAreSingle == Spec => []OneRecovery
<1>1. IInv => OneRecovery
  BY DEF IInv, Marks
<1> QED BY <1>1, PoolIInv, PTL

(* A late start never takes the place of a registered worker: registerWorkerStarting *)
(* finds the map empty, and every other step only empties it.                        *)
THEOREM WorkersAreNotReplaced == Spec => NeverReplaced
<1> DEFINE Kept == workers # NoWorker => workers' \in {workers, NoWorker}
<1>1. ASSUME [Next]_vars PROVE Kept
  <2> USE DEF pool
  <2>1. ASSUME NEW p \in Procs, Step(p) PROVE Kept
    BY <2>1 DEF Step, AddEnter, AssignGeneration, SetWorkerGeneration, CheckAttempt, Register, Scrap, AddEnds,
                RemoveTakes, Settle, StopWorker, RebuildEnter, Handover, Discover, ScanFound, ScanMissing,
                Begin, Round, Verify, Finish, FinishEvent, IsCurrent, Observe
  <2>2. ASSUME NEW p \in Procs,
               \/ Build(p) \/ CoreStarted(p) \/ BuildHangs(p) \/ CoreStartHangs(p) \/ Watchdog(p)
               \/ HealthJudge(p) \/ HealthStarts(p) \/ Unplug(p) \/ Plug(p) \/ Ask(p)
        PROVE  Kept
    BY <2>2 DEF Build, CoreStarted, BuildHangs, CoreStartHangs, Watchdog, HealthJudge, HealthStarts,
                Unplug, Plug, UdevEvent, Ask
  <2>3. ASSUME \/ \E g \in Gens : \/ Background(g) \/ CoreFalls(g)
                                  \/ \E p \in Procs : Exhausted(g, p) \/ Escalates(g, p)
               \/ HealthLook \/ DeadlineExpires \/ UNCHANGED vars
        PROVE  Kept
    BY <2>3 DEF Background, CoreRecovers, RetryStarts, RetryEnds, Converges, CoreFalls, Exhausted, Escalates,
                HealthLook, DeadlineExpires, vars
  <2> QED BY <1>1, <2>1, <2>2, <2>3 DEF Next
<1>2. [Next]_vars => [Kept]_vars
  BY <1>1
<1> QED BY <1>2, PTL DEF Spec, NeverReplaced

-----------------------------------------------------------------------------
(* Who holds a worker that runs: the map, the start that has not registered  *)
(* it or gives it up, or the removal that took it out of the map.            *)
Holds(p, g) == w[p] = g /\ pc[p] \in Unregistered \cup {"scrap", "stop"}

(* Every running worker is registered, or held by a goroutine that will      *)
(* register or stop it.                                                      *)
WorkersAreHeld == \A g \in running : g = workers \/ \E p \in Procs : Holds(p, g)

(* A core that was started and not stopped is that of a running worker.      *)
Opened == {"up", "down", "dead"}
CoresRun == \A g \in Gens : core[g] \in Opened => g \in running

(* A start owns the core it starts until it returns: no retry loop and no    *)
(* other start touches it, and a start that gives up leaves it off.          *)
Starters == {"starting", "stuck", "scrap"}
StartsOwn ==
    \A p \in Procs : pc[p] \in Starters =>
        /\ w[p] \notin retry
        /\ core[w[p]] = IF pc[p] = "scrap" THEN "off" ELSE "starting"
        /\ \A q \in Procs : pc[q] \in Starters /\ w[q] = w[p] => q = p

HoldersOK == WorkersAreHeld /\ CoresRun /\ StartsOwn

(* A step that leaves alone whoever holds a worker, before or after.         *)
HoldersStay ==
    \A q \in Procs : pc[q] \in Special \/ pc'[q] \in Special => pc'[q] = pc[q] /\ w'[q] = w[q]

(* Such a step changes nothing, even if an open core falls or comes back.    *)
LEMMA HeldKept ==
    ASSUME HoldersOK, HoldersStay, UNCHANGED <<workers, running, retry>>, LocalsOK, Instances,
           \A g \in Gens : core'[g] = core[g] \/ {core[g], core'[g]} \subseteq Opened
    PROVE  HoldersOK'
<1>1. WorkersAreHeld'
  BY DEF HoldersOK, WorkersAreHeld, Holds, HoldersStay, Special
<1>2. CoresRun'
  BY DEF HoldersOK, CoresRun
<1>3. ASSUME NEW p \in Procs, pc'[p] \in Starters
      PROVE  /\ w'[p] \notin retry'
             /\ core'[w'[p]] = IF pc'[p] = "scrap" THEN "off" ELSE "starting"
             /\ \A q \in Procs : pc'[q] \in Starters /\ w'[q] = w'[p] => q = p
  <2>1. pc'[p] = pc[p] /\ w'[p] = w[p] /\ w[p] \in Gens
    BY <1>3 DEF HoldersStay, Starters, Special, Instances
  <2>2. /\ w[p] \notin retry
        /\ core[w[p]] = IF pc[p] = "scrap" THEN "off" ELSE "starting"
        /\ \A q \in Procs : pc[q] \in Starters /\ w[q] = w[p] => q = p
    BY <1>3, <2>1 DEF HoldersOK, StartsOwn
  <2>3. \A q \in Procs : pc'[q] \in Starters => pc'[q] = pc[q] /\ w'[q] = w[q]
    BY DEF HoldersStay, Starters, Special
  <2>4. core'[w[p]] = core[w[p]]
    BY <2>1, <2>2 DEF Opened
  <2> QED BY <2>1, <2>2, <2>3, <2>4
<1> QED BY <1>1, <1>2, <1>3 DEF HoldersOK, StartsOwn

(* A goroutine that holds no worker leaves those that do alone: it ends a     *)
(* call, goes on elsewhere, or begins one.                                   *)
LEMMA QuietMove ==
    ASSUME LocalsOK, NEW p \in Procs, pc[p] \notin Special,
           \/ Return(p) \/ Continue(p) \/ \E ok \in BOOLEAN : Removed(p, ok)
           \/ \E label \in Labels \ Special : Goto(p, label) /\ UNCHANGED w
           \/ \E label \in Labels \ Special, g \in Gens \cup {NoWorker}, what \in Tasks : Go(p, what, label, g)
           \/ UNCHANGED <<pc, w>>
    PROVE  HoldersStay
<1>1. CASE Return(p) \/ Continue(p) \/ \E ok \in BOOLEAN : Removed(p, ok)
  BY <1>1, CallForgets DEF Forgets, HoldersStay
<1>2. CASE \E label \in Labels \ Special : Goto(p, label) /\ UNCHANGED w
  BY <1>2 DEF Goto, HoldersStay, LocalsOK
<1>3. CASE \E label \in Labels \ Special, g \in Gens \cup {NoWorker}, what \in Tasks : Go(p, what, label, g)
  BY <1>3 DEF Go, Goto, HoldersStay, LocalsOK
<1>4. CASE UNCHANGED <<pc, w>>
  BY <1>4 DEF HoldersStay
<1> QED BY <1>1, <1>2, <1>3, <1>4

(* A worker is stopped by a goroutine that holds it and lets it go.          *)
LEMMA HoldersStop ==
    ASSUME HoldersOK, LocalsOK, Instances, NEW p \in Procs,
           running' = running \ {w[p]}, UNCHANGED <<workers, retry>>,
           pc'[p] \notin Special,
           \A q \in Procs \ {p} : pc'[q] = pc[q] /\ w'[q] = w[q],
           \A g \in Gens \ {w[p]} : core'[g] = core[g],
           w[p] \in Gens, core'[w[p]] \notin Opened,
           core[w[p]] \in {"off", "starting"} => core'[w[p]] = core[w[p]]
    PROVE  HoldersOK'
<1>1. ASSUME NEW g \in running' PROVE g = workers' \/ \E q \in Procs : Holds(q, g)'
  <2>1. g \in running /\ g # w[p]
    BY <1>1
  <2>2. CASE g = workers  BY <2>2
  <2>3. ASSUME NEW q \in Procs, Holds(q, g) PROVE Holds(q, g)'
    BY <2>1, <2>3 DEF Holds
  <2> QED BY <2>1, <2>2, <2>3 DEF HoldersOK, WorkersAreHeld
<1>2. CoresRun'
  BY DEF HoldersOK, CoresRun
<1>3. ASSUME NEW q \in Procs, pc'[q] \in Starters
      PROVE  /\ w'[q] \notin retry'
             /\ core'[w'[q]] = IF pc'[q] = "scrap" THEN "off" ELSE "starting"
             /\ \A r \in Procs : pc'[r] \in Starters /\ w'[r] = w'[q] => r = q
  <2>1. q # p /\ pc'[q] = pc[q] /\ w'[q] = w[q] /\ w[q] \in Gens
    BY <1>3 DEF Starters, Special, Instances
  <2>2. /\ w[q] \notin retry
        /\ core[w[q]] = IF pc[q] = "scrap" THEN "off" ELSE "starting"
        /\ \A r \in Procs : pc[r] \in Starters /\ w[r] = w[q] => r = q
    BY <1>3, <2>1 DEF HoldersOK, StartsOwn
  <2>3. core'[w[q]] = core[w[q]]
    BY <2>1, <2>2
  <2>4. ASSUME NEW r \in Procs, pc'[r] \in Starters PROVE pc'[r] = pc[r] /\ w'[r] = w[r]
    BY <2>4 DEF Starters, Special
  <2> QED BY <2>1, <2>2, <2>3, <2>4
<1> QED BY <1>1, <1>2, <1>3 DEF HoldersOK, StartsOwn, WorkersAreHeld

(* A step of a start keeps the holders. *)
LEMMA AddHolders ==
    ASSUME LocalsOK, RestOK, Instances, HoldersOK, NEW p \in Procs,
           \/ AddEnter(p) \/ Build(p) \/ BuildHangs(p) \/ AssignGeneration(p) \/ SetWorkerGeneration(p)
           \/ CheckAttempt(p) \/ Register(p) \/ CoreStarted(p) \/ CoreStartHangs(p) \/ Scrap(p)
           \/ AddEnds(p) \/ Watchdog(p)
    PROVE  HoldersOK'
<1> USE DEF instances, locals
<1>1. /\ {"build", "hung", "assign", "end_add"} \subseteq Labels \ Special
      /\ {"add", "build", "hung", "assign", "end_add"} \cap Special = {}
  BY DEF Labels, Adding, Special, Unregistered
<1>2. ASSUME NEW label, Goto(p, label), UNCHANGED locals
      PROVE  /\ \A q \in Procs \ {p} : pc'[q] = pc[q] /\ w'[q] = w[q]
             /\ pc'[p] = label /\ w'[p] = w[p]
  BY <1>2 DEF Goto, LocalsOK
<1>3. CASE AddEnter(p)
  <2>1. HoldersStay  BY <1>1, <1>3, QuietMove DEF AddEnter
  <2> QED BY <1>3, <2>1, HeldKept DEF AddEnter, pool
<1>4. CASE Build(p)
  <2>1. HoldersStay  BY <1>1, <1>4, QuietMove DEF Build
  <2> QED BY <1>4, <2>1, HeldKept DEF Build, pool
<1>5. CASE BuildHangs(p)
  <2>1. HoldersStay  BY <1>1, <1>5, QuietMove DEF BuildHangs
  <2> QED BY <1>5, <2>1, HeldKept DEF BuildHangs, pool
<1>6. CASE AssignGeneration(p)
  <2>1. /\ \A q \in Procs \ {p} : pc'[q] = pc[q] /\ w'[q] = w[q]
        /\ pc[p] = "assign" /\ pc'[p] = "set_generation" /\ w'[p] = Fresh
        /\ running' = running \cup {Fresh} /\ UNCHANGED <<workers, core, retry>>
    BY <1>6 DEF AssignGeneration, Goto, LocalsOK, pool
  <2>2. \A q \in Procs : pc'[q] \in Starters \/ pc[q] \in Starters => q # p
    BY <2>1 DEF Starters
  <2>3. ASSUME NEW g \in running' PROVE g = workers' \/ \E q \in Procs : Holds(q, g)'
    <3>1. CASE g = Fresh  BY <2>1, <3>1 DEF Holds, Unregistered
    <3>2. CASE g \in running
      <4>1. ASSUME NEW q \in Procs, Holds(q, g) PROVE Holds(q, g)'
        BY <2>1, <4>1 DEF Holds, Unregistered
      <4> QED BY <2>1, <3>2, <4>1 DEF HoldersOK, WorkersAreHeld
    <3> QED BY <2>1, <3>1, <3>2
  <2>4. CoresRun'
    BY <2>1 DEF HoldersOK, CoresRun
  <2>5. StartsOwn'
    BY <2>1, <2>2 DEF HoldersOK, StartsOwn
  <2> QED BY <2>3, <2>4, <2>5 DEF HoldersOK, WorkersAreHeld
<1>7. ASSUME pc[p] \in Unregistered, pc'[p] \in Unregistered, w'[p] = w[p],
             \A q \in Procs \ {p} : pc'[q] = pc[q] /\ w'[q] = w[q],
             UNCHANGED <<workers, running, core, retry>>
      PROVE  HoldersOK'
  <2>1. \A q \in Procs : pc'[q] \in Starters \/ pc[q] \in Starters => q # p
    BY <1>7 DEF Starters, Unregistered
  <2>2. \A q \in Procs, g \in running : Holds(q, g) => Holds(q, g)'
    BY <1>7 DEF Holds
  <2>3. WorkersAreHeld'
    BY <1>7, <2>2 DEF HoldersOK, WorkersAreHeld
  <2>4. CoresRun' /\ StartsOwn'
    BY <1>7, <2>1 DEF HoldersOK, CoresRun, StartsOwn
  <2> QED BY <2>3, <2>4 DEF HoldersOK
<1>8. CASE SetWorkerGeneration(p)
  BY <1>2, <1>7, <1>8 DEF SetWorkerGeneration, Unregistered, pool
<1>9. pc[p] \in Unregistered => w[p] \in Gens /\ Private(p) /\ core[w[p]] = "off" /\ w[p] \notin retry
  BY DEF Instances, Private, Known
<1>10. CASE CheckAttempt(p)
  <2>1. pc[p] \in Unregistered /\ UNCHANGED <<workers, core, retry>>
    BY <1>10 DEF CheckAttempt, Unregistered, pool
  <2>2. CASE Goto(p, "register") /\ running' = running
    BY <1>2, <1>7, <1>10, <2>1, <2>2 DEF CheckAttempt, Unregistered
  <2>3. CASE Goto(p, "end_add") /\ running' = running \ {w[p]}
    BY <1>1, <1>2, <1>9, <1>10, <2>1, <2>3, HoldersStop DEF CheckAttempt, Opened
  <2> QED BY <1>10, <2>2, <2>3 DEF CheckAttempt
<1>11. CASE Register(p)
  <2>1. pc[p] \in Unregistered /\ retry' = retry
    BY <1>11 DEF Register, Unregistered
  <2>2. CASE workers = NoWorker
    <3>1. /\ \A q \in Procs \ {p} : pc'[q] = pc[q] /\ w'[q] = w[q]
          /\ pc'[p] = "starting" /\ w'[p] = w[p]
          /\ running' = running /\ workers' = w[p] /\ core' = [core EXCEPT ![w[p]] = "starting"]
      BY <1>2, <1>11, <2>2 DEF Register
    <3>2. \A q \in Procs : w[q] = w[p] => q = p
      BY <1>9, <2>1 DEF Private
    <3>3. ASSUME NEW g \in running' PROVE g = workers' \/ \E q \in Procs : Holds(q, g)'
      <4>1. g # workers
        BY <2>2, <3>1, PoolAssumption DEF RestOK
      <4>2. PICK q \in Procs : Holds(q, g)
        BY <3>1, <4>1 DEF HoldersOK, WorkersAreHeld
      <4> QED BY <3>1, <4>2 DEF Holds
    <3>4. CoresRun'
      BY <1>9, <2>1, <3>1 DEF HoldersOK, CoresRun, Opened, RestOK
    <3>5. ASSUME NEW q \in Procs, pc'[q] \in Starters
          PROVE  /\ w'[q] \notin retry'
                 /\ core'[w'[q]] = IF pc'[q] = "scrap" THEN "off" ELSE "starting"
                 /\ \A r \in Procs : pc'[r] \in Starters /\ w'[r] = w'[q] => r = q
      <4>1. CASE q = p  BY <1>9, <2>1, <3>1, <3>2, <4>1 DEF RestOK
      <4>2. CASE q # p
        <5>1. pc[q] \in Starters /\ w'[q] = w[q] /\ w[q] # w[p] /\ w[q] \in Gens
          BY <3>1, <3>2, <3>5, <4>2 DEF Instances, Starters
        <5> QED BY <2>1, <3>1, <3>2, <4>2, <5>1 DEF HoldersOK, StartsOwn, RestOK
      <4> QED BY <4>1, <4>2
    <3> QED BY <3>3, <3>4, <3>5 DEF HoldersOK, WorkersAreHeld, StartsOwn
  <2>3. CASE workers # NoWorker
    BY <1>1, <1>2, <1>9, <1>11, <2>1, <2>3, HoldersStop DEF Register, Opened
  <2> QED BY <2>2, <2>3
<1>12. ASSUME pc[p] \in {"starting", "stuck"}
       PROVE  /\ w[p] \in Gens /\ w[p] \notin retry /\ core[w[p]] = "starting"
              /\ \A q \in Procs : pc[q] \in Starters /\ w[q] = w[p] => q = p
  BY <1>12 DEF HoldersOK, StartsOwn, Starters, Instances
<1>13. CASE CoreStarted(p)
  <2>1. /\ \A q \in Procs \ {p} : pc'[q] = pc[q] /\ w'[q] = w[q]
        /\ pc[p] \in {"starting", "stuck"} /\ pc'[p] \in {"end_add", "scrap"} /\ w'[p] = w[p]
        /\ running' = running
    BY <1>2, <1>13 DEF CoreStarted
  <2>2. /\ core' = [core EXCEPT ![w[p]] = IF pc'[p] = "scrap" THEN "off" ELSE @]
           \/ (pc'[p] = "end_add" /\ core' = [core EXCEPT ![w[p]] = Started(w[p])])
           \/ (pc'[p] = "end_add" /\ core' = [core EXCEPT ![w[p]] = "off"])
        /\ workers' = workers \/ (pc'[p] = "scrap" /\ workers = w[p])
        /\ retry' = retry \/ (pc'[p] = "end_add" /\ retry' = retry \cup {w[p]})
    BY <1>2, <1>13 DEF CoreStarted, pool
  <2>3. ASSUME NEW g \in running' PROVE g = workers' \/ \E q \in Procs : Holds(q, g)'
    <3>1. CASE g = workers  BY <2>1, <2>2, <3>1 DEF Holds
    <3>2. ASSUME NEW q \in Procs, Holds(q, g) PROVE Holds(q, g)'
      BY <2>1, <3>2 DEF Holds, Unregistered
    <3> QED BY <2>1, <3>1, <3>2 DEF HoldersOK, WorkersAreHeld
  <2>4. ASSUME NEW g \in Gens, core'[g] \in Opened PROVE g \in running
    <3>1. CASE g = w[p]  BY <1>12, <2>1, <2>2, <2>4, <3>1 DEF Started, Opened, RestOK
    <3>2. CASE g # w[p]  BY <2>2, <2>4, <3>2 DEF HoldersOK, CoresRun, RestOK
    <3> QED BY <3>1, <3>2
  <2>5. ASSUME NEW q \in Procs, pc'[q] \in Starters
        PROVE  /\ w'[q] \notin retry'
               /\ core'[w'[q]] = IF pc'[q] = "scrap" THEN "off" ELSE "starting"
               /\ \A r \in Procs : pc'[r] \in Starters /\ w'[r] = w'[q] => r = q
    <3>1. \A r \in Procs : pc'[r] \in Starters => pc[r] \in Starters /\ w'[r] = w[r]
      BY <2>1 DEF Starters
    <3>2. \A r \in Procs : pc'[r] \in Starters /\ w'[r] = w'[q] => r = q
      BY <2>5, <3>1 DEF HoldersOK, StartsOwn
    <3>3. CASE q = p
      <4>1. pc'[p] = "scrap"
        BY <2>1, <2>5, <3>3 DEF Starters
      <4> QED BY <1>12, <2>1, <2>2, <3>2, <3>3, <4>1 DEF RestOK
    <3>4. CASE q # p
      <4>1. pc[q] \in Starters /\ w[q] \in Gens /\ w[q] # w[p] /\ w'[q] = w[q] /\ pc'[q] = pc[q]
        BY <1>12, <2>1, <2>5, <3>4 DEF Instances, Starters
      <4>2. core'[w[q]] = core[w[q]] /\ (w[q] \in retry' => w[q] \in retry)
        BY <2>2, <4>1 DEF RestOK
      <4> QED BY <3>2, <4>1, <4>2 DEF HoldersOK, StartsOwn
    <3> QED BY <3>3, <3>4
  <2> QED BY <2>1, <2>3, <2>4, <2>5 DEF HoldersOK, WorkersAreHeld, CoresRun, StartsOwn
<1>14. CASE CoreStartHangs(p)
  <2>1. /\ \A q \in Procs \ {p} : pc'[q] = pc[q] /\ w'[q] = w[q]
        /\ pc[p] = "starting" /\ pc'[p] = "stuck" /\ w'[p] = w[p]
        /\ UNCHANGED <<workers, running, core, retry>>
    BY <1>2, <1>14 DEF CoreStartHangs, pool
  <2>2. \A q \in Procs, g \in running : Holds(q, g) => Holds(q, g)'
    BY <2>1 DEF Holds, Unregistered
  <2>3. \A q \in Procs : /\ w'[q] = w[q]
                         /\ pc'[q] \in Starters <=> pc[q] \in Starters
                         /\ pc'[q] = "scrap" <=> pc[q] = "scrap"
    BY <2>1 DEF Starters
  <2>4. WorkersAreHeld' /\ CoresRun'
    BY <2>1, <2>2 DEF HoldersOK, WorkersAreHeld, CoresRun
  <2>5. StartsOwn'
    BY <2>1, <2>3 DEF HoldersOK, StartsOwn
  <2> QED BY <2>4, <2>5 DEF HoldersOK
<1>15. CASE Scrap(p)
  <2>1. pc[p] = "scrap" /\ w[p] \in Gens /\ core[w[p]] = "off"
    BY <1>15 DEF Scrap, Instances, HoldersOK, StartsOwn, Starters
  <2> QED BY <1>1, <1>2, <1>15, <2>1, HoldersStop DEF Scrap, Opened, pool
<1>16. CASE AddEnds(p)
  <2>1. HoldersStay  BY <1>1, <1>16, QuietMove DEF AddEnds
  <2> QED BY <1>16, <2>1, HeldKept DEF AddEnds
<1>17. CASE Watchdog(p)
  <2>1. HoldersStay  BY <1>17 DEF Watchdog, HoldersStay
  <2> QED BY <1>17, <2>1, HeldKept DEF Watchdog
<1> QED BY <1>3, <1>4, <1>5, <1>6, <1>8, <1>10, <1>11, <1>13, <1>14, <1>15, <1>16, <1>17

(* A step of a removal or a rebuild keeps the holders. *)
LEMMA RemoveHolders ==
    ASSUME LocalsOK, RestOK, Instances, HoldersOK, NEW p \in Procs,
           \/ RemoveTakes(p) \/ Settle(p) \/ StopWorker(p) \/ RebuildEnter(p) \/ Handover(p)
    PROVE  HoldersOK'
<1> USE DEF instances, locals, pool
<1>1. /\ {"settle", "remove", "add"} \subseteq Labels \ Special
      /\ {"settle", "remove", "rebuild", "handover"} \cap Special = {}
  BY DEF Labels, Removing, Special, Unregistered
<1>2. CASE RemoveTakes(p)
  <2>1. CASE workers # NoWorker
    <3>1. /\ \A q \in Procs \ {p} : pc'[q] = pc[q] /\ w'[q] = w[q]
          /\ pc[p] = "remove" /\ pc'[p] = "stop" /\ w'[p] = workers
          /\ UNCHANGED <<running, core, retry>>
      BY <1>2, <2>1 DEF RemoveTakes, Goto, LocalsOK
    <3>2. ASSUME NEW g \in running PROVE \E q \in Procs : Holds(q, g)'
      <4>1. CASE g = workers  BY <3>1, <4>1 DEF Holds
      <4>2. ASSUME NEW q \in Procs, Holds(q, g) PROVE Holds(q, g)'
        BY <3>1, <4>2 DEF Holds, Unregistered
      <4> QED BY <4>1, <4>2 DEF HoldersOK, WorkersAreHeld
    <3>3. \A q \in Procs : pc'[q] \in Starters \/ pc[q] \in Starters => q # p
      BY <3>1 DEF Starters
    <3>4. CoresRun' /\ StartsOwn'
      BY <3>1, <3>3 DEF HoldersOK, CoresRun, StartsOwn
    <3> QED BY <3>1, <3>2, <3>4 DEF HoldersOK, WorkersAreHeld
  <2>2. CASE workers = NoWorker
    <3>1. HoldersStay  BY <1>1, <1>2, <2>2, QuietMove DEF RemoveTakes
    <3> QED BY <1>2, <2>2, <3>1, HeldKept DEF RemoveTakes
  <2> QED BY <2>1, <2>2
<1>3. CASE Settle(p)
  <2>1. HoldersStay  BY <1>1, <1>3, QuietMove DEF Settle
  <2> QED BY <1>3, <2>1, HeldKept DEF Settle
<1>4. CASE StopWorker(p)
  <2>1. w[p] \in Gens
    BY <1>4 DEF StopWorker, Instances
  <2>2. core'[w[p]] \notin Opened /\ (core[w[p]] \in {"off", "starting"} => core'[w[p]] = core[w[p]])
    BY <1>4, <2>1 DEF StopWorker, Opened, RestOK
  <2>3. \A g \in Gens \ {w[p]} : core'[g] = core[g]
    BY <1>4 DEF StopWorker, RestOK
  <2>4. Forgets(p)
    BY <1>4, CallForgets DEF StopWorker
  <2> QED BY <1>4, <2>1, <2>2, <2>3, <2>4, HoldersStop DEF StopWorker, Forgets
<1>5. CASE RebuildEnter(p)
  <2>1. HoldersStay  BY <1>1, <1>5, QuietMove DEF RebuildEnter, CallRemove
  <2> QED BY <1>5, <2>1, HeldKept DEF RebuildEnter
<1>6. CASE Handover(p)
  <2>1. HoldersStay  BY <1>1, <1>6, QuietMove DEF Handover
  <2> QED BY <1>6, <2>1, HeldKept DEF Handover
<1> QED BY <1>2, <1>3, <1>4, <1>5, <1>6

(* So does a step of a scan or a recovery. *)
LEMMA RecoveryHolders ==
    ASSUME LocalsOK, RestOK, Instances, HoldersOK, NEW p \in Procs,
           \/ Discover(p) \/ ScanFound(p) \/ ScanMissing(p)
           \/ Begin(p) \/ Round(p) \/ Verify(p) \/ Finish(p) \/ FinishEvent(p)
           \/ IsCurrent(p) \/ Observe(p)
    PROVE  HoldersOK'
<1> USE DEF instances, locals, pool
<1>1. /\ {"found", "missing", "add", "remove", "finish", "scan", "round", "finish_event", "observe", "begin"}
             \subseteq Labels \ Special
      /\ {"scan", "found", "missing", "begin", "round", "verify", "finish", "finish_event", "is_current",
          "observe"} \cap Special = {}
  BY DEF Labels, Removing, Scanning, Special, Unregistered
<1>2. HoldersStay
  <2>1. CASE Discover(p)  BY <1>1, <2>1, QuietMove DEF Discover
  <2>2. CASE ScanFound(p)  BY <1>1, <2>2, QuietMove DEF ScanFound, CallRemove
  <2>3. CASE ScanMissing(p)  BY <1>1, <2>3, QuietMove DEF ScanMissing, CallRemove
  <2>4. CASE Begin(p)  BY <1>1, <2>4, QuietMove DEF Begin, CallRemove
  <2>5. CASE Round(p)  BY <1>1, <2>5, QuietMove DEF Round
  <2>6. CASE Verify(p)  BY <1>1, <2>6, QuietMove DEF Verify, CallRemove
  <2>7. CASE Finish(p)  BY <1>1, <2>7, QuietMove DEF Finish
  <2>8. CASE FinishEvent(p)  BY <1>1, <2>8, QuietMove DEF FinishEvent
  <2>9. CASE IsCurrent(p)  BY <1>1, <2>9, QuietMove DEF IsCurrent
  <2>10. CASE Observe(p)  BY <1>1, <2>10, QuietMove DEF Observe
  <2> QED BY <2>1, <2>2, <2>3, <2>4, <2>5, <2>6, <2>7, <2>8, <2>9, <2>10
<1>3. UNCHANGED <<workers, running, core, retry>>
  BY DEF Discover, ScanFound, ScanMissing, Begin, Round, Verify, Finish, FinishEvent, IsCurrent, Observe
<1> QED BY <1>2, <1>3, HeldKept

(* So does a call that begins. *)
LEMMA CallerHolders ==
    ASSUME LocalsOK, RestOK, Instances, HoldersOK, NEW p \in Procs,
           \/ HealthJudge(p) \/ HealthStarts(p) \/ Unplug(p) \/ Plug(p) \/ Ask(p)
           \/ \E g \in Gens : Exhausted(g, p) \/ Escalates(g, p)
    PROVE  HoldersOK'
<1> USE DEF instances, locals, pool
<1>1. /\ {"add", "scan", "remove", "rebuild", "begin", "is_current", "observe"} \subseteq Labels \ Special
      /\ {"start", "rescan", "remove", "rebuild", "reboot", "event"} \subseteq Tasks
  BY DEF Labels, Removing, Scanning, Special, Unregistered, Tasks
<1>2. ASSUME NEW label \in Labels \ Special, NEW what \in Tasks, NEW g \in Gens \cup {NoWorker},
             Go(p, what, label, g)
      PROVE  HoldersStay
  <2>1. pc[p] = "idle" /\ "idle" \notin Special
    BY <1>2 DEF Go, Special, Unregistered
  <2> QED BY <1>2, <2>1, QuietMove
<1>3. UNCHANGED <<pc, w>> => HoldersStay
  BY DEF HoldersStay
<1>4. HoldersStay
  <2>1. CASE HealthJudge(p)  BY <1>1, <1>2, <1>3, <2>1 DEF HealthJudge, RestOK
  <2>2. CASE HealthStarts(p)  BY <1>1, <1>2, <2>2 DEF HealthStarts
  <2>3. CASE UdevEvent(p)  BY <1>1, <1>2, <1>3, <2>3 DEF UdevEvent
  <2>4. CASE Ask(p)  BY <1>1, <1>2, <2>4 DEF Ask
  <2>5. ASSUME NEW g \in Gens, Exhausted(g, p) PROVE HoldersStay
    BY <1>1, <1>2, <1>3, <2>5 DEF Exhausted
  <2>6. ASSUME NEW g \in Gens, Escalates(g, p) PROVE HoldersStay
    BY <1>1, <1>2, <2>6 DEF Escalates
  <2> QED BY <2>1, <2>2, <2>3, <2>4, <2>5, <2>6 DEF Unplug, Plug
<1>5. UNCHANGED <<workers, running, retry>>
  BY DEF HealthJudge, HealthStarts, Unplug, Plug, UdevEvent, Ask, Exhausted, Escalates
<1>6. \A g \in Gens : core'[g] = core[g] \/ {core[g], core'[g]} \subseteq Opened
  <2>1. ASSUME NEW h \in Gens, Exhausted(h, p)
        PROVE  \A g \in Gens : core'[g] = core[g] \/ {core[g], core'[g]} \subseteq Opened
    BY <2>1 DEF Exhausted, Opened, RestOK
  <2> QED BY <2>1 DEF HealthJudge, HealthStarts, Unplug, Plug, UdevEvent, Ask, Escalates
<1> QED BY <1>4, <1>5, <1>6, HeldKept

(* So does a step of a core, a loop around it, or a clock. *)
LEMMA CoreHolders ==
    ASSUME LocalsOK, RestOK, Instances, HoldersOK,
           \/ \E g \in Gens : Background(g) \/ CoreFalls(g)
           \/ HealthLook \/ DeadlineExpires \/ UNCHANGED vars
    PROVE  HoldersOK'
<1> USE DEF instances, locals, pool
<1>1. UNCHANGED <<pc, w, workers, running>>
  BY DEF Background, CoreRecovers, RetryStarts, RetryEnds, Converges, CoreFalls, HealthLook,
         DeadlineExpires, vars
<1>2. HoldersStay
  BY <1>1 DEF HoldersStay
<1>3. ASSUME NEW g \in Gens, CoreRecovers(g) \/ Converges(g) \/ CoreFalls(g) PROVE HoldersOK'
  <2>1. \A h \in Gens : core'[h] = core[h] \/ {core[h], core'[h]} \subseteq Opened
    BY <1>3 DEF CoreRecovers, Converges, CoreFalls, Opened, RestOK
  <2>2. retry' = retry
    BY <1>3 DEF CoreRecovers, Converges, CoreFalls
  <2> QED BY <1>1, <1>2, <2>1, <2>2, HeldKept
<1>4. CASE HealthLook \/ DeadlineExpires \/ UNCHANGED vars
  <2>1. UNCHANGED <<core, retry>>
    BY <1>4 DEF HealthLook, DeadlineExpires, vars
  <2> QED BY <1>1, <1>2, <2>1, HeldKept
<1>5. ASSUME NEW g \in Gens, RetryStarts(g) \/ RetryEnds(g) PROVE HoldersOK'
  <2>1. /\ g \in retry /\ retry' \subseteq retry
        /\ \A h \in Gens \ {g} : core'[h] = core[h]
        /\ core'[g] \in Opened => g \in running \/ core'[g] = core[g]
    BY <1>5 DEF RetryStarts, RetryEnds, Started, Opened, RestOK
  <2>2. WorkersAreHeld'
    BY <1>1 DEF HoldersOK, WorkersAreHeld, Holds
  <2>3. CoresRun'
    BY <1>1, <2>1 DEF HoldersOK, CoresRun
  <2>4. ASSUME NEW q \in Procs, pc[q] \in Starters PROVE w[q] \in Gens \ {g}
    BY <2>1, <2>4 DEF HoldersOK, StartsOwn, Instances, Starters
  <2>5. StartsOwn'
    BY <1>1, <2>1, <2>4 DEF HoldersOK, StartsOwn
  <2> QED BY <2>2, <2>3, <2>5 DEF HoldersOK
<1> QED BY <1>3, <1>4, <1>5 DEF Background

(* At first nothing runs. *)
LEMMA InitHolders == Init => HoldersOK
BY DEF Init, HoldersOK, WorkersAreHeld, CoresRun, StartsOwn, Opened, Starters

(* Every step keeps the holders. *)
LEMMA NextHolders == IInv /\ HoldersOK /\ [Next]_vars => HoldersOK'
<1> SUFFICES ASSUME IInv, HoldersOK, [Next]_vars PROVE HoldersOK'
  OBVIOUS
<1>1. LocalsOK /\ RestOK /\ Instances
  BY TypeSplit DEF IInv
<1> QED BY <1>1, AddHolders, RemoveHolders, RecoveryHolders, CallerHolders, CoreHolders DEF Next, Step

(* So they are kept always. *)
LEMMA PoolHolders == Spec => []HoldersOK
BY InitHolders, NextHolders, PoolIInv, PTL DEF Spec

(* However starts, removals, rebuilds and watchdogs overlap, no worker that  *)
(* AddWorkerFromConfig made is left running with nobody to stop it: it is in *)
(* p.workers, or a goroutine has it that will register or stop it next.      *)
THEOREM NoWorkerIsLeaked == Spec => []WorkersAreHeld
<1>1. HoldersOK => WorkersAreHeld
  BY DEF HoldersOK
<1> QED BY <1>1, PoolHolders, PTL

(* A core that talks to the device is that of the registered worker or of    *)
(* one whose removal is under way.                                           *)
OtherCoresAreStopping ==
    \A g \in Gens : core[g] \in Opened =>
        g = workers \/ \E p \in Procs : pc[p] = "stop" /\ w[p] = g

(* So of two cores on one device all but one are being stopped by            *)
(* RemoveWorker, whatever starts hang, return late, or are retried.          *)
(* (A start that returns after its worker was stopped is followed no further: *)
(* Started.)                                                                 *)
THEOREM OneCoreServes == Spec => []OtherCoresAreStopping
<1>1. IInv /\ HoldersOK => OtherCoresAreStopping
  <2> SUFFICES ASSUME IInv, HoldersOK, NEW g \in Gens, core[g] \in Opened, g # workers
               PROVE  \E p \in Procs : pc[p] = "stop" /\ w[p] = g
    BY DEF OtherCoresAreStopping
  <2>1. PICK p \in Procs : Holds(p, g)
    BY DEF HoldersOK, CoresRun, WorkersAreHeld
  <2>2. core[g] # "off"
    BY DEF Opened
  <2>3. pc[p] # "scrap"
    BY <2>1, <2>2 DEF Holds, HoldersOK, StartsOwn, Starters
  <2>4. pc[p] \notin Unregistered
    BY <2>1, <2>2 DEF Holds, IInv, Instances, Private, Known
  <2> QED BY <2>1, <2>3, <2>4 DEF Holds
<1> QED BY <1>1, PoolIInv, PoolHolders, PTL
=============================================================================

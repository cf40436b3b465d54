# Formal models of OpenVoHive

OpenVoHive drives a rack of cellular modems: it opens each modem's QMI, MBIM or
AT control channel, keeps a data call up, sends and receives SMS and USSD,
switches eSIM profiles and answers SIM authentications.  This directory holds
TLA+ models of the parts whose correctness depends on the order in which
goroutines, timers and the modem act, the TLC instances that check them, and
TLAPS proofs of the properties that matter most.

The repository has no tests.  Every definition below is read from the Go code;
the few sentences of documentation that state behaviour (comments, log lines,
`src/README.md`) are quoted where a run contradicts them.

## The system

| Component | State | Operations | Talks to |
|---|---|---|---|
| APDU arbiter (`internal/apduarbiter/arbiter.go`) | queue of tickets, active leases and barriers, `notifyC` | AcquireSession, AcquireOneShot, AcquireTransport, Touch, Release, BeginBarrier, WaitIdle, watchdog | called by everything that sends an APDU |
| SIM-auth gate (`internal/apduarbiter/simauth_ready.go`) | generation, ready, probing, `waitC` | WaitSIMAuthReady, InvalidateSIMAuthReady | eSIM switch and reset handling invalidate it, authentications wait for it |
| QMI manager (`pkg/quectel-qmi/manager`) | connection state, desired connection, handles, client and services, event channel, timers, reset bookkeeping | StartCore, Connect, Disconnect, Stop, event loop, indication handler, RequestCoreRecovery | QMI client below, device pool above (events, WaitCoreReady) |
| QMI client (`pkg/quectel-qmi/qmi/client.go`) | transactions, client ids, queues of writes and indications | SendRequest, AllocateClientID, Close, reader, writer, indication loop | the control device |
| Device pool (`internal/device`) | workers and their generations, life-cycle phases, recoveries, eSIM switches | start, evict, rebuild, reboot recovery, eSIM switch | QMI/AT/MBIM managers, arbiter |
| AT modem manager (`internal/modem/manager.go`) | two command queues, reader queue, timeout watchdog | ExecuteAT, URC dispatch, pause, stop | a serial port |
| MBIM manager (`internal/mbim`, `pkg/mbim`) | device, session, one USSD waiter | open, USSD, SMS, transactions | the control device |
| SMS (`internal/sms`, `pkg/smscodec`, `internal/db/sms_delivery.go`) | stored messages, concatenated parts, delivery state | poll, reassemble, record parts and reports | managers, database |
| Traffic (`internal/db/traffic*.go`) | counters per minute, hour, day, week, month | add, roll up, clean up | database |
| Others | | configuration, HTTP API, notifications, network configuration, web and LuCI front ends | |

What is hard about it:

* a modem resets at any moment: every service client is revoked, the data call
  is gone, the control device may come back seconds later or not at all, and the
  reset is announced by an indication that may be doubled, coalesced with
  another, or meet a full channel;
* the program reacts from many goroutines (event loop, indication handler,
  timers, API requests, health checks) that read a field, talk to the modem for
  seconds with no lock held, and then act on what they had read;
* an eSIM switch must have the card to itself, while authentications, SMSC
  reads and profile downloads compete for it, hang, or are cancelled;
* everything has a deadline, and the late answer or the late release of the
  party that missed it still arrives.

What makes each component correct:

* arbiter: leases and barriers are out together only as the rules allow; nobody
  sleeps on a device that is free for him; a lease ends by its holder or its
  deadline; a barrier is not overtaken;
* gate: one probe at a time, and no success that belongs to a card that is gone;
* manager: no reset is lost but in the ways named below, the core comes back or the
  manager says it gave up, Stop leaves nothing that runs;
* client: an answer reaches the request it answers, no request waits for ever,
  a critical indication is delivered;
* pool: one recovery per device, eviction never meets a recovery, a worker of an
  old generation is not acted upon;
* switch: phases and marks belong to the newest switch; a device is never left
  marked as switching;
* AT, MBIM: an answer is taken for the command it answers; a waiter is told of
  the end of the session;
* SMS delivery: the state of a message agrees with its parts; traffic: a roll-up
  loses and doubles nothing.

## Modules

| Module | Models |
|---|---|
| `ApduAccess` | what the arbiter promises: which leases and barriers may be out together, no queue and no waiting |
| `ApduArbiter` | the arbiter itself: queue, selection, ages, notification, watchdog |
| `ApduArbiterProofs` | its type invariant, five safety invariants, three action properties and the refinement, proved |
| `SimAuthReady` | the SIM-auth gate |
| `SimAuthReadyProofs` | its type invariant, three safety invariants and an action property, proved |
| `QmiManager` | life cycle, data call and modem-reset recovery of one modem |
| `QmiClient` | one QMI client: requests, the table of transactions, the three loops, coalescing, Close |
| `QmiClientProofs` | its type invariant and seven safety invariants, proved |
| `DevicePool` | the pool around one QMI-managed device: start, removal, rebuild, scan, health tick, transport and reboot recovery |
| `EsimSwitch` | what happens around a switch of the eSIM profile: tokens, guard, radio, identity |
| `EsimOverview` | the cached overview of the card, its loads and what makes them stale |
| `ModemAT` | AT commands on a serial port: queues, request pool, the two loops, the watchdog |
| `QmiManagerProofs` | its type invariant, that Stop leaves nothing, and two action properties on lost resets, proved; all but the first under hypotheses named below |
| `DevicePoolProofs` | its type invariant, five safety invariants and an action property, proved |
| `EsimSwitchProofs`, `EsimOverviewProofs`, `ModemATProofs` | the type invariant and the safety invariant of each, proved; of the AT manager two more |
| `MC...` | the TLC instances: callers, requests, symmetry |

A definition named `X_Something` just before `X` is a mutant: the bug in `X` that
a property must catch, used by no specification.

### ApduArbiter

One action is one critical section of `a.mu`.  `Arrive` is `acquire` or
`BeginBarrier` up to the first select: normalise the request, queue the ticket,
signal, decide.  `Wake` is a turn of their loop after the channel was closed,
`GiveUp` the `ctx.Done` branch; `Release`, `releaseBarrier`, `touch`,
`releaseExpired` and `WaitIdle` are the functions of those names.
`WatchdogFires` is the timer, which starts a callback that waits for the mutex.

`notifyC` is closed and replaced by each signal, so a sleeper that read it in
its last critical section can only learn whether *that* channel is closed:
`notified` is the set of sleepers for whom it is.  `aged`, `expired` and `fired`
replace the clock: a wait reaches 500 ms, a deadline passes, a callback is on
its way.  Tickets come of age in queue order.

A ticket is the record of the fields the decisions read.  Owner, mode (beyond
its part in the scope of a transport) and all statistics are left out.

### SimAuthReady

One action is one critical section of `a.mu` or the answer of the probe, which
runs with no lock.  `waitC` is treated like `notifyC`.  `at` is the generation a
probe began in (the code's local `generation`), `proved` is history: the
generations of the probes that succeeded.

### QmiManager

An action is one critical section, one request to the modem or one channel
operation.  `pc` gives each API goroutine and the event loop a place in the
function it runs; `ind` is the indication handler, `timers` and `fired` the
callbacks of `scheduleAfter` (armed, and past the point where Stop can prevent
them), `queueing` the goroutines between the dedup check of
`enqueueModemResetEvent` and their send.

The modem is three variables: `epoch` counts its resets, so that a client opened
in an earlier epoch gets no answers; `calls` is the data calls it carries;
`inbox` the indications the open client has not delivered.

A nil service or client that the code would dereference is the label `panicked`.
Go ends the program there, so nothing follows it.

A dial holds no lock while it talks to the modem, so its two requests, for the WDS
service and for the call, are a step that asks, a step in which the modem answers or
the time runs out, and a step that stores the answer.  `got` is what the dial has in
hand meanwhile: a service, which `cleanup` of another goroutine may close (`closed`),
and a handle.  `overtaken` is history: a dial had an answer in hand when Stop cleaned
up.  The WDA service is only a request that may fail.

The configuration is the program's: IPv4, AutoReconnect, NoDial, the lazy data
plane.  Two facts about durations are used:

* `StartIsPrompt`, a constant, because the code relies on it without checking:
  StartCoreContext, having launched the goroutines, marks the core ready before a
  reset that arrives meanwhile has been torn down.  The code between the two is a few
  assignments, the reset takes requests to the modem.
* The quiet window at the end of a recovery is as long as the dedup window (both one
  second, `manager.go:365-366`) and begins later, so it does not end before the dedup window does.

Left out: RotateIP and the radio reset, ResetExistingDataConnection, IPv6 (a
second handle with the same treatment) and its background retry, QMAP, the
rebinds of single services and the timeout-storm counters, whose only effect
here is RequestCoreRecovery, which is an action.

### QmiClient

An action is one critical section of `c.mu` or `c.coalescedMu`, one operation on a
channel, or an event of the connection.  A request is its own call of
`SendRequest`, from `Register` (the critical section that takes the id and lists
the entry) to `completeTransaction` (the deferred removal).  `pc` is its place,
`written` and `inbox` are its two channels of capacity one: the writer's result
and `respCh`, which `closedInbox` says is closed.  `writer` is what writerLoop
holds, `readerPc` and `hand` where readLoop stands and what it carries from the
lookup under `c.mu` to the send outside it, `loopPc` and `out` the same of
indicationLoop.

The modem is the set `asked`: requests it has and may answer once, at any time or
never.  An indication carries any transaction id.  `Unplugged` makes reads fail
while writes may still be taken; Close closes `closeCh` and the connection, which
is one step here.

The ids of a service come round (255 or 65535 requests later, one or two here), and
nobody asks whether the next one is still in use.  The new entry replaces the one
under its key, and whoever returns first deletes the entry under his key, whosesoever
it is.  `Outstanding` says that a request is under way or its answer may still come;
`rivals` is history: the requests with the same id that were outstanding when this one
registered.  An answer whose entry is gone is handed on like an indication, by its
message id (`TakenForIndication`).

`received` and `delivered` number the indications of a kind, so that "the newest
one" can be said.  `spent` is the bound.

Left out: clientIDs, which only `GetClientID` reads and nobody calls; frames that
do not parse, statistics, logging, the cached service versions and the opening of
the device.

### DevicePool

One device, whose worker is started, watched, removed and started again by
goroutines that come and go: an API call, a scan after a udev event, a start of
the health tick, a recovery.  A slot of `Procs` runs one of them: `task` says which,
`pc` where it is, `then` where RemoveWorker returns to, `w` the worker it holds.  An
action is one critical section of `p.mu`, of the controller's or of the life
cycle's mutex, or a call that takes time.

Four marks say what is under way, each with its own lock, clock and owner:
`rebuilding` with the number of the newest attempt (`current`, here the goroutine that
began it, since attempts are compared for equality only), `recovering` (the reboot
recovery) with its wake-up token, `active` (the transport event), and `phase` with
its deadline.

A worker is its generation, an element of `Gens` that is used again when nobody
holds it; when all are held a start waits, which is a bound.  `core` is its QMI core
(module `QmiManager` seen from above: up, down and recovering, dead when it gave
up), `running` the workers whose `stop` is open, `retry` and `conv` the goroutines that
retry a failed core start and wait for the SIM identity.  `attached` is the USB device.

Durations are abstract: a delay or a deadline passes at any moment after it began.
Two facts about them are used: the 90 s of the start watchdog outlast every start
that does not hang, and so do the 3 minutes of the life-cycle deadline.

Two things are taken from elsewhere or left out.  StopWorker calls QMICore.Stop and waits
for it: that this ends is `StopEnds` of `QmiManager`, with its exceptions.  Of the guards of a health
tick only what lets a worker be evicted is kept; a look that changes nothing (the
failure threshold is not reached, another guard holds) is no step.

The branch of runModemRebootRecovery that observes the event itself is never taken
(every caller that passes an event has observed it), and is left out.

### EsimSwitch

A switch is its token, `1..MaxSwitches`.  The call holds `opMu` from `Capture` to
`Enable`; `Resolve` to `Clear` is the goroutine that finalizes it, with no lock, and the
token compared at each `Check`.  `marked` is the token in `switchTokens`; the snapshot
and the switching mark are set and deleted with it in one critical section.  `guard`
holds the switches whose two-minute goroutine has not fired; `Early` says where a
switch is sure to be younger than that.

The identity of the SIM is four variables with a generation of their own, written
by finalize, by its delayed retry and by `refreshIdentityLive`, which reads and
publishes in two steps.  `card` is the profile that is really enabled: a switch may be
reported done and not have happened.  No property but the type invariant is about the
identity: it is there for what Findings says of it.  `Capture` keeps its error path: an operating mode that
cannot be read counts as online.

Finalize and the retry of one switch do not read the identity at the same instant
(`reading`): a bound of the model.  Left out: the phases, which are only logged; the
data call and the network preference, restored after the radio; the optional event
source of the convergence, off by default; a worker that is removed meanwhile.

### EsimOverview

`pc` is the place of a call in `loadOverview`, `RefreshOverview` or `RefreshProfiles`; the
background reload is one more loader.  `key` is the generation in its singleflight
key.  An overview is the profile it shows and how it came about; `asOf` is the
generation when the card was read, so that the property can speak of it, and
`since` the generation when the caller asked.  A write operation is `writer`, since
`opMu` admits one.  `notifier` is the goroutine that runs the callbacks of the modem's
events one after the other (`pkg/quectel-qmi/manager/callbacks.go:496`); a callback's look at the suppression, its
invalidation and its reload are separate sections of `cacheMu`, and separate steps.  Of the two ways
to announce a reset only the delayed one is modelled; the program calls no other
(`internal/device/pool_bootstrap.go:463`).

### ModemAT

A call has a request, which goes into a queue as a value but with the request's two
channels, `out`.  `pool` is `reqPool`, from which a call takes its request a step after
its checks.  An action is a channel operation with what follows it up to the next; `handleCommand` is a loop over lines, each an action.  The
reader carries a line from the port to `rx` in one step, and the error that ends it
in two, because stop is not asked again before the send.  `stopped` is the closed
channel, the closed port and `running`.

The modem owes answers, `pending`, in the order of the commands, one line each (a
message: a prompt, then an answer).  It may never answer, or answer late.

A line that nobody asked for ends the command under way if it contains `ERROR` or `>`:
handleCommand looks for these (`internal/modem/manager.go:712`, `:723`) before it asks whether the line is a
URC.  The modem sends such lines at any time.

Three ghosts: an entry is `mine` as long as its caller waits for it, a line is
`stray` when the command it answers has ended or there is none, and `outOfStep` says
that some command timed out or some line passed for an answer.

Left out: what the other lines do (`handleURC`), USSD, the stored messages.

## Runs

| Run | Expected | What it shows |
|---|---|---|
| `apdu_rules` | pass | Three goroutines make every kind of call, four tickets in all, every wait may age, one Touch. The admission rules, the queue and the wake-ups hold in every interleaving; the arbiter implements `ApduAccess`. |
| `apdu_live` | pass | Transports and the barrier of an eSIM switch under fairness, with holders that never release, so that waits come of age and watchdogs fire: every wait ends but in an `AgedStall`, which the instance reaches. |
| `qmi_recovery` | pass | A start and a connect, then resets, an indication or a tick, and failures, with an event channel of one place: a recovery ends, and a reset is lost only in the two ways that the properties name, both of which are reached. |
| `qmi_stop` | pass | A start, a Connect or Disconnect of another goroutine, and Stop, with an event channel of one place: Stop returns unless the loop panics or the channel is stuck (both reached), and leaves nothing that runs. |
| `simauth` | pass | Three callers, four calls, two invalidations. |
| `qmi_client` | pass | Two requests, or a request and an indication, or three indications, over queues of one place, with time-outs, late answers, failed writes, a lost connection and Close at any moment: answers reach their own request (or one that reused its id while it was outstanding), the newest state is not lost to a full queue, and nobody waits for ever. |
| `device_pool` | pass | Two goroutines at a time start, remove, rebuild, scan and recover; the API asks once; one failure, hang or unplugging. A worker that was stopped is never left registered, and no mark outlives the calls that clear it. |
| `device_live` | pass | The same under fairness, left to itself after one trouble: the slot is freed even if a start hangs, a recovery ends, an attached device comes back. |
| `esim_overview` | pass | One caller and the background reload against enables, disables, refreshes and the callbacks of resets and UIM indications, step by step, three invalidations in all: what a load answers was read after the last invalidation before the call. |
| `esim_switch` | pass | Two switches, the second while the first goes on without the lock, with everything that may fail: the switching mark is the newest switch's, from its beginning to its end. |
| `esim_radio` | violation | One switch with the radio cycle, which does not converge: the radio stays in low power. |
| `modem_at` | pass | Two callers over queues of one place, with time-outs, late answers, lines that pass for answers, a pause, a failing port and Stop: a caller never gets the answer meant for another call's use of its request, none is late before a first time-out or such a line, and a dead reader is noticed. |

### Bounds

* `ApduArbiter`: three goroutines are the least that can hold, wait and overtake
  at once; a fourth ticket lets a goroutine that gave up, or lost its lease to
  the watchdog, come back while its old lease is still being ended.  Two QMI
  transports make the limit and the channel rule bite; one session makes the
  session limit bite.  `MaxTouches = 1` is enough for a callback that fired
  before the deadline moved.  The rules hold for every bound: they are proved.
  In `apdu_live` three waits are enough for one that held the device and two that meet
  in an `AgedStall`; whoever calls or releases next ends the stall.
* `SimAuthReady`: two invalidations make a probe stale twice; four calls let a
  caller return and come back while an older probe is under way.
* `QmiManager`: one reset with a failure covers a recovery, its retry and giving
  up; a second reset, a retry or a failed service makes a `ModemReset` event that meets
  the first.  `EventCap` is 1 in both runs, so that the channel fills; one place is also
  enough for a loop that keeps up.  `qmi_recovery`: a call costs 2 and everything else 1, `Budget` 6, which
  is a start with four events or a start and a connect with two.  `qmi_stop`: three calls and two other events.
  The exemption of `CutOffByDeferralOnly` for a reset that meets the window of a deferred one
  needs one event more than this budget; it is reached with `OpCost` 3 and `Budget` 8.
* `QmiClient`: two requests share a key of the one `control` id or have two of the
  `service` ids, one wrapping; a request timing out while its answer is in flight
  needs one, that answer coming while another request is listed two.  Two kinds that coalesce
  and one that does not, over a queue, a store and an event channel of one place,
  fill each of them; a third indication replaces one that is stored.  `Budget` 6
  at cost 3 for a request and 2 for an indication is two requests, one and one, or
  three indications.
* `DevicePool`: two goroutines beside the loops are enough for a start, a removal or a
  recovery to meet another; four workers let a start be overtaken, its successor
  fail and a third be registered.  One round of a recovery is its loop with the
  round that comes too late; one trouble is a device unplugged, a core that fails, a
  start that fails or hangs.  A rescan that the tick chooses because the paths of the
  device moved counts as trouble: without a bound on it the tick could spend its
  look-window on scans for ever.
* `EsimSwitch`: two switches are one that is overtaken and one that overtakes; the mark
  compares tokens of two switches only.  One profile and none are enough to be a
  target that is, and is not, active.
* `EsimOverview`: with three invalidations there is one before the call, one while the
  card is read and one before the reading is stored; the reload is the second loader
  a singleflight needs; two writes, a switch and a disable in either order.
* `ModemAT`: the watchdog counts to two instead of five; queues, `rxChan` and the
  modem's backlog have one place, so that each is met full; one pause, one call that
  is urgent or a message, any number of normal ones.
* Symmetry is used in `apdu_rules`, where the callers are interchangeable, and in
  `esim_overview`, where the profiles are; no liveness is checked in either.

`CHECK_DEADLOCK FALSE` everywhere: the bounds stop every behaviour in the end,
and a program nobody calls has nothing to do.

### Fairness

* Arbiter: a goroutine whose channel is closed runs again (Go's scheduler and
  mutex starve nobody), timers fire, callbacks get the mutex, the holder of a
  barrier releases it (a deferred call).  Nothing is assumed of the holder of a
  lease: the watchdog takes it after MaxLeaseHold, which `New` never leaves zero.
  Nothing is assumed of ages either: a wait may come of age at any moment or never.
* Gate: woken callers run, the probe answers (it is given the caller's context)
  and its answer is committed.
* Manager: each goroutine with something to do runs (callers, the loop, the handler, each
  sender of a reset), each armed timer fires, requests end (every one has a deadline), the
  dedup window closes.  Nothing is assumed of
  the modem, of new API calls, or of the tick.
* Client: a goroutine of the client that can step does (callers, the three loops,
  Close), ReadDeadline passes for an event that waits for room, and events are read
  as long as the client is open.  Nothing is assumed of the modem (answers, accepted
  bytes), of the callers' deadlines, or that somebody calls Close.
* Pool: a goroutine runs on unless its call hangs (nothing is assumed of a hung
  start), timers fire, the health loop ticks and its goroutines run, and the QMI core
  either recovers or gives up, which is `RecoveryEnds` of `QmiManager`.  Nothing is
  assumed of the API, of udev, or that an unplugged device returns.
* AT: goroutines run, timers fire, a ready command gets its turn (Go's select chooses
  at random), the web terminal resumes in the end, and writes do not fail for ever
  with an error that is not fatal.  `DeadReaderIsNoticed` also needs normal commands to
  keep coming, which the polling of a worker does; urgent ones do not count in the
  watchdog, so a device that only sends messages would not notice.

## Proofs

Proofs are in the modules `...Proofs`, one for each component's module.  They hold for any
set of callers, requests, workers or switches and any limits; they assume the
`ASSUME`s of the modules (`ArbiterAssumption`, `GateAssumption`, `ManagerAssumption`,
`ClientAssumption`, `PoolAssumption`, `SwitchAssumption`, `OverviewAssumption`,
`ModemAssumption`), which TLC evaluates in every run, and, for three theorems about the
manager, the hypotheses `OneOwner` and `StartIsPrompt`, which those theorems state.

**Arbiter.**  `BarrierKeepsOut` is not inductive: that a lease admitted now is
outside every barrier's classes needs that the barrier was admitted on an empty
device, which is the guard, but that tickets are distinguishable needs the
numbering.  The invariant is
`IInv == TypeOK /\ MineOK /\ OutOK /\ QueueIsWaiters /\ BarrierKeepsOut`:

* `MineOK`: the current ticket of every caller has a number that was handed out,
  differs from every other's, and is a ticket some request makes;
* `OutOK`: what is out has such numbers too, sits in the set of its type, and is
  not at the same time in the queue;
* `QueueIsWaiters`: without it, `removeTicket` on the grant could take another
  caller's ticket, and a ticket could be granted twice.

There is one lemma per action; `Grant`, `removeActive` and `removeTicket` have
their own because several actions share them.  `IInv` is also what the refinement
step needs: each action is a step of `ApduAccess` (`Lend`, `Return`, `Raise`, `Lower`)
or leaves the leases and barriers alone.

The other three properties stand on `IInv` and one more fact each:

* `NoLostWakeup` speaks of moments at which nobody is told; what each step keeps is the
  same claim for each sleeper alone (`SleepersAreRight`).  `canAcquire` reads the queue,
  what is out and the ages (lemma `SameRule`), and a step that changes one of them tells
  everybody or, `Age`, leaves a ticket of age.
* `LeaseEndsByRight`: a number by which Release or the watchdog finds a lease is that of
  its holder's ticket (`HoldersOwn`).
* `NoOvertakingBarrier`: whatever `canAcquire` lets through has no barrier ahead of it
  (lemma `NoBarrierAhead`): a session or oneshot is at the head, a barrier is the first of
  its kind, and the scan for a transport stops at a barrier.

Three results that no run lists (TLC agreed with them on an instance like that of
`apdu_rules` before they were proved):

* `DeviceIsSharedWithinLimits` is an invariant of `ApduAccess`, where it needs only that
  each `Lend` is compatible with what is out; the refinement carries it to the arbiter.
* `AFreeDeviceServes`: with nothing out, whoever is first in the queue, or the transport
  the scan selects for it, is admissible.  The scan always selects somebody when it meets a
  transport first (`SomethingIsSelected`), and `SleepersAreRight` says that he was told.
* `GatesAreNotPassed` is the weaker order that holds among everybody else: the scan for a
  transport also stops at sessions and one-shots, and at an exclusive transport that
  could go but for the channels in use (`NoGateAhead`).  QMI channels may pass each other.

**Gate.**  `ReadyIsCurrent` needs to know what a prober remembers: `Bookkeeping` says
that a good answer is on record for the generation its probe began in.  With the
type invariant, `SingleProbe` and `SleepersAreWoken` it is inductive, and the action
property `SuccessIsCurrent` follows from it.

**Client.**  An answer that a caller takes is his own or a rival's (`AnswerIsMine`), and one
that is due is not lost to a request that is alone with its id (`NoAnswerLost`).  Both are about one channel and follow from
nothing local: what the reader puts there is what the table said earlier, under
the lock.  The invariant adds what makes the table trustworthy:

* `Unique`: of two live requests with one key one is the other's rival, where a request
  that has returned is live still if it is in the write queue, the writer's hand, or the
  modem's (`Dead` is the opposite).
* `Table`: an entry is under its own key, its call has not returned, and nobody has it
  for a rival.  With `Unique`, an answer that finds an entry finds the one that asked
  for it or one that has the asker for a rival (lemma `MatchedWithItsOwn`).
* `Listed`: while the reader lives, every call under way that is alone with its id is in the
  table and no channel is closed.  It is why a send on a closed channel cannot happen:
  failPendingTransactions runs in the reader's last step or after it.
* `HandOK`: what the loops hold fits where they are; `Fresh`: a request not queued
  yet has nothing written, so a result it reads is its own; `Stopped`: after Close
  the loops are gone.

`DeadStays`, `KeysStay` and `RivalsStay` carry `Unique`; the rest is one step per action.

`NewestIsKept` can fail only where a newer indication is overwritten or outrun by an older
one.  `Numbered`: what the reader holds of a coalesced kind is the newest of it, because it
reads one packet at a time and blocks on none of that kind; and nothing in the queue, the
store or the loop's hand is newer than what was received.

`TheTableIsExact` is `Table` and `Listed` as a reader of the code would want them: no
entry is left behind by a call, however it ended, and a call whose id nobody shares has
its entry.  `TheStoreIsServed`: the store and its
`order` change under one lock (`OrderFacts`), but `coalescedSignalCh` is filled after it; it is
enough that the reader stands before the signal whenever something is stored and the
channel is empty.  `EdgesKeepTheirOrder`: an edge event takes one way only, through the
queue, so its numbers rise along delivered, loop's hand, queue, reader's hand
(`EdgesInOrder`, `EdgesNumbered`).  No run lists these three; TLC agreed with them on the
instance of `qmi_client`.

**Manager.**  The type invariant needs one fact that is no type: the modem carries
finitely many calls (`ModemIsFinite`), so that `newHandle` exists.  `StopIsClean` is
about `stopped`, but cleanup comes two steps earlier and the goroutines end before
that:

* `Roles`: who is in StartCore or Stop was called to start or stop;
* `Threads`: before a start has launched them nothing of the loop or the handler runs,
  and a Stop that waits for them has cancelled the context, so none is launched;
* `CleanAfterStop`: from cleanup on, nothing puts anything back.  A Connect that is
  still in doConnect may dial: it finds no client and no service (or panics), unless it had
  an answer in hand (`overtaken`); then it stores a handle or a closed service, and can do
  no more with them (lemma `DialAfterCleanup`).

`StrandedByDropOnly` and `CutOffByDeferralOnly` follow from `Chain`, which holds as long as
nobody has begun to stop the manager (`Alive`) and says where the reset is at every moment:

* `StartsQuiet`: before a start has launched the goroutines no reset is under way;
* `recovering` is set exactly in the places of a recovery (`InRecovery`), so a reset that
  finds it set will be seen as `pending`;
* `DedupIsSafe`: a dedup window that is open while the core is ready belongs to a reset that
  is queued, or that was dropped as deferred and left `pending`; a recovery that succeeds
  ends outside it, because of the quiet window;
* `DeferralIsArmed`: until a start is over no cleanup has stopped the timer of a deferred reset;
* `HasClient` and `Starts`: a core that is ready has a client, and the end of a start meets
  no recovery past its first requests (`StartIsPrompt`);
* `DownIsSeen` and `CutOffIsSeen`: a core that is down at the end of a recovery has a
  retry, a coalesced reset or has been given up; one that talks through a client of
  an earlier epoch has a reset that will be seen.

The two properties speak of steps: no step but one that drops a reset leads from a state
that is not stranded (cut off) to one that is.  Most steps are of one kind (`ChainStep`:
what was on its way still is, and a recovery goes on where it was), for which `ChainKept`
and `WayKept` are proved once; the start and the steps of a recovery have lemmas of their
own, `SafeStep` for each of them.  The theorems are about every behaviour of `Spec`, a full channel
and the drops included: what the code does not guarantee is in the properties, and not
assumed.

All of this but the type invariant assumes `OneOwner`, as the instances do: one goroutine
starts and stops the manager.  The code does not see to it, and without it `StopIsClean` is
false (see Findings).

**Pool.**  `RegisteredIsRunning` is about `workers` and the cores; what keeps it is where
each goroutine got its worker (`Instances`): until a start registers it, its worker is
known to nobody else, and a removal or a failed start works on one that is not, or no
more, registered.  `MarksAreOwned` needs to know what a goroutine does next (`Places`): a
rebuild comes to its handover, a recovery to its end, and whoever set a mark has not
been given up by the watchdog (`Marks`, which also says that there is one recovery).
`HoldersOK` is about what no variable says, who still holds a running worker: it is
registered, or its start is on the way to the handover, or a removal or a failed start is
about to stop it, so none is leaked (`NoWorkerIsLeaked`); and a start has its own core
until it returns, so an open core that is not the registered worker's is in a removal
(`OneCoreServes`).  TLC agreed on the instance of the run `device_pool` before the proof.

**Switch.**  Tokens are handed out in order (`Order`), so a switch with a smaller token
than `seq` finds another's mark, and the comparison of tokens under the lock is all that
`MarkIsNewest` needs.  It holds for any number of switches.

**Overview.**  `CacheIsFresh`: what a load has stored was read in the present generation.
`LoadIsFresh`: a load's key is not older than its call, what it has read is not older
than its key when it stores or shares it; so a waiter of the same key shares nothing
older than its own call.  `ReloaderRests` keeps a reload from being begun twice.

**AT.**  `Own`: a request whose entry is in a queue or with runLoop belongs to the call
that made the entry, is entered once and is not answered yet, and a request in the pool
is in no queue and its channel is empty.  It holds until Stop, which is why the property
does.  `InTime`: while no command has timed out and no line has passed for an answer
(`outOfStep`), a line that answers is the first, and of the command under way.  From `Own` follows that runLoop, whose sends to a caller cannot
be given up, always finds room while the manager runs (`RunLoopDoesNotWait`; after Stop it
may wait on a request that was used again).  `CallersAreServed` needs no more
than the types: an entry leaves its queue only into `cur` or with an answer, and an answer
is taken away only by the caller that leaves.

Only model-checked: the liveness properties (`EveryWaitEnds`, `EveryCallEnds`,
`RecoveryEnds`, `StopEnds`, `ResetIsDelivered`, `CloseReturns`, `LossEndsWaits`, `SlotIsFreed`,
`DeviceComesBack`, `DeadReaderIsNoticed`), which TLAPS cannot prove under fairness, and
the violated `RadioIsBack`.  Every invariant and action property of the passing runs is
proved; of the manager, all but its type invariant under `OneOwner`, and the two on lost
resets under `StartIsPrompt` too.

## Findings

`PROJECT.json` quotes the lines that this run contradicts.

* `esim_radio`: with the radio cycle, a switch whose convergence is degraded restores
  the connection as if `bringRadioOnlineAfterSwitch` had run, which it skips; nothing
  takes the radio out of low power afterwards.

Seen while modelling, and left without a run (each is a behaviour of the model as
it stands; the properties say where they step around it):

* Arbiter: `selectedTransportLocked` prefers a ticket that has waited 500 ms, but
  nothing signals when a ticket comes of age.  A write that looks just before its
  time and an authentication that looks just after it can both sleep on a free
  device, until somebody else calls.  `NoLostWakeup` leaves aged tickets out; `AgedStall`
  is that state, and the one exception of `EveryWaitEnds`.
* Client: nothing compares the message of an answer with that of its request, or asks
  whether an id is in use.  An answer that comes after its request timed out and its id
  came round is accepted by the new bearer; of two calls under way with one id the
  second takes the first's entry, and the first to return deletes the other's
  (`completeTransaction`).  `AnswerIsMine` and `NoAnswerLost` name the rival in both.  An
  answer whose entry is gone may be dispatched as an event.
* Client: a kind with a coalescing key has no order of delivery.  With the queue full its
  newest event goes to the store, and indicationLoop may take it from there before older
  events of the kind that are still in the queue, so an older snapshot can be the last
  one delivered.  `NewestIsKept` says only that the newest is not lost; the order that
  `EdgesKeepTheirOrder` proves is that of the other kinds.
* Manager: a recovery whose re-open fails at once is retried inside the dedup
  window, and the retry is dropped as a duplicate: the core stays down and nobody is told
  (`DroppedInWindow`).  Above, the pool's health tick sees it in the end.
* Manager: a reset that finds the channel full while `modemResetDeferred` is set is marked
  pending and dropped; when that mark is one that `cleanup` left behind with its timer
  stopped, nothing queues it again (`DroppedAsDeferred`).
* Manager: a dial queued before a reset is handled after the re-open failed, on a
  nil client: the event loop panics and the program ends (label `panicked`).
* Manager: the event loop sends to the channel only it reads
  (`pkg/quectel-qmi/manager/manager.go:2974`, `:3868`, `:3891`); when the channel is full it blocks for good and
  Stop waits for it (`ChannelStuck`, the exception of `StopEnds`).
* Manager: a Disconnect that runs while a dial is under way returns, and the dial
  then stores its call.  A Connect whose answer comes after Stop has cleaned up stores
  its handle, or the service of the closed client, in the stopped manager.
* Manager: a reset that is deferred twice is both marked pending and
  retried; a hang-up under way overwrites the state Stopping, so a Connect during
  Stop is accepted (Stop still ends clean, see `StopIsClean`).
* Pool: a start that passed the check of its attempt may register after a newer
  one has set the controller's generation; the registered worker's transport
  events are then refused (`Deaf`).  The count of rebuilds is forgotten with each
  new generation.  A start that hung past the watchdog and then returns may clear
  the mark of a RemoveWorker.  StartCoreContext is not cancelled by Stop, so the
  core of a removed worker may come up and call its device online.
* Manager: the same seen from inside.  Stop that meets another goroutine in
  StartCoreContext finds no context and nothing to wait for; it returns, and the start
  goes on to open the client and to launch the loops, which nobody stops.  The retry
  loop of the pool (`qmi_core_start.go:102`) and a removal are two such goroutines.
  `StopIsClean` fails in the model as soon as one caller starts and another stops.
* Pool: a start that hangs inside a reboot recovery keeps that recovery waiting. The
  watchdog frees `rebuilding`, but the recovery's mark keeps the health tick, udev
  events and new recoveries away: nobody tries the device again
  (`HungStartIsRetried`, which no run lists).
* Pool: `RemoveWorker` leaves the mark alone when a start has set it
  (`src/internal/device/pool.go:807`), and that start clears it when it ends.  While the
  removal is still stopping the worker another start may then open the device, and two
  cores are up at once.  `OneCoreServes`: of two cores, one is always in a removal.
* Switch: a failed switch leaves the identity in transition to a profile that is not
  active; `refreshIdentityLive` then refuses each reading of the active one.  The
  identity poll of an older switch does not look at the token before it publishes.
  A switch that begins while an older one holds the radio low takes low power for
  flight mode and leaves the device there.
* Overview: an enable does not begin a generation, so a load that read the card
  before it and stores afterwards shows the old profile until the next
  invalidation; `RefreshProfiles` stores without comparing generations, which is why
  `AnswersAreFresh` speaks of loads, and a refresh that joins another's reading, or that
  another invalidation overtakes, is measured from its own call only; a reload asked for while another is under way is
  dropped.
* AT: an answer that comes after its command timed out is taken for the answer of the
  next command, and under a steady load every later answer is one late; an unasked line
  that contains `ERROR` or `>` does the same with no time-out (`AnswersAreOwn` states when
  this cannot be).  After Stop a caller may find the
  answer of an earlier call in a pooled request.  A pause lets the command under way
  time out, which the watchdog counts, although the comment of Pause says that it
  brings no disconnect; a reader that is blocked in its last send outlives
  Stop.  The reading of stored messages switches the storage of the modem with no lock,
  so two of them may delete each other's message.

## Plan

1. `EsimSwitch` composed with the arbiter's barrier and the gate.
2. The USSD waiter of MBIM; the storage switch of the AT manager; the traffic roll-ups.

Not planned: pure I/O (HTTP, notifications, addresses and routes, logging), byte
codecs (QMI and MBIM frames, PDUs, certificates), and the front ends.

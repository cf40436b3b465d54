----------------------------- MODULE EsimSwitch -----------------------------
(***************************************************************************)
(* internal/device/pool_esim_switch.go, with the callbacks of               *)
(* internal/esim/manager.go that drive it: what happens around a switch of  *)
(* the eSIM profile of one device.                                          *)
(*                                                                         *)
(* A switch is its token.  Its call holds opMu until the card has taken the *)
(* command; everything after that (finalize) runs in a goroutine of its own *)
(* without the lock, for a minute or more, so the next switch may begin in  *)
(* the middle of it.  What keeps them apart is the token, which finalize    *)
(* compares now and then: p.switchTokens, with the snapshot and the         *)
(* switching mark, which are set and deleted together and are one variable  *)
(* here.  A guard deletes them two minutes after the beginning, whatever    *)
(* the switch is doing.                                                     *)
(*                                                                         *)
(* The identity of the SIM that the worker publishes has a transition of    *)
(* its own, numbered by its generation.  Besides finalize, up to three      *)
(* delayed retries (one here) and other readers write it.                   *)
(*                                                                         *)
(* Durations are abstract: a wait ends at any moment after it began.        *)
(***************************************************************************)
EXTENDS Naturals

CONSTANTS
    MaxSwitches,    \* bound: switches
    Profiles, NoProfile,
    RadioCycle,     \* config: the radio is put into low power around a switch
    MayRefuse       \* the modem may refuse to tell or to change its operating mode

ASSUME SwitchAssumption ==
    /\ MaxSwitches \in Nat /\ NoProfile \notin Profiles
    /\ RadioCycle \in BOOLEAN /\ MayRefuse \in BOOLEAN

VARIABLES
    seq, marked,        \* p.switchSeq; the token in p.switchTokens, 0 if none
    guard,              \* switches whose two minutes are not over
    opMu,               \* the switch whose call holds the lock of esim.Manager, 0 if none
    pc, retry,          \* where a switch is; where its delayed identity retry is
    target, flight,     \* its snapshot: TargetICCID, FlightModeBefore
    generation, failed, \* locals of finalize: IdentityGeneration, identityRefreshErr
    reading,            \* ICCID that finalize or the retry read, not yet applied
    phase, iccid, goal, current,    \* worker.state.Identity: Phase, ICCID, TargetICCID, Generation
    live,               \* ICCID read by refreshIdentityLive, not yet applied
    radio, card         \* operating mode of the modem; the enabled profile

Switches == 1 .. MaxSwitches
Cards == Profiles \cup {NoProfile}
Unread == "unread"

marks == <<seq, marked, guard>>
snapshots == <<target, flight>>
locals == <<generation, failed, reading>>
identity == <<phase, iccid, goal, current>>
modem == <<radio, card>>
vars == <<marks, opMu, pc, retry, snapshots, locals, identity, live, modem>>

-----------------------------------------------------------------------------
Goto(t, label) == pc' = [pc EXCEPT ![t] = label]

(* isLatestSwitchToken, switchTokenStillCurrent *)
Latest(t) == marked = t

(* Mutant: what is deleted is not compared with the token. *)
ClearIfToken_Any(t) == marked' = 0

ClearIfToken(t) == marked' = IF Latest(t) THEN 0 ELSE marked

(* SetOperatingMode: the modem may refuse, which is logged. *)
SetRadio(mode) ==
    \/ radio' = mode
    \/ MayRefuse /\ UNCHANGED radio

(* beginSIMIdentityTransitionLocked *)
BeginTransition(p) ==
    /\ phase' = "transitioning" /\ iccid' = NoProfile
    /\ goal' = p /\ current' = current + 1

(* EnsureSIMIdentityTransition goes on with a transition to the same target. *)
EnsureTransition(p) ==
    IF phase # "ready" /\ goal = p THEN UNCHANGED identity ELSE BeginTransition(p)

MarkDegraded == phase' = "degraded" /\ UNCHANGED <<iccid, goal, current>>

Ready(p) == phase' = "ready" /\ iccid' = p /\ goal' = NoProfile /\ UNCHANGED current

(* SIMIdentityConvergenceMatches *)
ConvergenceMatches(t) == current = generation[t] /\ phase # "ready" /\ goal = target[t]

-----------------------------------------------------------------------------
(* The call: SwitchProfileWithResult or DisableProfile, whose target is     *)
(* none, with opMu; handleESIMSwitchBefore is its callback.                 *)

Quiet == UNCHANGED <<identity, live, locals, retry>>

(* captureESIMSwitchContext reads the operating mode; if the modem does not *)
(* answer, the switch takes it to be online.                                *)
Capture(t) ==
    /\ opMu = 0 /\ pc[t] = "none" /\ t = seq + 1
    /\ opMu' = t
    /\ \E p \in Cards \ {card} : target' = [target EXCEPT ![t] = p]
    /\ \E answers \in {TRUE, ~MayRefuse} :
          flight' = [flight EXCEPT ![t] = answers /\ radio # "online"]
    /\ Goto(t, "begin")
    /\ UNCHANGED <<marks, modem>> /\ Quiet

(* beginESIMSwitch *)
Begin(t) ==
    /\ pc[t] = "begin"
    /\ seq' = t /\ marked' = t /\ guard' = guard \cup {t}
    /\ Goto(t, "transition")
    /\ UNCHANGED <<opMu, snapshots, modem>> /\ Quiet

(* BeginSIMIdentityTransition; its generation goes into the snapshot. *)
Transition(t) ==
    /\ pc[t] = "transition"
    /\ BeginTransition(target[t])
    /\ generation' = [generation EXCEPT ![t] = current']
    /\ Goto(t, "release")
    /\ UNCHANGED <<marks, opMu, retry, snapshots, failed, reading, live, modem>>

(* releaseRadioBeforeSwitch *)
ReleaseRadio(t) ==
    /\ pc[t] = "release"
    /\ IF RadioCycle THEN SetRadio("low_power") ELSE UNCHANGED radio
    /\ Goto(t, "enable")
    /\ UNCHANGED <<marks, opMu, snapshots, card>> /\ Quiet

(* beginSwitchAPDUBarrier and EnableProfile or DisableProfile: the card     *)
(* does as it is told, or resets without having done so, or an error ends   *)
(* the call, after which onSwitchFailed runs.                               *)
Enable(t) ==
    /\ pc[t] = "enable"
    /\ opMu' = 0
    /\ \/ card' \in {target[t], card} /\ Goto(t, "resolve")
       \/ UNCHANGED card /\ Goto(t, "failed")
    /\ UNCHANGED <<marks, snapshots, radio>> /\ Quiet

-----------------------------------------------------------------------------
(* Failure: finishESIMSwitchForFailure, then the radio.                     *)

SwitchFailed(t) ==
    /\ pc[t] = "failed"
    /\ ClearIfToken(t)
    /\ Goto(t, IF Latest(t) THEN "restore_failed" ELSE "done")
    /\ UNCHANGED <<seq, guard, opMu, snapshots, modem>> /\ Quiet

(* restoreRadioDataForSwitchSnapshot: flight mode if there was, online else, *)
(* unless the radio cycle is said to have done it.                          *)
RestoreRadio(t, alreadyDone) ==
    IF flight[t] THEN SetRadio("rf_off")
    ELSE IF alreadyDone THEN UNCHANGED radio
    ELSE SetRadio("online")

RestoreFailed(t) ==
    /\ pc[t] = "restore_failed"
    /\ RestoreRadio(t, FALSE)
    /\ Goto(t, "done")
    /\ UNCHANGED <<marks, opMu, snapshots, card>> /\ Quiet

-----------------------------------------------------------------------------
(* handleESIMSwitchAfter, after the pause that follows the command          *)

(* resolvePostSwitchSnapshotIfToken *)
Resolve(t) ==
    /\ pc[t] = "resolve"
    /\ Goto(t, IF Latest(t) THEN "ensure" ELSE "done")
    /\ UNCHANGED <<marks, opMu, snapshots, modem>> /\ Quiet

Ensure(t) ==
    /\ pc[t] = "ensure"
    /\ EnsureTransition(target[t])
    /\ generation' = [generation EXCEPT ![t] = current']
    /\ Goto(t, "core_ready")
    /\ UNCHANGED <<marks, opMu, retry, snapshots, failed, reading, live, modem>>

(* The token is compared after the core is ready, after the radio is online, *)
(* after the identity is read and after the gate: who is late stops.        *)
CheckPoints == [core_ready |-> "converge", radio_online |-> "identity", identity_read |-> "runtime"]

Check(t) ==
    /\ pc[t] \in DOMAIN CheckPoints
    /\ Goto(t, IF Latest(t) THEN CheckPoints[pc[t]] ELSE "clear")
    /\ UNCHANGED <<marks, opMu, snapshots, modem>> /\ Quiet

(* schedulePostSwitchIdentityRefreshes *)
ScheduleRetry(t) == retry' = [retry EXCEPT ![t] = "scheduled"]

(* runPostSwitchConvergence: the card reports the target, or the attempts   *)
(* are used up, and the connection is restored as things are.               *)
Converge(t) ==
    /\ pc[t] = "converge"
    /\ \/ /\ target[t] = NoProfile \/ card = target[t]
          /\ Goto(t, IF RadioCycle THEN "bring_online" ELSE "identity") /\ UNCHANGED retry
       \/ ScheduleRetry(t) /\ Goto(t, "restore")
    /\ UNCHANGED <<marks, opMu, snapshots, locals, identity, live, modem>>

(* bringRadioOnlineAfterSwitch *)
BringOnline(t) ==
    /\ pc[t] = "bring_online"
    /\ SetRadio("online")
    /\ Goto(t, "radio_online")
    /\ UNCHANGED <<marks, opMu, snapshots, card>> /\ Quiet

(* refreshPostSwitchRuntime; then an identity that was not read degrades.   *)
Runtime(t) ==
    /\ pc[t] = "runtime"
    /\ IF ~Latest(t)
       THEN Goto(t, "clear") /\ UNCHANGED retry
       ELSE ScheduleRetry(t) /\ Goto(t, IF failed[t] THEN "restore" ELSE "sim_auth")
    /\ UNCHANGED <<marks, opMu, snapshots, locals, identity, live, modem>>

(* waitPostSwitchSIMAuthReady *)
SimAuth(t) ==
    /\ pc[t] = "sim_auth"
    /\ Goto(t, IF Latest(t) THEN "restore" ELSE "clear")
    /\ UNCHANGED <<marks, opMu, snapshots, modem>> /\ Quiet

(* restorePostSwitchConnectivity *)
Restore(t) ==
    /\ pc[t] = "restore"
    /\ RestoreRadio(t, RadioCycle)
    /\ Goto(t, "clear")
    /\ UNCHANGED <<marks, opMu, snapshots, card>> /\ Quiet

(* The deferred clearESIMSwitchIfToken *)
Clear(t) ==
    /\ pc[t] = "clear"
    /\ ClearIfToken(t)
    /\ Goto(t, "done")
    /\ UNCHANGED <<seq, guard, opMu, snapshots, modem>> /\ Quiet

Early == {"begin", "transition", "release", "enable", "failed", "resolve", "ensure", "core_ready"}

(* The goroutine that beginESIMSwitch leaves behind.  The call, the pause    *)
(* after it and the wait for the core (30 s for the barrier, 30 s for the   *)
(* core) are over sooner.                                                   *)
Guard(t) ==
    /\ t \in guard /\ pc[t] \notin Early
    /\ guard' = guard \ {t}
    /\ ClearIfToken(t)
    /\ UNCHANGED <<seq, opMu, pc, snapshots, modem>> /\ Quiet

-----------------------------------------------------------------------------
(* refreshPostSwitchIdentityWithPolling, by finalize and by its retry: the  *)
(* transition, the last reading of the poll, and what is made of it.        *)

EnsureIdentity(t) ==
    \/ /\ pc[t] = "identity" /\ Goto(t, "read") /\ UNCHANGED retry
    \/ /\ retry[t] = "ensure" /\ retry' = [retry EXCEPT ![t] = "read"] /\ UNCHANGED pc

RefreshIdentity(t) ==
    /\ EnsureIdentity(t)
    /\ EnsureTransition(target[t])
    /\ UNCHANGED <<marks, opMu, snapshots, locals, live, modem>>

(* One of the two reads at a time: the bound of the model, not of the code. *)
ReadIdentity(t) ==
    /\ reading[t] = Unread
    /\ \/ pc[t] = "read" /\ Goto(t, "apply") /\ UNCHANGED retry
       \/ retry[t] = "read" /\ retry' = [retry EXCEPT ![t] = "apply"] /\ UNCHANGED pc
    /\ reading' = [reading EXCEPT ![t] = card]
    /\ UNCHANGED <<marks, opMu, snapshots, generation, failed, identity, live, modem>>

(* A target that is not active, or no ICCID at all, degrades the identity.  *)
ApplyIdentity(t) ==
    LET got == reading[t]
        bad == got = NoProfile \/ (target[t] # NoProfile /\ got # target[t])
    IN /\ got # Unread
       /\ \/ /\ pc[t] = "apply" /\ Goto(t, "identity_read")
             /\ failed' = [failed EXCEPT ![t] = bad] /\ UNCHANGED retry
          \/ /\ retry[t] = "apply" /\ retry' = [retry EXCEPT ![t] = "none"]
             /\ UNCHANGED <<pc, failed>>
       /\ IF bad THEN MarkDegraded ELSE Ready(got)
       /\ reading' = [reading EXCEPT ![t] = Unread]
       /\ UNCHANGED <<marks, opMu, snapshots, generation, live, modem>>

(* The delay of the retry is over: is its transition still the worker's?    *)
RetryFires(t) ==
    /\ retry[t] = "scheduled"
    /\ retry' = [retry EXCEPT ![t] = IF ConvergenceMatches(t) THEN "ensure" ELSE "none"]
    /\ UNCHANGED <<marks, opMu, pc, snapshots, locals, identity, live, modem>>

(* Worker.refreshIdentityLive, which others call at any time: what it read  *)
(* is dropped when the worker waits for another profile.                    *)
ReadLive ==
    /\ live = Unread /\ live' = card
    /\ UNCHANGED <<marks, opMu, pc, retry, snapshots, locals, identity, modem>>

(* Mutant: what was read is published after it was thrown away. *)
ApplyLive_TooLate ==
    /\ live # Unread /\ live' = Unread
    /\ IF live = NoProfile \/ (goal # NoProfile /\ phase # "ready" /\ live # goal)
       THEN UNCHANGED identity
       ELSE Ready(live')
    /\ UNCHANGED <<marks, opMu, pc, retry, snapshots, locals, modem>>

ApplyLive ==
    /\ live # Unread /\ live' = Unread
    /\ IF live = NoProfile \/ (goal # NoProfile /\ phase # "ready" /\ live # goal)
       THEN UNCHANGED identity
       ELSE Ready(live)
    /\ UNCHANGED <<marks, opMu, pc, retry, snapshots, locals, modem>>

-----------------------------------------------------------------------------
Init ==
    /\ seq = 0 /\ marked = 0 /\ guard = {} /\ opMu = 0
    /\ pc = [t \in Switches |-> "none"] /\ retry = [t \in Switches |-> "none"]
    /\ target = [t \in Switches |-> NoProfile] /\ flight = [t \in Switches |-> FALSE]
    /\ generation = [t \in Switches |-> 0] /\ failed = [t \in Switches |-> FALSE]
    /\ reading = [t \in Switches |-> Unread] /\ live = Unread
    /\ card \in Cards
    /\ phase = "ready" /\ iccid = card /\ goal = NoProfile /\ current = 0
    /\ radio \in {"online", "rf_off"}

Call(t) == Capture(t) \/ Begin(t) \/ Transition(t) \/ ReleaseRadio(t) \/ Enable(t)
Failure(t) == SwitchFailed(t) \/ RestoreFailed(t)
Finalize(t) ==
    Resolve(t) \/ Ensure(t) \/ Check(t) \/ Converge(t) \/ BringOnline(t) \/ Runtime(t)
    \/ SimAuth(t) \/ Restore(t) \/ Clear(t)
Identity(t) == RefreshIdentity(t) \/ ReadIdentity(t) \/ ApplyIdentity(t) \/ RetryFires(t)

Next ==
    \/ \E t \in Switches : Call(t) \/ Failure(t) \/ Finalize(t) \/ Guard(t) \/ Identity(t)
    \/ ReadLive \/ ApplyLive

Spec == Init /\ [][Next]_vars

-----------------------------------------------------------------------------
Calling == {"begin", "transition", "release", "enable"}
Finalizing == {"resolve", "ensure", "core_ready", "converge", "bring_online", "radio_online", "identity",
    "read", "apply", "identity_read", "runtime", "sim_auth", "restore", "clear"}
Labels == {"none", "failed", "restore_failed", "done"} \cup Calling \cup Finalizing

TypeOK ==
    /\ seq \in Nat /\ marked \in Nat /\ guard \subseteq Switches /\ opMu \in Nat
    /\ pc \in [Switches -> Labels]
    /\ retry \in [Switches -> {"none", "scheduled", "ensure", "read", "apply"}]
    /\ target \in [Switches -> Cards] /\ flight \in [Switches -> BOOLEAN]
    /\ generation \in [Switches -> Nat] /\ failed \in [Switches -> BOOLEAN]
    /\ reading \in [Switches -> Cards \cup {Unread}] /\ live \in Cards \cup {Unread}
    /\ phase \in {"ready", "transitioning", "degraded"}
    /\ iccid \in Cards /\ goal \in Cards /\ current \in Nat
    /\ radio \in {"online", "low_power", "rf_off"} /\ card \in Cards

(* The device is said to be switching exactly while its newest switch is    *)
(* under way and has not used up its two minutes: neither the end of an     *)
(* older switch, nor its failure, nor its guard takes the mark away, and    *)
(* every way in which a switch ends takes its own.                          *)
UnderWay(t) == pc[t] \in {"transition", "release", "enable", "failed"} \cup Finalizing
MarkIsNewest == marked = IF seq \in guard /\ UnderWay(seq) THEN seq ELSE 0

(* When no switch is under way the radio is as it was: the low power of the  *)
(* radio cycle is for the time of the switch (config.go 95).                *)
RadioIsBack == (\A t \in Switches : pc[t] \in {"none", "done"}) => radio # "low_power"
=============================================================================

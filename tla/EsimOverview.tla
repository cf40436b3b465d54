---------------------------- MODULE EsimOverview ----------------------------
(***************************************************************************)
(* internal/esim/manager.go: the overview of the card that the manager     *)
(* caches.  Reading the card takes seconds; meanwhile profiles are enabled *)
(* and disabled, the modem resets, and others ask for the overview.        *)
(* overviewGeneration counts the invalidations: a reading is stored only   *)
(* in the generation it began in, and calls share a reading (singleflight) *)
(* only within a generation.  Reads wait until no write operation holds    *)
(* opMu, but do not hold it themselves.                                    *)
(*                                                                         *)
(* An overview is what it shows as the enabled profile; asOf, the          *)
(* generation at the moment the card was read, is there for the property.  *)
(* Of times only the suppression of reloads matters: it ends at any moment.*)
(***************************************************************************)
EXTENDS Naturals

CONSTANTS
    Callers,        \* goroutines of the API; each runs one call at a time
    Reloader,       \* the goroutine of triggerOverviewReload, one at a time
    Profiles,       \* of the card
    NoProfile,      \* no profile is enabled
    NoView,         \* no overview: nothing cached, or the reading failed
    MaxGeneration,  \* bound: invalidations
    MaxWrites       \* bound: switches and disables

ASSUME OverviewAssumption ==
    /\ Reloader \notin Callers
    /\ NoProfile \notin Profiles
    /\ NoView \notin [active : Profiles \cup {NoProfile}, asOf : Nat, by : {"load", "profiles"}]
    /\ MaxGeneration \in Nat /\ MaxWrites \in Nat

VARIABLES
    cache, generation,      \* overviewCache, overviewGeneration
    reloading, suppressed,  \* overviewReloading; now is before suppressOverviewReloadUntil
    pc, key, view, since,   \* loads: place, generation in the singleflight key, result; generation when called
    writer, target, writes, \* the goroutine that holds opMu: place and profile; how many there were
    card,                   \* the enabled profile
    notifier                \* the goroutine that runs the callbacks of the modem's events: its place

vars == <<cache, generation, reloading, suppressed, pc, key, view, since, writer, target, writes, card, notifier>>
loads == <<pc, key, view, since>>
write == <<writer, target, writes>>
modem == <<card, notifier>>

Loaders == Callers \cup {Reloader}
States == Profiles \cup {NoProfile}
Views == [active : States, asOf : Nat, by : {"load", "profiles"}]

-----------------------------------------------------------------------------
(* cacheMu: what is done under it in one piece.                             *)

(* generation++, and nothing cached (invalidateOverviewCache,              *)
(* clearHardwareDiscoveryCachesLocked).                                     *)
Invalidate ==
    /\ generation < MaxGeneration
    /\ generation' = generation + 1
    /\ cache' = NoView

(* Mutant: the generation of the reading is not compared. *)
SetOverviewCache_Always(v, g) == cache' = v

SetOverviewCache(v, g) == cache' = IF g = generation THEN v ELSE cache

(* triggerOverviewReload *)
TriggerReload ==
    IF reloading
    THEN UNCHANGED <<reloading, loads>>
    ELSE /\ reloading' = TRUE
         /\ pc' = [pc EXCEPT ![Reloader] = "held"]
         /\ UNCHANGED <<key, view, since>>

-----------------------------------------------------------------------------
(* loadOverview *)

Goto(c, label) == pc' = [pc EXCEPT ![c] = label]
Answer(c, v) == Goto(c, "answered") /\ view' = [view EXCEPT ![c] = v]

(* A call of the API: GetEsimOverview and GetProfiles, RefreshOverview, and *)
(* RefreshProfiles, after which the handler asks for the profiles.          *)
Call(c) ==
    /\ pc[c] \in {"idle", "answered"}
    /\ \E entry \in {"look", "refresh", "profiles_queue"} : Goto(c, entry)
    /\ since' = [since EXCEPT ![c] = generation]
    /\ view' = [view EXCEPT ![c] = NoView]
    /\ key' = [key EXCEPT ![c] = 0]
    /\ UNCHANGED <<cache, generation, reloading, suppressed, write, modem>>

Look(c) ==
    /\ pc[c] = "look"
    /\ IF cache # NoView THEN Answer(c, cache) ELSE Goto(c, "key") /\ UNCHANGED view
    /\ UNCHANGED <<cache, generation, reloading, suppressed, key, since, write, modem>>

ReadKey(c) ==
    /\ pc[c] = "key"
    /\ key' = [key EXCEPT ![c] = generation]
    /\ Goto(c, "join")
    /\ UNCHANGED <<cache, generation, reloading, suppressed, view, since, write, modem>>

Leads(c, g) == pc[c] \in {"recheck", "queue", "read", "store", "share"} /\ key[c] = g

(* sf.Do: the first call of a generation leads, the others wait for it. *)
Join(c) ==
    /\ pc[c] = "join"
    /\ Goto(c, IF \E d \in Loaders : Leads(d, key[c]) THEN "wait" ELSE "recheck")
    /\ UNCHANGED <<cache, generation, reloading, suppressed, key, view, since, write, modem>>

Recheck(c) ==
    /\ pc[c] = "recheck"
    /\ IF cache # NoView
       THEN view' = [view EXCEPT ![c] = cache] /\ Goto(c, "share")
       ELSE Goto(c, "queue") /\ UNCHANGED view
    /\ UNCHANGED <<cache, generation, reloading, suppressed, key, since, write, modem>>

(* waitForNoWriteOperation: the lock is seen free, or five seconds pass. *)
Queue(c) ==
    /\ pc[c] = "queue"
    /\ \/ writer = "none" /\ Goto(c, "read")
       \/ writer # "none" /\ Goto(c, "store")
    /\ UNCHANGED <<cache, generation, reloading, suppressed, key, view, since, write, modem>>

(* loadOverviewFresh reads the card, or fails. *)
Read(c) ==
    /\ pc[c] = "read"
    /\ \/ view' = [view EXCEPT ![c] = [active |-> card, asOf |-> generation, by |-> "load"]]
       \/ UNCHANGED view
    /\ Goto(c, "store")
    /\ UNCHANGED <<cache, generation, reloading, suppressed, key, since, write, modem>>

Store(c) ==
    /\ pc[c] = "store"
    /\ SetOverviewCache(view[c], key[c])
    /\ Goto(c, "share")
    /\ UNCHANGED <<generation, reloading, suppressed, key, view, since, write, modem>>

(* The singleflight call ends: everybody who waits for it has its result.  *)
Share(c) ==
    /\ pc[c] = "share"
    /\ LET waits == {d \in Loaders : pc[d] = "wait" /\ key[d] = key[c]} \cup {c}
       IN /\ pc' = [d \in Loaders |-> IF d \in waits THEN "answered" ELSE pc[d]]
          /\ view' = [d \in Loaders |-> IF d \in waits THEN view[c] ELSE view[d]]
    /\ UNCHANGED <<cache, generation, reloading, suppressed, key, since, write, modem>>

Load(c) == Look(c) \/ ReadKey(c) \/ Join(c) \/ Recheck(c) \/ Queue(c) \/ Read(c) \/ Store(c) \/ Share(c)

-----------------------------------------------------------------------------
(* The reload in the background: it waits until it is no longer suppressed. *)

ReloadAllowed ==
    /\ pc[Reloader] = "held" /\ ~suppressed
    /\ Goto(Reloader, "look")
    /\ UNCHANGED <<cache, generation, reloading, suppressed, key, view, since, write, modem>>

ReloadEnds ==
    /\ pc[Reloader] = "answered"
    /\ reloading' = FALSE
    /\ pc' = [pc EXCEPT ![Reloader] = "idle"]
    /\ view' = [view EXCEPT ![Reloader] = NoView]
    /\ key' = [key EXCEPT ![Reloader] = 0]
    /\ UNCHANGED <<cache, generation, suppressed, since, write, modem>>

-----------------------------------------------------------------------------
(* RefreshOverview: with a reload under way it takes part in it, otherwise  *)
(* it begins a generation of its own.                                       *)
RefreshOverview(c) ==
    /\ pc[c] = "refresh"
    /\ Goto(c, IF reloading THEN "refresh_pending" ELSE "refresh_held")
    /\ UNCHANGED <<cache, generation, reloading, suppressed, key, view, since, write, modem>>

RefreshAllowed(c) ==
    /\ pc[c] \in {"refresh_pending", "refresh_held"} /\ ~suppressed
    /\ IF pc[c] = "refresh_pending" \/ reloading THEN UNCHANGED <<cache, generation>> ELSE Invalidate
    /\ Goto(c, "look")
    /\ UNCHANGED <<reloading, suppressed, key, view, since, write, modem>>

(* RefreshProfiles reads like a load, and stores without asking.            *)
ProfilesQueue(c) ==
    /\ pc[c] = "profiles_queue"
    /\ \/ writer = "none" /\ Goto(c, "profiles_read") /\ UNCHANGED view
       \/ writer # "none" /\ Answer(c, NoView)
    /\ UNCHANGED <<cache, generation, reloading, suppressed, key, since, write, modem>>

ProfilesRead(c) ==
    /\ pc[c] = "profiles_read"
    /\ \/ /\ view' = [view EXCEPT ![c] = [active |-> card, asOf |-> generation, by |-> "profiles"]]
          /\ Goto(c, "profiles_store")
       \/ Answer(c, NoView)
    /\ UNCHANGED <<cache, generation, reloading, suppressed, key, since, write, modem>>

ProfilesStore(c) ==
    /\ pc[c] = "profiles_store"
    /\ cache' = view[c]
    /\ Goto(c, "look") /\ view' = [view EXCEPT ![c] = NoView]
    /\ UNCHANGED <<generation, reloading, suppressed, key, since, write, modem>>

-----------------------------------------------------------------------------
(* A write operation: SwitchProfileWithResult or DisableProfile, with opMu. *)

(* A switch asks the card for another profile, a disable for none. *)
Lock ==
    /\ writer = "none" /\ writes < MaxWrites
    /\ writes' = writes + 1
    /\ \E p \in States \ {card} : target' = p
    /\ writer' = IF target' = NoProfile THEN "disable" ELSE "suppress"
    /\ UNCHANGED <<cache, generation, reloading, suppressed, loads, modem>>

(* Mutant: the deferred unlock is missing. *)
Unlock_Missing == writer' = "unlock" /\ UNCHANGED <<target, writes>>

Unlock == writer' = "none" /\ UNCHANGED <<target, writes>>

(* A switch keeps reloads away before the card may reset.                   *)
Suppress ==
    /\ writer = "suppress"
    /\ suppressed' = TRUE /\ writer' = "enable"
    /\ UNCHANGED <<cache, generation, reloading, loads, target, writes, modem>>

EnableProfile ==
    /\ writer = "enable"
    /\ \/ card' = target /\ writer' = "patch" /\ UNCHANGED <<target, writes>>
       \/ Unlock /\ UNCHANGED card
    /\ UNCHANGED <<cache, generation, reloading, suppressed, loads, notifier>>

(* patchCachedActiveProfile: what is cached, if anything is, shows the target. *)
PatchCachedActiveProfile ==
    /\ writer = "patch"
    /\ cache' = IF cache = NoView THEN cache ELSE [cache EXCEPT !.active = target]
    /\ Unlock
    /\ UNCHANGED <<generation, reloading, suppressed, loads, modem>>

DisableProfile ==
    /\ writer = "disable"
    /\ \/ card' = NoProfile /\ writer' = "disabled" /\ UNCHANGED <<target, writes>>
       \/ Unlock /\ UNCHANGED card
    /\ UNCHANGED <<cache, generation, reloading, suppressed, loads, notifier>>

(* After a disable: suppression, invalidation, a reload.                    *)
SuppressAfter ==
    /\ writer = "disabled"
    /\ suppressed' = TRUE /\ writer' = "invalidate"
    /\ UNCHANGED <<cache, generation, reloading, loads, target, writes, modem>>

InvalidateAfter ==
    /\ writer = "invalidate"
    /\ Invalidate /\ writer' = "reload"
    /\ UNCHANGED <<reloading, suppressed, loads, target, writes, modem>>

ReloadAfter ==
    /\ writer = "reload"
    /\ TriggerReload /\ Unlock
    /\ UNCHANGED <<cache, generation, suppressed, modem>>

Write == Lock \/ Suppress \/ EnableProfile \/ PatchCachedActiveProfile
         \/ DisableProfile \/ SuppressAfter \/ InvalidateAfter \/ ReloadAfter

-----------------------------------------------------------------------------
(* The modem's events: the callbacks run one after another.  Every section  *)
(* under cacheMu, and every look at suppressOverviewReloadUntil, is a step. *)

(* NotifyUIMIndication: nothing in the window of a switch.                  *)
NotifyUIMIndication ==
    /\ notifier = "none" /\ ~suppressed
    /\ notifier' = "invalidate"
    /\ UNCHANGED <<cache, generation, reloading, suppressed, loads, write, card>>

NotifyInvalidates ==
    /\ notifier = "invalidate"
    /\ Invalidate /\ notifier' = "reload"
    /\ UNCHANGED <<reloading, suppressed, loads, write, card>>

(* NotifyModemResetDelayed: the caches are cleared in any case, and a reload *)
(* is put off by the delay.                                                  *)
NotifyModemReset ==
    /\ notifier = "none"
    /\ Invalidate /\ notifier' = "judge"
    /\ UNCHANGED <<reloading, suppressed, loads, write, card>>

NotifyJudges ==
    /\ notifier = "judge"
    /\ notifier' = IF suppressed THEN "none" ELSE "suppress"
    /\ UNCHANGED <<cache, generation, reloading, suppressed, loads, write, card>>

NotifySuppresses ==
    /\ notifier = "suppress"
    /\ suppressed' = TRUE /\ notifier' = "reload"
    /\ UNCHANGED <<cache, generation, reloading, loads, write, card>>

NotifyReloads ==
    /\ notifier = "reload"
    /\ TriggerReload /\ notifier' = "none"
    /\ UNCHANGED <<cache, generation, suppressed, write, card>>

Notify == NotifyUIMIndication \/ NotifyInvalidates
          \/ NotifyModemReset \/ NotifyJudges \/ NotifySuppresses \/ NotifyReloads

(* WarmOverviewAsync, at the end of a switch *)
WarmOverviewAsync ==
    /\ ~reloading /\ TriggerReload
    /\ UNCHANGED <<cache, generation, suppressed, write, modem>>

SuppressionEnds ==
    /\ suppressed /\ suppressed' = FALSE
    /\ UNCHANGED <<cache, generation, reloading, loads, write, modem>>

-----------------------------------------------------------------------------
Init ==
    /\ cache = NoView /\ generation = 0 /\ reloading = FALSE /\ suppressed = FALSE
    /\ pc = [c \in Loaders |-> "idle"] /\ key = [c \in Loaders |-> 0]
    /\ view = [c \in Loaders |-> NoView] /\ since = [c \in Loaders |-> 0]
    /\ writer = "none" /\ target = NoProfile /\ writes = 0
    /\ card \in States /\ notifier = "none"

Next ==
    \/ \E c \in Loaders : Load(c)
    \/ \E c \in Callers : \/ Call(c) \/ RefreshOverview(c) \/ RefreshAllowed(c)
                          \/ ProfilesQueue(c) \/ ProfilesRead(c) \/ ProfilesStore(c)
    \/ ReloadAllowed \/ ReloadEnds
    \/ Write
    \/ Notify \/ WarmOverviewAsync \/ SuppressionEnds

Spec == Init /\ [][Next]_vars

-----------------------------------------------------------------------------
Labels == {"idle", "answered", "look", "key", "join", "wait", "recheck", "queue", "read", "store",
    "share", "held", "refresh", "refresh_pending", "refresh_held",
    "profiles_queue", "profiles_read", "profiles_store"}

TypeOK ==
    /\ cache \in Views \cup {NoView} /\ generation \in Nat
    /\ reloading \in BOOLEAN /\ suppressed \in BOOLEAN
    /\ pc \in [Loaders -> Labels] /\ key \in [Loaders -> Nat]
    /\ view \in [Loaders -> Views \cup {NoView}] /\ since \in [Loaders -> Nat]
    /\ writer \in {"none", "suppress", "enable", "patch", "disable", "disabled", "invalidate", "reload"}
    /\ target \in States /\ writes \in Nat /\ card \in States
    /\ notifier \in {"none", "invalidate", "judge", "suppress", "reload"}

(* An overview that a load put together was read from the card after the    *)
(* last invalidation that came before the call it answers, however long the *)
(* reading took, whoever did it, and whether it came from the cache: after  *)
(* a disable, a reset or a refresh has invalidated the cache, no later call *)
(* is answered with what was read before.  A refresh is itself such a call, *)
(* measured from its own beginning, not from the invalidation it makes: one *)
(* that joins a reload may be answered from the cache.  (RefreshProfiles    *)
(* gives no such promise.)                                                  *)
AnswersAreFresh ==
    \A c \in Callers :
        pc[c] = "answered" /\ view[c] # NoView /\ view[c].by = "load" => view[c].asOf >= since[c]
=============================================================================

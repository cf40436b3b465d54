------------------------- MODULE EsimOverviewProofs --------------------------
(***************************************************************************)
(* Proofs about EsimOverview, for any number of callers, profiles,         *)
(* invalidations and writes: its type invariant, and that a load is never  *)
(* answered with what was read before the last invalidation that preceded  *)
(* the call.                                                                *)
(***************************************************************************)
EXTENDS EsimOverview, TLAPS

Loaded(v) == v # NoView /\ v.by = "load"

(* What a load put into the cache was read in the present generation: an    *)
(* invalidation empties the cache, and only later readings are stored.      *)
CacheIsFresh == Loaded(cache) => cache.asOf = generation

(* Places where a load has its key, and where it has read nothing yet. *)
Keyed == {"join", "wait", "recheck", "queue", "read", "store", "share"}
Unread == {"idle", "held", "look", "key", "join", "wait", "recheck", "queue", "read",
    "refresh", "refresh_pending", "refresh_held", "profiles_queue", "profiles_read"}

(* A load knows a generation that is not before its call, and what it has   *)
(* read is not older than that.                                             *)
LoadIsFresh(c) ==
    /\ key[c] <= generation /\ since[c] <= generation
    /\ pc[c] \in Keyed => since[c] <= key[c]
    /\ pc[c] \in Unread => view[c] = NoView
    /\ Loaded(view[c]) => /\ view[c].asOf <= generation
                          /\ pc[c] \in {"store", "share"} => view[c].asOf >= key[c]
                          /\ pc[c] = "answered" => view[c].asOf >= since[c]
                          /\ pc[c] # "profiles_store"

ReloaderRests == ~reloading => pc[Reloader] = "idle"

Fresh == CacheIsFresh /\ ReloaderRests /\ \A c \in Loaders : LoadIsFresh(c)

IInv == TypeOK /\ Fresh

-----------------------------------------------------------------------------
(* Types.                                                                   *)

LEMMA InitTypes == Init => TypeOK
<1> SUFFICES ASSUME Init PROVE TypeOK
  OBVIOUS
<1>1. pc \in [Loaders -> Labels] /\ key \in [Loaders -> Nat] /\ since \in [Loaders -> Nat]
  BY DEF Init, Labels
<1>2. view \in [Loaders -> Views \cup {NoView}]
  BY DEF Init
<1>3. /\ cache \in Views \cup {NoView} /\ generation \in Nat /\ reloading \in BOOLEAN
      /\ suppressed \in BOOLEAN /\ writer = "none" /\ target \in States /\ writes \in Nat /\ card \in States
      /\ notifier = "none"
  BY DEF Init, States
<1> QED BY <1>1, <1>2, <1>3 DEF TypeOK

(* An overview has its three fields. *)
LEMMA NewView ==
    ASSUME NEW p \in States, NEW g \in Nat, NEW b \in {"load", "profiles"}
    PROVE  [active |-> p, asOf |-> g, by |-> b] \in Views
BY DEF Views

LEMMA TriggerTypes == ASSUME TypeOK, TriggerReload
    PROVE /\ reloading' \in BOOLEAN /\ pc' \in [Loaders -> Labels] /\ key' \in [Loaders -> Nat]
          /\ view' \in [Loaders -> Views \cup {NoView}] /\ since' \in [Loaders -> Nat]
BY DEF TriggerReload, TypeOK, loads, Labels

LEMMA LoadTypes == ASSUME TypeOK, NEW c \in Loaders, Load(c) PROVE TypeOK'
<1> USE DEF TypeOK, write, modem, Goto, Answer, Labels
<1>1. CASE Look(c)  BY <1>1 DEF Look
<1>2. CASE ReadKey(c)  BY <1>2 DEF ReadKey
<1>3. CASE Join(c)
  <2> DEFINE next == IF \E d \in Loaders : Leads(d, key[c]) THEN "wait" ELSE "recheck"
  <2>1. pc' = [pc EXCEPT ![c] = next] /\ next \in {"wait", "recheck"}
    BY <1>3 DEF Join
  <2> QED BY <1>3, <2>1 DEF Join
<1>4. CASE Recheck(c)  BY <1>4 DEF Recheck
<1>5. CASE Queue(c)  BY <1>5 DEF Queue
<1>6. CASE Read(c)  BY <1>6, NewView DEF Read
<1>7. CASE Store(c)  BY <1>7 DEF Store, SetOverviewCache
<1>8. CASE Share(c)  BY <1>8 DEF Share
<1> QED BY <1>1, <1>2, <1>3, <1>4, <1>5, <1>6, <1>7, <1>8 DEF Load

LEMMA CallTypes ==
    ASSUME TypeOK, NEW c \in Callers,
           Call(c) \/ RefreshOverview(c) \/ RefreshAllowed(c) \/ ProfilesQueue(c) \/ ProfilesRead(c) \/ ProfilesStore(c)
    PROVE TypeOK'
<1>0. c \in Loaders
  BY DEF Loaders
<1> USE <1>0 DEF TypeOK, write, modem, Goto, Answer, Labels
<1>1. CASE Call(c)  BY <1>1 DEF Call
<1>2. CASE RefreshOverview(c)  BY <1>2 DEF RefreshOverview
<1>3. CASE RefreshAllowed(c)  BY <1>3 DEF RefreshAllowed, Invalidate
<1>4. CASE ProfilesQueue(c)  BY <1>4 DEF ProfilesQueue
<1>5. CASE ProfilesRead(c)  BY <1>5, NewView DEF ProfilesRead
<1>6. CASE ProfilesStore(c)  BY <1>6 DEF ProfilesStore
<1> QED BY <1>1, <1>2, <1>3, <1>4, <1>5, <1>6

LEMMA WriteTypes == ASSUME TypeOK, Write PROVE TypeOK'
<1> USE DEF TypeOK, loads, write, modem, Unlock, States
<1>1. CASE Lock  BY <1>1 DEF Lock
<1>2. CASE Suppress  BY <1>2 DEF Suppress
<1>3. CASE EnableProfile  BY <1>3 DEF EnableProfile
<1>4. CASE PatchCachedActiveProfile
  <2>1. cache' \in Views \cup {NoView}
    BY <1>4 DEF PatchCachedActiveProfile, Views
  <2> QED BY <1>4, <2>1 DEF PatchCachedActiveProfile
<1>5. CASE DisableProfile  BY <1>5 DEF DisableProfile
<1>6. CASE SuppressAfter  BY <1>6 DEF SuppressAfter
<1>7. CASE InvalidateAfter  BY <1>7 DEF InvalidateAfter, Invalidate
<1>8. CASE ReloadAfter  BY <1>8, TriggerTypes DEF ReloadAfter
<1> QED BY <1>1, <1>2, <1>3, <1>4, <1>5, <1>6, <1>7, <1>8 DEF Write

LEMMA NotifyTypes == ASSUME TypeOK, Notify PROVE TypeOK'
<1> USE DEF TypeOK, loads, write
<1>1. CASE NotifyUIMIndication  BY <1>1 DEF NotifyUIMIndication
<1>2. CASE NotifyInvalidates  BY <1>2 DEF NotifyInvalidates, Invalidate
<1>3. CASE NotifyModemReset  BY <1>3 DEF NotifyModemReset, Invalidate
<1>4. CASE NotifyJudges
  <2>1. notifier' \in {"none", "suppress"} /\ UNCHANGED <<cache, generation, reloading, suppressed, loads, write, card>>
    BY <1>4 DEF NotifyJudges
  <2> QED BY <2>1
<1>5. CASE NotifySuppresses  BY <1>5 DEF NotifySuppresses
<1>6. CASE NotifyReloads  BY <1>6, TriggerTypes DEF NotifyReloads
<1> QED BY <1>1, <1>2, <1>3, <1>4, <1>5, <1>6 DEF Notify

LEMMA NextTypes == TypeOK /\ [Next]_vars => TypeOK'
<1> SUFFICES ASSUME TypeOK, [Next]_vars PROVE TypeOK'
  OBVIOUS
<1> USE DEF TypeOK, loads, write, modem
<1>1. CASE ReloadAllowed  BY <1>1 DEF ReloadAllowed, Goto, Loaders, Labels
<1>2. CASE ReloadEnds  BY <1>2 DEF ReloadEnds, Labels
<1>3. CASE WarmOverviewAsync  BY <1>3, TriggerTypes DEF WarmOverviewAsync
<1>4. CASE SuppressionEnds  BY <1>4 DEF SuppressionEnds
<1>5. CASE UNCHANGED vars  BY <1>5 DEF vars
<1> QED BY <1>1, <1>2, <1>3, <1>4, <1>5, LoadTypes, CallTypes, WriteTypes, NotifyTypes DEF Next

-----------------------------------------------------------------------------
(* Freshness.                                                               *)

(* What a load knows stays true while the generation grows around it. *)
LEMMA OthersStay ==
    ASSUME TypeOK, TypeOK', NEW d \in Loaders, LoadIsFresh(d), generation' >= generation,
           pc'[d] = pc[d], key'[d] = key[d], view'[d] = view[d], since'[d] = since[d]
    PROVE  LoadIsFresh(d)'
<1>1. generation \in Nat /\ generation' \in Nat /\ key[d] \in Nat /\ since[d] \in Nat
  BY DEF TypeOK
<1>2. Loaded(view[d]) => view[d].asOf \in Nat
  BY DEF TypeOK, Loaded, Views
<1> QED BY <1>1, <1>2 DEF LoadIsFresh, Loaded

LEMMA AllStay ==
    ASSUME TypeOK, TypeOK', Fresh, generation' >= generation, UNCHANGED loads
    PROVE  \A d \in Loaders : LoadIsFresh(d)'
BY OthersStay DEF Fresh, loads

(* An invalidation leaves no stale overview in the cache. *)
LEMMA InvalidateIsFresh ==
    ASSUME TypeOK, Invalidate PROVE CacheIsFresh' /\ generation' >= generation
BY DEF Invalidate, CacheIsFresh, Loaded, TypeOK

LEMMA CacheStays == ASSUME CacheIsFresh, UNCHANGED <<cache, generation>> PROVE CacheIsFresh'
BY DEF CacheIsFresh, Loaded

(* What is cached is no older than any key. *)
LEMMA CachedIsNewer ==
    ASSUME TypeOK, Fresh, NEW c \in Loaders, Loaded(cache)
    PROVE  cache.asOf = generation /\ cache.asOf >= key[c] /\ cache.asOf >= since[c]
BY DEF Fresh, CacheIsFresh, LoadIsFresh, TypeOK

(* A reload that begins has read nothing. *)
LEMMA TriggerIsFresh ==
    ASSUME TypeOK, TypeOK', Fresh, TriggerReload, generation' >= generation
    PROVE  ReloaderRests' /\ \A d \in Loaders : LoadIsFresh(d)'
<1>1. CASE reloading
  BY <1>1, AllStay DEF TriggerReload, ReloaderRests, Fresh
<1>2. CASE ~reloading
  <2>0. Reloader \in Loaders
    BY DEF Loaders
  <2>1. reloading' /\ pc' = [pc EXCEPT ![Reloader] = "held"] /\ UNCHANGED <<key, view, since>>
    BY <1>2 DEF TriggerReload
  <2>2. view[Reloader] = NoView
    BY <1>2, <2>0 DEF Fresh, ReloaderRests, LoadIsFresh, Unread
  <2>3. LoadIsFresh(Reloader)'
    <3>1. /\ pc'[Reloader] = "held" /\ view'[Reloader] = NoView
          /\ key'[Reloader] = key[Reloader] /\ since'[Reloader] = since[Reloader]
      BY <2>0, <2>1, <2>2 DEF TypeOK
    <3>2. key[Reloader] <= generation' /\ since[Reloader] <= generation'
      BY <2>0 DEF Fresh, LoadIsFresh, TypeOK
    <3> QED BY <3>1, <3>2 DEF LoadIsFresh, Keyed, Loaded
  <2>4. ASSUME NEW d \in Loaders, d # Reloader PROVE LoadIsFresh(d)'
    BY <2>1, <2>4, OthersStay DEF Fresh, TypeOK
  <2> QED BY <2>1, <2>3, <2>4 DEF ReloaderRests
<1> QED BY <1>1, <1>2

(* A step of one load that leaves the others alone. *)
LEMMA OneMoves ==
    ASSUME TypeOK, TypeOK', Fresh, NEW c \in Loaders, generation' >= generation,
           \A d \in Loaders \ {c} : pc'[d] = pc[d] /\ key'[d] = key[d] /\ view'[d] = view[d] /\ since'[d] = since[d],
           UNCHANGED reloading, c = Reloader => reloading \/ pc[c] = "idle",
           c = Reloader /\ pc[c] = "idle" => pc'[c] = "idle",
           CacheIsFresh', LoadIsFresh(c)'
    PROVE  Fresh'
<1>1. \A d \in Loaders \ {c} : LoadIsFresh(d)'
  BY OthersStay DEF Fresh
<1>2. ReloaderRests'
  BY DEF ReloaderRests, Fresh, Loaders
<1> QED BY <1>1, <1>2 DEF Fresh

LEMMA LoadFresh == ASSUME TypeOK, TypeOK', Fresh, NEW c \in Loaders, Load(c) PROVE Fresh'
<1>0. /\ generation \in Nat /\ key[c] \in Nat /\ since[c] \in Nat /\ LoadIsFresh(c) /\ CacheIsFresh
      /\ key[c] <= generation /\ since[c] <= generation
  BY DEF TypeOK, Fresh, LoadIsFresh
<1>1. c = Reloader /\ pc[c] # "idle" => reloading
  BY DEF Fresh, ReloaderRests
<1>2. CASE Look(c)
  <2>1. pc[c] = "look" /\ UNCHANGED <<cache, generation, reloading, key, since>>
    BY <1>2 DEF Look
  <2>2. CacheIsFresh'
    BY <1>0, <2>1, CacheStays
  <2>3. CASE cache # NoView
    <3>1. pc' = [pc EXCEPT ![c] = "answered"] /\ view' = [view EXCEPT ![c] = cache]
      BY <1>2, <2>3 DEF Look, Answer, Goto
    <3>2. pc'[c] = "answered" /\ view'[c] = cache /\ key'[c] = key[c] /\ since'[c] = since[c]
      BY <2>1, <3>1 DEF TypeOK
    <3>3. LoadIsFresh(c)'
      BY <1>0, <2>1, <3>2, CachedIsNewer DEF LoadIsFresh, Keyed, Unread, Loaded, TypeOK, Views
    <3> QED BY <1>1, <2>1, <2>2, <3>1, <3>3, OneMoves DEF TypeOK
  <2>4. CASE cache = NoView
    <3>1. pc' = [pc EXCEPT ![c] = "key"] /\ UNCHANGED view
      BY <1>2, <2>4 DEF Look, Goto
    <3>2. pc'[c] = "key"
      BY <3>1 DEF TypeOK
    <3>3. LoadIsFresh(c)'
      BY <1>0, <2>1, <3>1, <3>2 DEF LoadIsFresh, Keyed, Unread, Loaded
    <3> QED BY <1>1, <2>1, <2>2, <3>1, <3>3, OneMoves DEF TypeOK
  <2> QED BY <2>3, <2>4
<1>3. CASE ReadKey(c)
  <2>1. /\ pc[c] = "key" /\ UNCHANGED <<cache, generation, reloading, view, since>>
        /\ pc' = [pc EXCEPT ![c] = "join"] /\ key' = [key EXCEPT ![c] = generation]
    BY <1>3 DEF ReadKey, Goto
  <2>2. pc'[c] = "join" /\ key'[c] = generation
    BY <2>1 DEF TypeOK
  <2>3. LoadIsFresh(c)'
    BY <1>0, <2>1, <2>2 DEF LoadIsFresh, Keyed, Unread, Loaded
  <2> QED BY <1>0, <1>1, <2>1, <2>3, CacheStays, OneMoves DEF TypeOK
<1>4. CASE Join(c)
  <2>1. /\ pc[c] = "join" /\ UNCHANGED <<cache, generation, reloading, key, view, since>>
        /\ \E label \in {"wait", "recheck"} : pc' = [pc EXCEPT ![c] = label]
    <3> DEFINE next == IF \E d \in Loaders : Leads(d, key[c]) THEN "wait" ELSE "recheck"
    <3>1. pc' = [pc EXCEPT ![c] = next] /\ next \in {"wait", "recheck"}
      BY <1>4 DEF Join, Goto
    <3> QED BY <1>4, <3>1 DEF Join
  <2>2. pc'[c] \in {"wait", "recheck"} /\ \A d \in Loaders \ {c} : pc'[d] = pc[d]
    BY <2>1 DEF TypeOK
  <2>3. LoadIsFresh(c)'
    BY <1>0, <2>1, <2>2 DEF LoadIsFresh, Keyed, Unread, Loaded
  <2> QED BY <1>0, <1>1, <2>1, <2>2, <2>3, CacheStays, OneMoves
<1>5. CASE Recheck(c)
  <2>1. pc[c] = "recheck" /\ UNCHANGED <<cache, generation, reloading, key, since>>
    BY <1>5 DEF Recheck
  <2>2. \/ pc' = [pc EXCEPT ![c] = "share"] /\ view' = [view EXCEPT ![c] = cache]
        \/ pc' = [pc EXCEPT ![c] = "queue"] /\ UNCHANGED view
    BY <1>5 DEF Recheck, Goto
  <2>3. LoadIsFresh(c)'
    <3>1. \/ pc'[c] = "share" /\ view'[c] = cache
          \/ pc'[c] = "queue" /\ view'[c] = view[c]
      BY <2>2 DEF TypeOK
    <3>2. CASE pc'[c] = "share" /\ view'[c] = cache
      BY <1>0, <2>1, <3>2, CachedIsNewer DEF LoadIsFresh, Keyed, Unread, Loaded, TypeOK, Views
    <3>3. CASE pc'[c] = "queue" /\ view'[c] = view[c]
      BY <1>0, <2>1, <3>3 DEF LoadIsFresh, Keyed, Unread, Loaded
    <3> QED BY <3>1, <3>2, <3>3
  <2>4. \A d \in Loaders \ {c} : pc'[d] = pc[d] /\ view'[d] = view[d]
    BY <2>2 DEF TypeOK
  <2> QED BY <1>0, <1>1, <2>1, <2>3, <2>4, CacheStays, OneMoves
<1>6. CASE Queue(c)
  <2>1. /\ pc[c] = "queue" /\ UNCHANGED <<cache, generation, reloading, key, view, since>>
        /\ \E label \in {"read", "store"} : pc' = [pc EXCEPT ![c] = label]
    BY <1>6 DEF Queue, Goto
  <2>2. pc'[c] \in {"read", "store"} /\ \A d \in Loaders \ {c} : pc'[d] = pc[d]
    BY <2>1 DEF TypeOK
  <2>3. LoadIsFresh(c)'
    BY <1>0, <2>1, <2>2 DEF LoadIsFresh, Keyed, Unread, Loaded
  <2> QED BY <1>0, <1>1, <2>1, <2>2, <2>3, CacheStays, OneMoves
<1>7. CASE Read(c)
  <2> DEFINE new == [active |-> card, asOf |-> generation, by |-> "load"]
  <2>1. /\ pc[c] = "read" /\ UNCHANGED <<cache, generation, reloading, key, since>>
        /\ pc' = [pc EXCEPT ![c] = "store"]
        /\ view' = [view EXCEPT ![c] = new] \/ UNCHANGED view
    BY <1>7 DEF Read, Goto
  <2>2. pc'[c] = "store" /\ view'[c] \in {new, view[c]}
    BY <2>1 DEF TypeOK
  <2>3. \A d \in Loaders \ {c} : pc'[d] = pc[d] /\ view'[d] = view[d]
    BY <2>1 DEF TypeOK
  <2>4. LoadIsFresh(c)'
    BY <1>0, <2>1, <2>2 DEF LoadIsFresh, Keyed, Unread, Loaded
  <2> QED BY <1>0, <1>1, <2>1, <2>3, <2>4, CacheStays, OneMoves
<1>8. CASE Store(c)
  <2>1. /\ pc[c] = "store" /\ UNCHANGED <<generation, reloading, key, view, since>>
        /\ pc' = [pc EXCEPT ![c] = "share"] /\ SetOverviewCache(view[c], key[c])
    BY <1>8 DEF Store, Goto
  <2>2. CacheIsFresh'
    <3>1. CASE key[c] = generation
      <4>1. cache' = view[c]
        BY <2>1, <3>1 DEF SetOverviewCache
      <4>2. Loaded(view[c]) => view[c].asOf \in Nat /\ view[c].asOf <= generation /\ view[c].asOf >= key[c]
        BY <1>0, <2>1 DEF LoadIsFresh, Loaded, TypeOK, Views
      <4> QED BY <1>0, <2>1, <3>1, <4>1, <4>2 DEF CacheIsFresh, Loaded
    <3>2. CASE key[c] # generation
      BY <1>0, <2>1, <3>2, CacheStays DEF SetOverviewCache
    <3> QED BY <3>1, <3>2
  <2>3. pc'[c] = "share" /\ \A d \in Loaders \ {c} : pc'[d] = pc[d]
    BY <2>1 DEF TypeOK
  <2>4. LoadIsFresh(c)'
    BY <1>0, <2>1, <2>3 DEF LoadIsFresh, Keyed, Unread, Loaded
  <2> QED BY <1>0, <1>1, <2>1, <2>2, <2>3, <2>4, OneMoves
<1>9. CASE Share(c)
  <2> DEFINE waits == {d \in Loaders : pc[d] = "wait" /\ key[d] = key[c]} \cup {c}
  <2>1. /\ pc[c] = "share" /\ UNCHANGED <<cache, generation, reloading, key, since>>
        /\ \A d \in Loaders : pc'[d] = (IF d \in waits THEN "answered" ELSE pc[d])
        /\ \A d \in Loaders : view'[d] = (IF d \in waits THEN view[c] ELSE view[d])
    <3>1. /\ pc' = [d \in Loaders |-> IF d \in waits THEN "answered" ELSE pc[d]]
          /\ view' = [d \in Loaders |-> IF d \in waits THEN view[c] ELSE view[d]]
      BY <1>9 DEF Share
    <3>2. pc[c] = "share" /\ UNCHANGED <<cache, generation, reloading, key, since>>
      BY <1>9 DEF Share
    <3> HIDE DEF waits
    <3> QED BY <3>1, <3>2
  <2>a. c \in waits /\ waits \subseteq Loaders /\ \A d \in waits : d = c \/ (pc[d] = "wait" /\ key[d] = key[c])
    OBVIOUS
  <2> HIDE DEF waits
  <2>2. Loaded(view[c]) => view[c].asOf \in Nat /\ view[c].asOf <= generation /\ view[c].asOf >= key[c]
    BY <1>0, <2>1 DEF LoadIsFresh, Loaded, TypeOK, Views
  <2>3. ASSUME NEW d \in Loaders, d \in waits PROVE LoadIsFresh(d)'
    <3>1. key[d] = key[c] /\ since[d] <= key[d] /\ key[d] <= generation /\ since[d] <= generation
      BY <2>a, <2>1, <2>3 DEF Fresh, LoadIsFresh, Keyed
    <3>2. key[d] \in Nat /\ since[d] \in Nat
      BY DEF TypeOK
    <3>3. pc'[d] = "answered" /\ view'[d] = view[c] /\ key'[d] = key[d] /\ since'[d] = since[d]
      BY <2>1, <2>3
    <3> QED BY <1>0, <2>1, <2>2, <3>1, <3>2, <3>3 DEF LoadIsFresh, Keyed, Unread, Loaded
  <2>4. ASSUME NEW d \in Loaders, d \notin waits PROVE LoadIsFresh(d)'
    BY <1>0, <2>1, <2>4, OthersStay DEF Fresh
  <2>5. ReloaderRests'
    <3>1. CASE reloading
      BY <2>1, <3>1 DEF ReloaderRests
    <3>2. CASE ~reloading
      <4>1. Reloader \in Loaders /\ pc[Reloader] = "idle"
        BY <3>2 DEF Fresh, ReloaderRests, Loaders
      <4>2. Reloader \notin waits
        BY <2>a, <2>1, <4>1
      <4> QED BY <2>1, <4>1, <4>2 DEF ReloaderRests
    <3> QED BY <3>1, <3>2
  <2> QED BY <1>0, <2>1, <2>3, <2>4, <2>5, CacheStays DEF Fresh
<1> QED BY <1>2, <1>3, <1>4, <1>5, <1>6, <1>7, <1>8, <1>9 DEF Load

(* A step of a caller outside the load. *)
LEMMA CallerFresh ==
    ASSUME TypeOK, TypeOK', Fresh, NEW c \in Callers,
           Call(c) \/ RefreshOverview(c) \/ RefreshAllowed(c) \/ ProfilesQueue(c) \/ ProfilesRead(c) \/ ProfilesStore(c)
    PROVE  Fresh'
<1>0. /\ c \in Loaders /\ c # Reloader
      /\ generation \in Nat /\ key[c] \in Nat /\ since[c] \in Nat /\ LoadIsFresh(c) /\ CacheIsFresh
      /\ key[c] <= generation /\ since[c] <= generation
  BY OverviewAssumption DEF TypeOK, Fresh, LoadIsFresh, Loaders
<1>1. CASE Call(c)
  <2>1. /\ UNCHANGED <<cache, generation, reloading>>
        /\ \E label \in {"look", "refresh", "profiles_queue"} : pc' = [pc EXCEPT ![c] = label]
        /\ since' = [since EXCEPT ![c] = generation] /\ view' = [view EXCEPT ![c] = NoView]
        /\ key' = [key EXCEPT ![c] = 0]
    BY <1>1 DEF Call, Goto
  <2>2. \A d \in Loaders \ {c} : pc'[d] = pc[d] /\ key'[d] = key[d] /\ view'[d] = view[d] /\ since'[d] = since[d]
    BY <2>1 DEF TypeOK
  <2>3. /\ pc'[c] \in {"look", "refresh", "profiles_queue"} /\ view'[c] = NoView
        /\ since'[c] = generation /\ key'[c] = 0
    BY <1>0, <2>1 DEF TypeOK
  <2>4. LoadIsFresh(c)'
    BY <1>0, <2>1, <2>3 DEF LoadIsFresh, Keyed, Unread, Loaded
  <2> QED BY <1>0, <2>1, <2>2, <2>4, CacheStays, OneMoves
<1>2. CASE RefreshOverview(c)
  <2>1. /\ pc[c] = "refresh" /\ UNCHANGED <<cache, generation, reloading, key, view, since>>
        /\ \E label \in {"refresh_pending", "refresh_held"} : pc' = [pc EXCEPT ![c] = label]
    BY <1>2 DEF RefreshOverview, Goto
  <2>2. pc'[c] \in {"refresh_pending", "refresh_held"} /\ \A d \in Loaders \ {c} : pc'[d] = pc[d]
    BY <1>0, <2>1 DEF TypeOK
  <2>3. LoadIsFresh(c)'
    BY <1>0, <2>1, <2>2 DEF LoadIsFresh, Keyed, Unread, Loaded
  <2> QED BY <1>0, <2>1, <2>2, <2>3, CacheStays, OneMoves
<1>3. CASE RefreshAllowed(c)
  <2>1. /\ pc[c] \in {"refresh_pending", "refresh_held"} /\ UNCHANGED <<reloading, key, view, since>>
        /\ pc' = [pc EXCEPT ![c] = "look"]
        /\ UNCHANGED <<cache, generation>> \/ Invalidate
    BY <1>3 DEF RefreshAllowed, Goto
  <2>2. pc'[c] = "look" /\ \A d \in Loaders \ {c} : pc'[d] = pc[d]
    BY <1>0, <2>1 DEF TypeOK
  <2>3. CacheIsFresh' /\ generation' >= generation /\ generation' \in Nat
    BY <1>0, <2>1, CacheStays, InvalidateIsFresh DEF TypeOK
  <2>4. LoadIsFresh(c)'
    BY <1>0, <2>1, <2>2, <2>3 DEF LoadIsFresh, Keyed, Unread, Loaded
  <2> QED BY <1>0, <2>1, <2>2, <2>3, <2>4, OneMoves
<1>4. CASE ProfilesQueue(c)
  <2>1. /\ pc[c] = "profiles_queue" /\ UNCHANGED <<cache, generation, reloading, key, since>>
        /\ \/ pc' = [pc EXCEPT ![c] = "profiles_read"] /\ UNCHANGED view
           \/ pc' = [pc EXCEPT ![c] = "answered"] /\ view' = [view EXCEPT ![c] = NoView]
    BY <1>4 DEF ProfilesQueue, Answer, Goto
  <2>2. pc'[c] \in {"profiles_read", "answered"} /\ view'[c] = NoView
    BY <1>0, <2>1 DEF TypeOK, LoadIsFresh, Unread
  <2>3. \A d \in Loaders \ {c} : pc'[d] = pc[d] /\ view'[d] = view[d]
    BY <2>1 DEF TypeOK
  <2>4. LoadIsFresh(c)'
    BY <1>0, <2>1, <2>2 DEF LoadIsFresh, Keyed, Loaded
  <2> QED BY <1>0, <2>1, <2>3, <2>4, CacheStays, OneMoves
<1>5. CASE ProfilesRead(c)
  <2> DEFINE new == [active |-> card, asOf |-> generation, by |-> "profiles"]
  <2>1. /\ pc[c] = "profiles_read" /\ UNCHANGED <<cache, generation, reloading, key, since>>
        /\ \/ view' = [view EXCEPT ![c] = new] /\ pc' = [pc EXCEPT ![c] = "profiles_store"]
           \/ pc' = [pc EXCEPT ![c] = "answered"] /\ view' = [view EXCEPT ![c] = NoView]
    BY <1>5 DEF ProfilesRead, Answer, Goto
  <2>2. pc'[c] \in {"profiles_store", "answered"} /\ view'[c] \in {new, NoView}
    BY <1>0, <2>1 DEF TypeOK
  <2>3. \A d \in Loaders \ {c} : pc'[d] = pc[d] /\ view'[d] = view[d]
    BY <2>1 DEF TypeOK
  <2>4. LoadIsFresh(c)'
    BY <1>0, <2>1, <2>2 DEF LoadIsFresh, Keyed, Unread, Loaded
  <2> QED BY <1>0, <2>1, <2>3, <2>4, CacheStays, OneMoves
<1>6. CASE ProfilesStore(c)
  <2>1. /\ pc[c] = "profiles_store" /\ UNCHANGED <<generation, reloading, key, since>>
        /\ cache' = view[c] /\ pc' = [pc EXCEPT ![c] = "look"] /\ view' = [view EXCEPT ![c] = NoView]
    BY <1>6 DEF ProfilesStore, Goto
  <2>2. CacheIsFresh'
    BY <1>0, <2>1 DEF LoadIsFresh, CacheIsFresh, Loaded
  <2>3. pc'[c] = "look" /\ view'[c] = NoView
    BY <1>0, <2>1 DEF TypeOK
  <2>4. \A d \in Loaders \ {c} : pc'[d] = pc[d] /\ view'[d] = view[d]
    BY <2>1 DEF TypeOK
  <2>5. LoadIsFresh(c)'
    BY <1>0, <2>1, <2>3 DEF LoadIsFresh, Keyed, Loaded
  <2> QED BY <1>0, <2>1, <2>2, <2>4, <2>5, OneMoves
<1> QED BY <1>1, <1>2, <1>3, <1>4, <1>5, <1>6

(* A step of the goroutine that holds opMu. *)
LEMMA WriteFresh == ASSUME TypeOK, TypeOK', Fresh, Write PROVE Fresh'
<1>0. CacheIsFresh /\ ReloaderRests /\ generation \in Nat
  BY DEF Fresh, TypeOK
<1>1. ASSUME UNCHANGED <<generation, reloading, loads>>, CacheIsFresh' PROVE Fresh'
  BY <1>0, <1>1, AllStay DEF Fresh, ReloaderRests, loads
<1>2. CASE Lock \/ Suppress \/ EnableProfile \/ DisableProfile \/ SuppressAfter
  <2>1. UNCHANGED <<cache, generation, reloading, loads>>
    BY <1>2 DEF Lock, Suppress, EnableProfile, DisableProfile, SuppressAfter
  <2> QED BY <1>0, <1>1, <2>1, CacheStays
<1>3. CASE PatchCachedActiveProfile
  <2>1. /\ UNCHANGED <<generation, reloading, loads>>
        /\ cache' = IF cache = NoView THEN cache ELSE [cache EXCEPT !.active = target]
    BY <1>3 DEF PatchCachedActiveProfile
  <2>2. cache # NoView => cache \in Views
    BY DEF TypeOK
  <2>3. CacheIsFresh'
    BY <1>0, <2>1, <2>2 DEF CacheIsFresh, Loaded, Views
  <2> QED BY <1>1, <2>1, <2>3
<1>4. CASE InvalidateAfter
  <2>1. Invalidate /\ UNCHANGED <<reloading, loads>>
    BY <1>4 DEF InvalidateAfter
  <2> QED BY <1>0, <2>1, InvalidateIsFresh, AllStay DEF Fresh, ReloaderRests, loads
<1>5. CASE ReloadAfter
  <2>1. TriggerReload /\ UNCHANGED <<cache, generation>>
    BY <1>5 DEF ReloadAfter
  <2> QED BY <1>0, <2>1, TriggerIsFresh, CacheStays DEF Fresh
<1> QED BY <1>2, <1>3, <1>4, <1>5 DEF Write

(* A step of the modem, of a timer or of the goroutine of the reload. *)
LEMMA OtherFresh ==
    ASSUME TypeOK, TypeOK', Fresh,
           ReloadAllowed \/ ReloadEnds \/ Notify \/ WarmOverviewAsync
           \/ SuppressionEnds \/ UNCHANGED vars
    PROVE  Fresh'
<1>0. CacheIsFresh /\ ReloaderRests /\ generation \in Nat /\ Reloader \in Loaders /\ LoadIsFresh(Reloader)
  BY DEF Fresh, TypeOK, Loaders
<1>1. ASSUME Invalidate, UNCHANGED <<reloading, loads>> PROVE Fresh'
  BY <1>0, <1>1, InvalidateIsFresh, AllStay DEF Fresh, ReloaderRests, loads
<1>2. ASSUME Invalidate \/ UNCHANGED <<cache, generation>>, TriggerReload PROVE Fresh'
  BY <1>0, <1>2, InvalidateIsFresh, TriggerIsFresh, CacheStays DEF Fresh
<1>3. CASE ReloadAllowed
  <2>1. /\ pc[Reloader] = "held" /\ UNCHANGED <<cache, generation, reloading, key, view, since>>
        /\ pc' = [pc EXCEPT ![Reloader] = "look"]
    BY <1>3 DEF ReloadAllowed, Goto
  <2>2. pc'[Reloader] = "look" /\ \A d \in Loaders \ {Reloader} : pc'[d] = pc[d]
    BY <1>0, <2>1 DEF TypeOK
  <2>3. LoadIsFresh(Reloader)'
    BY <1>0, <2>1, <2>2 DEF LoadIsFresh, Keyed, Unread, Loaded
  <2>4. reloading
    BY <1>0, <2>1 DEF ReloaderRests
  <2> QED BY <1>0, <2>1, <2>2, <2>3, <2>4, CacheStays, OneMoves
<1>4. CASE ReloadEnds
  <2>1. /\ UNCHANGED <<cache, generation, since>>
        /\ pc' = [pc EXCEPT ![Reloader] = "idle"] /\ view' = [view EXCEPT ![Reloader] = NoView]
        /\ key' = [key EXCEPT ![Reloader] = 0]
    BY <1>4 DEF ReloadEnds
  <2>2. pc'[Reloader] = "idle" /\ view'[Reloader] = NoView /\ key'[Reloader] = 0
    BY <1>0, <2>1 DEF TypeOK
  <2>3. \A d \in Loaders \ {Reloader} : pc'[d] = pc[d] /\ view'[d] = view[d] /\ key'[d] = key[d]
    BY <2>1 DEF TypeOK
  <2>4. LoadIsFresh(Reloader)'
    BY <1>0, <2>1, <2>2 DEF LoadIsFresh, Keyed, Loaded
  <2>5. \A d \in Loaders \ {Reloader} : LoadIsFresh(d)'
    BY <1>0, <2>1, <2>3, OthersStay DEF Fresh
  <2> QED BY <1>0, <2>1, <2>2, <2>4, <2>5, CacheStays DEF Fresh, ReloaderRests
<1>5. CASE NotifyInvalidates \/ NotifyModemReset
  BY <1>1, <1>5 DEF NotifyInvalidates, NotifyModemReset
<1>6. CASE NotifyReloads
  BY <1>2, <1>6 DEF NotifyReloads
<1>7. CASE WarmOverviewAsync
  BY <1>2, <1>7 DEF WarmOverviewAsync
<1>8. CASE NotifyUIMIndication \/ NotifyJudges \/ NotifySuppresses \/ SuppressionEnds \/ UNCHANGED vars
  <2>1. UNCHANGED <<cache, generation, reloading, loads>>
    BY <1>8 DEF NotifyUIMIndication, NotifyJudges, NotifySuppresses, SuppressionEnds, vars, loads
  <2> QED BY <1>0, <2>1, AllStay, CacheStays DEF Fresh, ReloaderRests, loads
<1> QED BY <1>3, <1>4, <1>5, <1>6, <1>7, <1>8 DEF Notify

LEMMA InitFresh == Init => Fresh
<1> SUFFICES ASSUME Init PROVE Fresh
  OBVIOUS
<1>1. CacheIsFresh /\ ReloaderRests
  BY DEF Init, CacheIsFresh, Loaded, ReloaderRests, Loaders
<1>2. \A c \in Loaders : LoadIsFresh(c)
  BY DEF Init, LoadIsFresh, Keyed, Loaded
<1> QED BY <1>1, <1>2 DEF Fresh

-----------------------------------------------------------------------------
(* Every variable keeps its type. *)
THEOREM OverviewTypeOK == Spec => []TypeOK
BY InitTypes, NextTypes, PTL DEF Spec

(* The strengthened invariant: what every reading in flight knows of its age. *)
LEMMA OverviewIInv == Spec => []IInv
<1>1. Init => IInv
  BY InitTypes, InitFresh DEF IInv
<1>2. IInv /\ [Next]_vars => IInv'
  <2> SUFFICES ASSUME IInv, [Next]_vars PROVE IInv'
    OBVIOUS
  <2>1. TypeOK /\ Fresh /\ TypeOK'
    BY NextTypes DEF IInv
  <2>2. Fresh'
    BY <2>1, LoadFresh, CallerFresh, WriteFresh, OtherFresh DEF Next
  <2> QED BY <2>1, <2>2 DEF IInv
<1> QED BY <1>1, <1>2, PTL DEF Spec

(* What loadOverview answers was read from the card after the last          *)
(* invalidation before the call, whichever of several overlapping loads     *)
(* read it, for any number of them.                                         *)
THEOREM OverviewAnswersAreFresh == Spec => []AnswersAreFresh
<1>1. IInv => AnswersAreFresh
  BY DEF IInv, Fresh, LoadIsFresh, Loaded, AnswersAreFresh, Loaders
<1> QED BY OverviewIInv, <1>1, PTL
=============================================================================

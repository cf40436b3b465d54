--------------------------- MODULE QmiManagerProofs ---------------------------
(***************************************************************************)
(* Proofs about QmiManager: its type invariant, what Stop leaves behind, and *)
(* that a core is left down, or cut off from the modem, only by a drop of a  *)
(* reset that the properties name.                                           *)
(***************************************************************************)
EXTENDS QmiManager, FiniteSetTheorems, SequenceTheorems, TLAPS

(* One goroutine starts the manager and stops it. *)
OneOwner ==
    \A c, d \in Callers :
        Calls[c] \cap {"StartCore", "Stop"} # {} /\ Calls[d] \cap {"StartCore", "Stop"} # {} => c = d

Starting == {"open", "launch", "ready", "settle"}
Stopping == {"cancel", "cancel_notify", "join", "unstop", "stopped"}

(* Who starts and who stops; nothing runs before the start, and a Stop that  *)
(* waits, or has returned, has cancelled whatever was started.               *)
Roles ==
    /\ \A c \in Callers : pc[c] \in Starting => "StartCore" \in Calls[c]
    /\ \A c \in Callers : pc[c] \in Stopping => "Stop" \in Calls[c]
Threads ==
    /\ ctx = "none" => pc[Loop] = "off" /\ ind = "off"
    /\ \A c \in Callers : pc[c] \in {"open", "launch"} => ctx = "none"
    /\ \A c \in Callers : pc[c] \in {"join", "unstop", "stopped"} => ctx # "live"

(* What Stop leaves, from cleanup on.  A dial that goes on has no service of  *)
(* an open client, so the modem answers nothing more.                        *)
EmptyHanded == wds = "nil" /\ handle = 0 /\ ~InHand
Closed ==
    /\ client = 0 /\ ~coreReady /\ ~controlReady
    /\ wds # "open" /\ \A p \in Procs : got[p].wds # "open"
Clean == Closed /\ (overtaken \/ EmptyHanded) /\ pc[Loop] = "off" /\ ind = "off"
CleanAfterStop == \A c \in Callers : pc[c] \in {"unstop", "stopped"} => Clean

-----------------------------------------------------------------------------
(* Types, in parts.                                                         *)

ConnOK == state \in States /\ desired \in BOOLEAN /\ handle \in Nat
CoreOK == controlReady \in BOOLEAN /\ coreReady \in BOOLEAN /\ client \in Nat /\ wds \in Services
CtxOK == ctx \in {"none", "live", "cancelled"}
EventsOK == eventCh \in Seq(Events) /\ Len(eventCh) <= EventCap
TimingOK == timers \subseteq Timers /\ fired \subseteq Timers /\ checkScheduled \in BOOLEAN
ResetOK ==
    /\ recovering \in BOOLEAN /\ pending \in BOOLEAN /\ recent \in BOOLEAN /\ deferred \in BOOLEAN
    /\ queueing \subseteq Senders
GiveUpOK == failing \in BOOLEAN /\ gaveUp \in BOOLEAN
ControlOK ==
    /\ pc \in [Procs -> Labels]
    /\ after \in {"select", "redial", "clean"}
    /\ seen \in [state : States, desired : BOOLEAN, up : BOOLEAN]
    /\ got \in [Procs -> [wds : Services, handle : Nat]] /\ overtaken \in BOOLEAN
    /\ ind \in {"off", "reading", "sending"}
ModemOK == epoch \in Nat /\ calls \subseteq Nat /\ inbox \in Seq({"reset", "status"})
BoundsOK == inds \in 0..MaxIndications /\ trouble \in 0..MaxTrouble /\ ops \in 0..MaxOps

Types == ConnOK /\ CoreOK /\ CtxOK /\ EventsOK /\ TimingOK /\ ResetOK /\ GiveUpOK /\ ControlOK /\ ModemOK /\ BoundsOK

(* The parts are the type invariant. *)
LEMMA TypeSplit == (TypeOK <=> Types) /\ (TypeOK <=> Types)'
BY DEF TypeOK, Types, ConnOK, CoreOK, CtxOK, EventsOK, TimingOK, ResetOK, GiveUpOK, ControlOK, ModemOK, BoundsOK

(* The modem counts its resets from one, and carries finitely many calls. *)
ModemIsFinite == epoch # 0 /\ IsFiniteSet(calls)

(* A new data call has a number of its own. *)
LEMMA NewHandle ==
    ASSUME ModemIsFinite PROVE newHandle \in Nat \ calls
<1>1. PICK n \in 1..Cardinality(calls) + 2 : n \notin calls \cup {handle}
  <2>1. SUFFICES ASSUME 1..Cardinality(calls) + 2 \subseteq calls \cup {handle} PROVE FALSE
    OBVIOUS
  <2>2. IsFiniteSet(calls \cup {handle}) /\ Cardinality(calls \cup {handle}) <= Cardinality(calls) + 1
        /\ Cardinality(calls) \in Nat /\ Cardinality(calls \cup {handle}) \in Nat
    <3>1. IsFiniteSet(calls)  BY DEF ModemIsFinite
    <3>2. IsFiniteSet(calls \cup {handle})
          /\ Cardinality(calls \cup {handle}) =
               (IF handle \in calls THEN Cardinality(calls) ELSE Cardinality(calls) + 1)
      BY <3>1, FS_AddElement
    <3> QED BY <3>1, <3>2, FS_CardinalityType
  <2>3. Cardinality(1..Cardinality(calls) + 2) <= Cardinality(calls \cup {handle})
    BY <2>1, <2>2, FS_Subset
  <2>4. Cardinality(1..Cardinality(calls) + 2) = Cardinality(calls) + 2
    BY <2>2, FS_Interval
  <2> QED BY <2>2, <2>3, <2>4
<1>2. \E k \in 1..Cardinality(calls) + 2 : k \notin calls \cup {handle}
  BY <1>1
<1>3. newHandle \in 1..Cardinality(calls) + 2 /\ newHandle \notin calls \cup {handle}
  BY <1>2 DEF newHandle
<1>4. Cardinality(calls) \in Nat
  BY FS_CardinalityType DEF ModemIsFinite
<1> QED BY <1>3, <1>4

(* What is left alone keeps its types. *)
LEMMA FrameTypes ==
    ASSUME Types
    PROVE  /\ UNCHANGED conn => ConnOK'
           /\ UNCHANGED core => CoreOK'
           /\ UNCHANGED ctx => CtxOK'
           /\ UNCHANGED eventCh => EventsOK'
           /\ UNCHANGED timing => TimingOK'
           /\ UNCHANGED reset => ResetOK'
           /\ UNCHANGED giveup => GiveUpOK'
           /\ UNCHANGED <<pc, locals, ind>> => ControlOK'
           /\ UNCHANGED modem => ModemOK'
           /\ UNCHANGED bounds => BoundsOK'
<1>1. UNCHANGED conn => ConnOK'  BY DEF Types, conn, ConnOK
<1>2. UNCHANGED core => CoreOK'  BY DEF Types, core, CoreOK
<1>3. UNCHANGED ctx => CtxOK'  BY DEF Types, CtxOK
<1>4. UNCHANGED eventCh => EventsOK'  BY DEF Types, EventsOK
<1>5. UNCHANGED timing => TimingOK'  BY DEF Types, timing, TimingOK
<1>6. UNCHANGED reset => ResetOK'  BY DEF Types, reset, ResetOK
<1>7. UNCHANGED giveup => GiveUpOK'  BY DEF Types, giveup, GiveUpOK
<1>8. UNCHANGED <<pc, locals, ind>> => ControlOK'  BY DEF Types, locals, ControlOK
<1>9. UNCHANGED modem => ModemOK'  BY DEF Types, modem, ModemOK
<1>10. UNCHANGED bounds => BoundsOK'  BY DEF Types, bounds, BoundsOK
<1> QED BY <1>1, <1>2, <1>3, <1>4, <1>5, <1>6, <1>7, <1>8, <1>9, <1>10

(* A dial that has nothing of the modem's. *)
LEMMA NothingIsTyped == NothingGot \in [wds : Services, handle : Nat]
BY DEF NothingGot, Services

(* cleanup leaves what a dial holds typed. *)
LEMMA CleanupControl ==
    ASSUME ControlOK, cleanup
    PROVE  got' \in [Procs -> [wds : Services, handle : Nat]] /\ \A p \in Procs : got'[p].wds # "open"
<1>1. ASSUME NEW p \in Procs
      PROVE  got'[p] \in [wds : Services, handle : Nat] /\ got'[p].wds # "open"
  <2>1. CASE got[p].wds = "open"
    BY <2>1 DEF cleanup, ControlOK, Services
  <2>2. CASE got[p].wds # "open"
    BY <2>2 DEF cleanup, ControlOK
  <2> QED BY <2>1, <2>2
<1> QED BY <1>1 DEF cleanup

(* Where the loop goes with an event. *)
LEMMA HandlerFacts ==
    ASSUME EventsOK, eventCh # <<>>
    PROVE  /\ Head(eventCh) \in Events /\ handler[Head(eventCh)] \in {"dial", "hangup", "select", "reset", "check"}
           /\ handler[Head(eventCh)] = "reset" <=> Head(eventCh) = "ModemReset"
<1>1. Head(eventCh) \in Events
  BY HeadTailProperties DEF EventsOK
<1> QED BY <1>1 DEF Events, handler

(* A start keeps the types. *)
LEMMA StartTypes ==
    ASSUME Types, NEW c \in Callers,
           (Calling(c, "StartCore") /\ StartCore(c)) \/ StartOpens(c) \/ StartLaunches(c)
    PROVE  Types'
<1>1. CASE Calling(c, "StartCore") /\ StartCore(c)
  <2>1. CoreOK' /\ CtxOK' /\ EventsOK' /\ TimingOK' /\ ResetOK' /\ GiveUpOK' /\ ModemOK'
    BY <1>1, FrameTypes DEF StartCore
  <2>2. ConnOK'  BY <1>1 DEF StartCore, Types, ConnOK, States, conn
  <2>3. ControlOK'  BY <1>1, ManagerAssumption DEF StartCore, Goto, Types, ControlOK, Labels, locals, Procs
  <2>4. BoundsOK'  BY <1>1, ManagerAssumption DEF StartCore, Types, BoundsOK, Calling
  <2> QED BY <2>1, <2>2, <2>3, <2>4 DEF Types
<1>2. CASE StartOpens(c)
  <2>1. CtxOK' /\ EventsOK' /\ ResetOK' /\ GiveUpOK'  BY <1>2, FrameTypes DEF StartOpens
  <2>2. ConnOK'  BY <1>2 DEF StartOpens, cleanup, Types, ConnOK, States, conn
  <2>3. CoreOK'
    <3>1. CASE client' = epoch /\ controlReady' = TRUE /\ UNCHANGED <<coreReady, wds>>
      BY <1>2, <3>1 DEF Types, CoreOK, ModemOK
    <3>2. CASE cleanup  BY <3>2 DEF cleanup, CoreOK, Services
    <3> QED BY <1>2, <3>1, <3>2 DEF StartOpens
  <2>4. TimingOK'  BY <1>2 DEF StartOpens, stopScheduledTimers, cleanup, Types, TimingOK, timing
  <2>5. ControlOK'
    <3>1. got' \in [Procs -> [wds : Services, handle : Nat]]
      BY <1>2, CleanupControl DEF StartOpens, Types, ControlOK
    <3> QED BY <1>2, <3>1, ManagerAssumption DEF StartOpens, Goto, Types, ControlOK, Labels, loopLocals, Procs
  <2>6. ModemOK'  BY <1>2, EmptySeq DEF StartOpens, cleanup, Types, ModemOK
  <2>7. BoundsOK'  BY <1>2, ManagerAssumption DEF StartOpens, Works, Fails, Types, BoundsOK
  <2> QED BY <2>1, <2>2, <2>3, <2>4, <2>5, <2>6, <2>7 DEF Types
<1>3. CASE StartLaunches(c)
  <2>1. ConnOK' /\ CoreOK' /\ EventsOK' /\ ResetOK' /\ GiveUpOK' /\ ModemOK' /\ BoundsOK'
    BY <1>3, FrameTypes DEF StartLaunches
  <2>2. CtxOK'  BY <1>3 DEF StartLaunches, Types, CtxOK
  <2>3. TimingOK'  BY <1>3 DEF StartLaunches, stopScheduledTimers, Types, TimingOK
  <2>4. ControlOK'  BY <1>3, ManagerAssumption DEF StartLaunches, Types, ControlOK, Labels, locals, Procs
  <2> QED BY <2>1, <2>2, <2>3, <2>4 DEF Types
<1> QED BY <1>1, <1>2, <1>3

(* The end of a start or of a recovery keeps the types. *)
LEMMA ReadyTypes ==
    ASSUME Types, NEW p \in Procs,
           MarkReady(p) \/ Settle(p)
    PROVE  Types'
<1>1. CASE MarkReady(p)
  <2>1. ConnOK' /\ CtxOK' /\ EventsOK' /\ TimingOK' /\ ResetOK' /\ ModemOK' /\ BoundsOK'
    BY <1>1, FrameTypes DEF MarkReady
  <2>2. CoreOK'  BY <1>1 DEF MarkReady, Types, CoreOK, core
  <2>3. GiveUpOK'  BY <1>1 DEF MarkReady, Types, GiveUpOK
  <2>4. ControlOK'  BY <1>1 DEF MarkReady, Goto, Types, ControlOK, Labels, locals
  <2> QED BY <2>1, <2>2, <2>3, <2>4 DEF Types
<1>2. CASE Settle(p)
  <2>1. CoreOK' /\ CtxOK' /\ EventsOK' /\ ResetOK' /\ GiveUpOK' /\ ModemOK' /\ BoundsOK'
    BY <1>2, FrameTypes DEF Settle
  <2>2. ConnOK'  BY <1>2 DEF Settle, Types, ConnOK, States, conn
  <2>3. TimingOK'  BY <1>2 DEF Settle, Arm, Types, TimingOK, Timers, timing
  <2>4. ControlOK'  BY <1>2 DEF Settle, Goto, Types, ControlOK, Labels, locals
  <2> QED BY <2>1, <2>2, <2>3, <2>4 DEF Types
<1> QED BY <1>1, <1>2

(* A dial keeps the types, up to the request for the call, *)
LEMMA DialTypes ==
    ASSUME Types, NEW p \in Procs,
           doConnect(p) \/ ensureDataPlane(p) \/ ServiceAllocated(p) \/ StoreService(p) \/ EnsureWDA(p)
    PROVE  Types'
<1>1. CASE doConnect(p)
  <2>1. CoreOK' /\ CtxOK' /\ EventsOK' /\ TimingOK' /\ ResetOK' /\ GiveUpOK' /\ ModemOK' /\ BoundsOK'
    BY <1>1, FrameTypes DEF doConnect
  <2>2. ConnOK'  BY <1>1 DEF doConnect, Types, ConnOK, States
  <2>3. ControlOK'  BY <1>1 DEF doConnect, Goto, Return, Types, ControlOK, Labels, locals
  <2> QED BY <2>1, <2>2, <2>3 DEF Types
<1>2. CASE ensureDataPlane(p)
  <2>1. ConnOK' /\ CoreOK' /\ CtxOK' /\ EventsOK' /\ TimingOK' /\ ResetOK' /\ GiveUpOK' /\ ModemOK' /\ BoundsOK'
    BY <1>2, FrameTypes DEF ensureDataPlane
  <2>2. got' \in {got, [got EXCEPT ![p].wds = "open"]}  BY <1>2 DEF ensureDataPlane
  <2>3. ControlOK'  BY <1>2, <2>2 DEF ensureDataPlane, Goto, Types, ControlOK, Labels, loopLocals, Services
  <2> QED BY <2>1, <2>3 DEF Types
<1>3. CASE ServiceAllocated(p)
  <2>1. ConnOK' /\ CoreOK' /\ CtxOK' /\ EventsOK' /\ TimingOK' /\ ResetOK' /\ GiveUpOK' /\ ModemOK'
    BY <1>3, FrameTypes DEF ServiceAllocated
  <2>2. got' \in {got, [got EXCEPT ![p] = NothingGot]}  BY <1>3 DEF ServiceAllocated
  <2>3. ControlOK'  BY <1>3, <2>2, NothingIsTyped DEF ServiceAllocated, Goto, Types, ControlOK, Labels, loopLocals
  <2>4. BoundsOK'  BY <1>3, ManagerAssumption DEF ServiceAllocated, Works, Fails, Types, BoundsOK
  <2> QED BY <2>1, <2>3, <2>4 DEF Types
<1>4. CASE StoreService(p)
  <2>1. ConnOK' /\ CtxOK' /\ EventsOK' /\ TimingOK' /\ ResetOK' /\ GiveUpOK' /\ ModemOK' /\ BoundsOK'
    BY <1>4, FrameTypes DEF StoreService
  <2>2. CoreOK'  BY <1>4 DEF StoreService, Types, CoreOK, ControlOK
  <2>3. ControlOK'  BY <1>4, NothingIsTyped DEF StoreService, Goto, Types, ControlOK, Labels, loopLocals
  <2> QED BY <2>1, <2>2, <2>3 DEF Types
<1>5. CASE EnsureWDA(p)
  <2>1. ConnOK' /\ CoreOK' /\ CtxOK' /\ EventsOK' /\ TimingOK' /\ ResetOK' /\ GiveUpOK' /\ ModemOK'
    BY <1>5, FrameTypes DEF EnsureWDA
  <2>2. ControlOK'  BY <1>5 DEF EnsureWDA, Goto, Types, ControlOK, Labels, locals
  <2>3. BoundsOK'  BY <1>5, ManagerAssumption DEF EnsureWDA, Works, Fails, Types, BoundsOK
  <2> QED BY <2>1, <2>2, <2>3 DEF Types
<1> QED BY <1>1, <1>2, <1>3, <1>4, <1>5

(* and from there. *)
LEMMA AnswerTypes ==
    ASSUME Types, ModemIsFinite, NEW p \in Procs,
           StartNetworkInterface(p) \/ CallAnswered(p) \/ StoreHandle(p) \/ MarkConnected(p) \/ handleDialFailure(p)
    PROVE  Types'
<1>1. CASE StartNetworkInterface(p)
  <2>1. ConnOK' /\ CoreOK' /\ CtxOK' /\ EventsOK' /\ TimingOK' /\ ResetOK' /\ GiveUpOK' /\ ModemOK' /\ BoundsOK'
    BY <1>1, FrameTypes DEF StartNetworkInterface
  <2>2. got' \in {got, [got EXCEPT ![p].wds = wds]}  BY <1>1 DEF StartNetworkInterface
  <2>3. ControlOK'
    BY <1>1, <2>2 DEF StartNetworkInterface, Goto, Types, ControlOK, CoreOK, Labels, loopLocals
  <2> QED BY <2>1, <2>3 DEF Types
<1>2. CASE CallAnswered(p)
  <2>1. ConnOK' /\ CoreOK' /\ CtxOK' /\ EventsOK' /\ TimingOK' /\ ResetOK' /\ GiveUpOK'
    BY <1>2, FrameTypes DEF CallAnswered
  <2>2. got' \in {[got EXCEPT ![p].handle = newHandle], [got EXCEPT ![p] = NothingGot]}  BY <1>2 DEF CallAnswered
  <2>3. ControlOK'
    BY <1>2, <2>2, NewHandle, NothingIsTyped DEF CallAnswered, Goto, Types, ControlOK, Labels, loopLocals
  <2>4. ModemOK'
    <3>1. calls' \subseteq Nat  BY <1>2, NewHandle DEF CallAnswered, Types, ModemOK
    <3> QED BY <1>2, <3>1 DEF CallAnswered, Types, ModemOK
  <2>5. BoundsOK'  BY <1>2, ManagerAssumption DEF CallAnswered, Works, Fails, Types, BoundsOK
  <2> QED BY <2>1, <2>3, <2>4, <2>5 DEF Types
<1>3. CASE StoreHandle(p)
  <2>1. CoreOK' /\ CtxOK' /\ EventsOK' /\ TimingOK' /\ ResetOK' /\ GiveUpOK' /\ ModemOK' /\ BoundsOK'
    BY <1>3, FrameTypes DEF StoreHandle
  <2>2. ConnOK'  BY <1>3 DEF StoreHandle, Types, ConnOK, ControlOK
  <2>3. ControlOK'  BY <1>3, NothingIsTyped DEF StoreHandle, Goto, Types, ControlOK, Labels, loopLocals
  <2> QED BY <2>1, <2>2, <2>3 DEF Types
<1>4. CASE MarkConnected(p)
  <2>1. CoreOK' /\ CtxOK' /\ EventsOK' /\ TimingOK' /\ ResetOK' /\ GiveUpOK' /\ ModemOK' /\ BoundsOK'
    BY <1>4, FrameTypes DEF MarkConnected
  <2>2. ConnOK'  BY <1>4 DEF MarkConnected, Types, ConnOK, States, conn
  <2>3. ControlOK'  BY <1>4 DEF MarkConnected, Goto, Return, Types, ControlOK, Labels, locals
  <2> QED BY <2>1, <2>2, <2>3 DEF Types
<1>5. CASE handleDialFailure(p)
  <2>1. CoreOK' /\ CtxOK' /\ EventsOK' /\ ResetOK' /\ GiveUpOK' /\ ModemOK' /\ BoundsOK'
    BY <1>5, FrameTypes DEF handleDialFailure
  <2>2. ConnOK'  BY <1>5 DEF handleDialFailure, Types, ConnOK, States, conn
  <2>3. TimingOK'  BY <1>5 DEF handleDialFailure, Arm, Types, TimingOK, Timers, timing
  <2>4. ControlOK'  BY <1>5 DEF handleDialFailure, Goto, Return, Types, ControlOK, Labels, locals
  <2> QED BY <2>1, <2>2, <2>3, <2>4 DEF Types
<1> QED BY <1>1, <1>2, <1>3, <1>4, <1>5

(* The end of a data call keeps the types. *)
LEMMA HangUpTypes ==
    ASSUME Types, NEW p \in Procs,
           HangUp(p) \/ ForgetCall(p) \/ MarkDisconnected(p)
    PROVE  Types'
<1>1. CASE HangUp(p)
  <2>1. ConnOK' /\ CoreOK' /\ CtxOK' /\ EventsOK' /\ TimingOK' /\ ResetOK' /\ GiveUpOK'  BY <1>1, FrameTypes DEF HangUp
  <2>2. ControlOK'  BY <1>1 DEF HangUp, Goto, Types, ControlOK, Labels, locals
  <2>3. ModemOK'  BY <1>1 DEF HangUp, Types, ModemOK
  <2>4. BoundsOK'  BY <1>1, ManagerAssumption DEF HangUp, Works, Fails, Types, BoundsOK
  <2> QED BY <2>1, <2>2, <2>3, <2>4 DEF Types
<1>2. CASE ForgetCall(p)
  <2>1. CoreOK' /\ CtxOK' /\ EventsOK' /\ TimingOK' /\ ResetOK' /\ GiveUpOK' /\ ModemOK' /\ BoundsOK'
    BY <1>2, FrameTypes DEF ForgetCall
  <2>2. ConnOK'  BY <1>2 DEF ForgetCall, Types, ConnOK
  <2>3. ControlOK'  BY <1>2 DEF ForgetCall, Goto, Types, ControlOK, Labels, locals
  <2> QED BY <2>1, <2>2, <2>3 DEF Types
<1>3. CASE MarkDisconnected(p)
  <2>1. CoreOK' /\ CtxOK' /\ EventsOK' /\ TimingOK' /\ ResetOK' /\ GiveUpOK' /\ ModemOK' /\ BoundsOK'
    BY <1>3, FrameTypes DEF MarkDisconnected
  <2>2. ConnOK'  BY <1>3 DEF MarkDisconnected, Types, ConnOK, States, conn
  <2>3. ControlOK'  BY <1>3 DEF MarkDisconnected, Goto, Types, ControlOK, Labels, locals
  <2> QED BY <2>1, <2>2, <2>3 DEF Types
<1> QED BY <1>1, <1>2, <1>3

(* A call of Connect or Disconnect keeps the types. *)
LEMMA ConnectTypes ==
    ASSUME Types, NEW c \in Callers,
           (Calling(c, "Connect") /\ Connect(c)) \/ (Calling(c, "Disconnect") /\ Disconnect(c))
    PROVE  Types'
<1>1. CASE Calling(c, "Connect") /\ Connect(c)
  <2>1. CoreOK' /\ CtxOK' /\ EventsOK' /\ TimingOK' /\ ResetOK' /\ GiveUpOK' /\ ModemOK'
    BY <1>1, FrameTypes DEF Connect
  <2>2. ConnOK'  BY <1>1 DEF Connect, Types, ConnOK
  <2>3. ControlOK'  BY <1>1, ManagerAssumption DEF Connect, Goto, Types, ControlOK, Labels, locals, Procs
  <2>4. BoundsOK'  BY <1>1, ManagerAssumption DEF Connect, Types, BoundsOK, Calling
  <2> QED BY <2>1, <2>2, <2>3, <2>4 DEF Types
<1>2. CASE Calling(c, "Disconnect") /\ Disconnect(c)
  <2>1. CoreOK' /\ CtxOK' /\ EventsOK' /\ TimingOK' /\ ResetOK' /\ GiveUpOK' /\ ModemOK'
    BY <1>2, FrameTypes DEF Disconnect
  <2>2. ConnOK'  BY <1>2 DEF Disconnect, Types, ConnOK
  <2>3. ControlOK'  BY <1>2, ManagerAssumption DEF Disconnect, Goto, Types, ControlOK, Labels, locals, Procs
  <2>4. BoundsOK'  BY <1>2, ManagerAssumption DEF Disconnect, Types, BoundsOK, Calling
  <2> QED BY <2>1, <2>2, <2>3, <2>4 DEF Types
<1> QED BY <1>1, <1>2

(* A Stop keeps the types. *)
LEMMA StopTypes ==
    ASSUME Types, NEW c \in Callers,
           (Calling(c, "Stop") /\ Stop(c)) \/ StopCancels(c) \/ StopJoins(c) \/ StopReturns(c)
    PROVE  Types'
<1>1. CASE Calling(c, "Stop") /\ Stop(c)
  <2>1. CoreOK' /\ CtxOK' /\ EventsOK' /\ TimingOK' /\ ResetOK' /\ GiveUpOK' /\ ModemOK'
    BY <1>1, FrameTypes DEF Stop
  <2>2. ConnOK'  BY <1>1 DEF Stop, Types, ConnOK, States, conn
  <2>3. ControlOK'  BY <1>1, ManagerAssumption DEF Stop, Goto, Types, ControlOK, Labels, locals, Procs
  <2>4. BoundsOK'  BY <1>1, ManagerAssumption DEF Stop, Types, BoundsOK, Calling
  <2> QED BY <2>1, <2>2, <2>3, <2>4 DEF Types
<1>2. CASE StopCancels(c)
  <2>1. ConnOK' /\ CoreOK' /\ ResetOK' /\ GiveUpOK' /\ ModemOK' /\ BoundsOK'
    BY <1>2, FrameTypes DEF StopCancels
  <2>2. CtxOK'  BY <1>2 DEF StopCancels, Types, CtxOK
  <2>3. EventsOK'  BY <1>2, ManagerAssumption DEF StopCancels, Room, Types, EventsOK, Events
  <2>4. TimingOK'  BY <1>2 DEF StopCancels, stopScheduledTimers, Types, TimingOK
  <2>5. ControlOK'  BY <1>2, ManagerAssumption DEF StopCancels, Goto, Types, ControlOK, Labels, locals, Procs
  <2> QED BY <2>1, <2>2, <2>3, <2>4, <2>5 DEF Types
<1>3. CASE StopJoins(c)
  <2>1. CtxOK' /\ EventsOK' /\ ResetOK' /\ GiveUpOK' /\ BoundsOK'  BY <1>3, FrameTypes DEF StopJoins
  <2>2. ConnOK'  BY <1>3 DEF StopJoins, cleanup, Types, ConnOK
  <2>3. CoreOK'  BY <1>3 DEF StopJoins, cleanup, Types, CoreOK, Services
  <2>4. TimingOK'  BY <1>3 DEF StopJoins, stopScheduledTimers, cleanup, Types, TimingOK
  <2>5. ControlOK'
    <3>1. got' \in [Procs -> [wds : Services, handle : Nat]]
      BY <1>3, CleanupControl DEF StopJoins, Types
    <3> QED BY <1>3, <3>1, ManagerAssumption DEF StopJoins, InHand, Goto, Types, ControlOK, Labels, loopLocals, Procs
  <2>6. ModemOK'  BY <1>3, EmptySeq DEF StopJoins, cleanup, Types, ModemOK
  <2> QED BY <2>1, <2>2, <2>3, <2>4, <2>5, <2>6 DEF Types
<1>4. CASE StopReturns(c)
  <2>1. CoreOK' /\ CtxOK' /\ EventsOK' /\ TimingOK' /\ ResetOK' /\ GiveUpOK' /\ ModemOK' /\ BoundsOK'
    BY <1>4, FrameTypes DEF StopReturns
  <2>2. ConnOK'  BY <1>4 DEF StopReturns, Types, ConnOK, States, conn
  <2>3. ControlOK'  BY <1>4, ManagerAssumption DEF StopReturns, Goto, Types, ControlOK, Labels, locals, Procs
  <2> QED BY <2>1, <2>2, <2>3 DEF Types
<1> QED BY <1>1, <1>2, <1>3, <1>4

(* The event loop keeps the types. *)
LEMMA LoopTypes ==
    ASSUME Types,
           LoopExits \/ LoopTicks \/ LoopSends \/ handleEvent
    PROVE  Types'
<1>1. CASE LoopExits
  <2>1. ConnOK' /\ CoreOK' /\ CtxOK' /\ EventsOK' /\ TimingOK' /\ ResetOK' /\ GiveUpOK' /\ ModemOK' /\ BoundsOK'
    BY <1>1, FrameTypes DEF LoopExits
  <2>2. ControlOK'  BY <1>1 DEF LoopExits, Goto, Types, ControlOK, Labels, locals
  <2> QED BY <2>1, <2>2 DEF Types
<1>2. CASE LoopTicks
  <2>1. ConnOK' /\ CoreOK' /\ CtxOK' /\ EventsOK' /\ TimingOK' /\ ResetOK' /\ GiveUpOK' /\ ModemOK'
    BY <1>2, FrameTypes DEF LoopTicks
  <2>2. ControlOK'  BY <1>2 DEF LoopTicks, Goto, Types, ControlOK, Labels, locals
  <2>3. BoundsOK'  BY <1>2, ManagerAssumption DEF LoopTicks, Types, BoundsOK
  <2> QED BY <2>1, <2>2, <2>3 DEF Types
<1>3. CASE LoopSends
  <2>1. ConnOK' /\ CoreOK' /\ CtxOK' /\ TimingOK' /\ ResetOK' /\ GiveUpOK' /\ ModemOK' /\ BoundsOK'
    BY <1>3, FrameTypes DEF LoopSends
  <2>2. EventsOK'  BY <1>3, ManagerAssumption DEF LoopSends, Send, Room, Types, EventsOK, Events
  <2>3. ControlOK'  BY <1>3 DEF LoopSends, Goto, Types, ControlOK, Labels, locals
  <2> QED BY <2>1, <2>2, <2>3 DEF Types
<1>4. CASE handleEvent
  <2>1. ConnOK' /\ CoreOK' /\ CtxOK' /\ ResetOK' /\ GiveUpOK' /\ ModemOK' /\ BoundsOK'
    BY <1>4, FrameTypes DEF handleEvent
  <2>2. EventsOK'  BY <1>4, ManagerAssumption DEF handleEvent, Types, EventsOK, Events
  <2>3. TimingOK'  BY <1>4 DEF handleEvent, Types, TimingOK, Timers, timing
  <2>4. ControlOK'
    <3>1. handler[Head(eventCh)] \in Labels  BY <1>4, HandlerFacts DEF handleEvent, Types, Labels
    <3> QED BY <1>4, <3>1 DEF handleEvent, Goto, Types, ControlOK
  <2> QED BY <2>1, <2>2, <2>3, <2>4 DEF Types
<1> QED BY <1>1, <1>2, <1>3, <1>4

(* A status check keeps the types. *)
LEMMA CheckTypes ==
    ASSUME Types,
           CheckBegins \/ CheckQueries \/ CheckJudges \/ CheckRedials
    PROVE  Types'
<1>1. CASE CheckBegins
  <2>1. ConnOK' /\ CoreOK' /\ CtxOK' /\ EventsOK' /\ TimingOK' /\ ResetOK' /\ GiveUpOK' /\ ModemOK' /\ BoundsOK'
    BY <1>1, FrameTypes DEF CheckBegins
  <2>2. ControlOK'
    <3>1. CASE UNCHANGED seen  BY <1>1, <3>1 DEF CheckBegins, Goto, Types, ControlOK, Labels
    <3>2. CASE seen' = [seen EXCEPT !.state = state, !.desired = desired]
      <4>1. seen' \in [state : States, desired : BOOLEAN, up : BOOLEAN]
        BY <3>2 DEF Types, ControlOK, ConnOK
      <4> QED BY <1>1, <4>1 DEF CheckBegins, Goto, Types, ControlOK, Labels
    <3> QED BY <1>1, <3>1, <3>2 DEF CheckBegins
  <2> QED BY <2>1, <2>2 DEF Types
<1>2. CASE CheckQueries
  <2>1. ConnOK' /\ CoreOK' /\ CtxOK' /\ EventsOK' /\ TimingOK' /\ ResetOK' /\ GiveUpOK' /\ ModemOK'
    BY <1>2, FrameTypes DEF CheckQueries
  <2>2. ControlOK'  BY <1>2 DEF CheckQueries, Goto, Types, ControlOK, Labels
  <2>3. BoundsOK'  BY <1>2, ManagerAssumption DEF CheckQueries, Works, Fails, Types, BoundsOK
  <2> QED BY <2>1, <2>2, <2>3 DEF Types
<1>3. CASE CheckJudges
  <2>1. CoreOK' /\ CtxOK' /\ EventsOK' /\ TimingOK' /\ ResetOK' /\ GiveUpOK' /\ ModemOK'
    BY <1>3, FrameTypes DEF CheckJudges
  <2>2. ConnOK'  BY <1>3 DEF CheckJudges, Types, ConnOK, States, conn
  <2>3. ControlOK'  BY <1>3 DEF CheckJudges, Goto, Types, ControlOK, Labels
  <2>4. BoundsOK'  BY <1>3, ManagerAssumption DEF CheckJudges, Works, Fails, Types, BoundsOK
  <2> QED BY <2>1, <2>2, <2>3, <2>4 DEF Types
<1>4. CASE CheckRedials
  <2>1. ConnOK' /\ CoreOK' /\ CtxOK' /\ EventsOK' /\ TimingOK' /\ ResetOK' /\ GiveUpOK' /\ ModemOK' /\ BoundsOK'
    BY <1>4, FrameTypes DEF CheckRedials
  <2>2. ControlOK'  BY <1>4 DEF CheckRedials, Goto, Types, ControlOK, Labels, locals
  <2> QED BY <2>1, <2>2 DEF Types
<1> QED BY <1>1, <1>2, <1>3, <1>4

(* A recovery keeps the types. *)
LEMMA RecoveryTypes ==
    ASSUME Types,
           handleModemResetEvent \/ RecoverCleans \/ RecoverReopens \/ waitResetQuietWindow \/
           ResetHandled \/ Requeue
    PROVE  Types'
<1>1. CASE handleModemResetEvent
  <2>1. ConnOK' /\ CoreOK' /\ CtxOK' /\ EventsOK' /\ TimingOK' /\ ModemOK' /\ BoundsOK'
    BY <1>1, FrameTypes DEF handleModemResetEvent
  <2>2. ResetOK'  BY <1>1 DEF handleModemResetEvent, Types, ResetOK, reset
  <2>3. GiveUpOK'  BY <1>1 DEF handleModemResetEvent, Types, GiveUpOK
  <2>4. ControlOK'
    <3>1. CASE UNCHANGED loopLocals  BY <1>1, <3>1 DEF handleModemResetEvent, Goto, Types, ControlOK, Labels, loopLocals
    <3>2. CASE after' = "clean" /\ seen' = [seen EXCEPT !.desired = desired]
      <4>1. seen' \in [state : States, desired : BOOLEAN, up : BOOLEAN]
        BY <3>2 DEF Types, ControlOK, ConnOK
      <4> QED BY <1>1, <3>2, <4>1 DEF handleModemResetEvent, Goto, Types, ControlOK, Labels
    <3> QED BY <1>1, <3>1, <3>2 DEF handleModemResetEvent
  <2> QED BY <2>1, <2>2, <2>3, <2>4 DEF Types
<1>2. CASE RecoverCleans
  <2>1. CtxOK' /\ EventsOK' /\ ResetOK' /\ GiveUpOK' /\ BoundsOK'  BY <1>2, FrameTypes DEF RecoverCleans
  <2>2. ConnOK'  BY <1>2 DEF RecoverCleans, cleanup, Types, ConnOK
  <2>3. CoreOK'  BY <1>2 DEF RecoverCleans, cleanup, Types, CoreOK, Services
  <2>4. TimingOK'  BY <1>2 DEF RecoverCleans, stopScheduledTimers, cleanup, Types, TimingOK
  <2>5. ControlOK'
    <3>1. got' \in [Procs -> [wds : Services, handle : Nat]]
      BY <1>2, CleanupControl DEF RecoverCleans, Types
    <3> QED BY <1>2, <3>1 DEF RecoverCleans, Goto, Types, ControlOK, Labels, loopLocals
  <2>6. ModemOK'  BY <1>2, EmptySeq DEF RecoverCleans, cleanup, Types, ModemOK
  <2> QED BY <2>1, <2>2, <2>3, <2>4, <2>5, <2>6 DEF Types
<1>3. CASE RecoverReopens
  <2>1. CtxOK' /\ EventsOK' /\ ResetOK'  BY <1>3, FrameTypes DEF RecoverReopens
  <2>2. ConnOK'  BY <1>3 DEF RecoverReopens, Types, ConnOK, States, conn
  <2>3. CoreOK'
    <3>1. coreReady' = FALSE /\ wds' = wds  BY <1>3 DEF RecoverReopens
    <3>2. client' \in Nat  BY <1>3 DEF RecoverReopens, Types, CoreOK, ModemOK
    <3>3. controlReady' \in BOOLEAN  BY <1>3 DEF RecoverReopens
    <3> QED BY <3>1, <3>2, <3>3 DEF Types, CoreOK
  <2>4. TimingOK'  BY <1>3 DEF RecoverReopens, Arm, scheduleRecoverRetry, Types, TimingOK, Timers, timing
  <2>5. GiveUpOK'  BY <1>3 DEF RecoverReopens, scheduleRecoverRetry, Types, GiveUpOK, giveup
  <2>6. ControlOK'  BY <1>3 DEF RecoverReopens, Goto, Types, ControlOK, Labels, locals
  <2>7. ModemOK'  BY <1>3, EmptySeq DEF RecoverReopens, Types, ModemOK
  <2>8. BoundsOK'  BY <1>3, ManagerAssumption DEF RecoverReopens, Works, Fails, Types, BoundsOK
  <2> QED BY <2>1, <2>2, <2>3, <2>4, <2>5, <2>6, <2>7, <2>8 DEF Types
<1>4. CASE waitResetQuietWindow
  <2>1. ConnOK' /\ CtxOK' /\ EventsOK' /\ ResetOK' /\ ModemOK' /\ BoundsOK'
    BY <1>4, FrameTypes DEF waitResetQuietWindow
  <2>2. CoreOK'  BY <1>4 DEF waitResetQuietWindow, Types, CoreOK, core
  <2>3. TimingOK'  BY <1>4 DEF waitResetQuietWindow, Arm, scheduleRecoverRetry, Types, TimingOK, Timers, timing
  <2>4. GiveUpOK'  BY <1>4 DEF waitResetQuietWindow, scheduleRecoverRetry, Types, GiveUpOK, giveup
  <2>5. ControlOK'  BY <1>4 DEF waitResetQuietWindow, Goto, Types, ControlOK, Labels, locals
  <2> QED BY <2>1, <2>2, <2>3, <2>4, <2>5 DEF Types
<1>5. CASE ResetHandled
  <2>1. ConnOK' /\ CoreOK' /\ CtxOK' /\ EventsOK' /\ TimingOK' /\ GiveUpOK' /\ ModemOK' /\ BoundsOK'
    BY <1>5, FrameTypes DEF ResetHandled
  <2>2. ResetOK'  BY <1>5 DEF ResetHandled, Types, ResetOK
  <2>3. ControlOK'  BY <1>5 DEF ResetHandled, Goto, Types, ControlOK, Labels, locals
  <2> QED BY <2>1, <2>2, <2>3 DEF Types
<1>6. CASE Requeue
  <2>1. ConnOK' /\ CoreOK' /\ CtxOK' /\ EventsOK' /\ TimingOK' /\ GiveUpOK' /\ ModemOK' /\ BoundsOK'
    BY <1>6, FrameTypes DEF Requeue
  <2>2. ResetOK'  BY <1>6 DEF Requeue, enqueueModemResetEvent, Types, ResetOK, Senders
  <2>3. ControlOK'  BY <1>6 DEF Requeue, Goto, Types, ControlOK, Labels, locals
  <2> QED BY <2>1, <2>2, <2>3 DEF Types
<1> QED BY <1>1, <1>2, <1>3, <1>4, <1>5, <1>6

(* A timer keeps the types. *)
LEMMA TimerTypes ==
    ASSUME Types, NEW k \in Timers,
           TimerFires(k) \/ StaleTimer(k)
    PROVE  Types'
<1>1. CASE TimerFires(k)
  <2>1. ConnOK' /\ CoreOK' /\ CtxOK' /\ EventsOK' /\ ResetOK' /\ GiveUpOK' /\ ControlOK' /\ ModemOK' /\ BoundsOK'
    BY <1>1, FrameTypes DEF TimerFires
  <2>2. TimingOK'  BY <1>1 DEF TimerFires, Types, TimingOK, Timers
  <2> QED BY <2>1, <2>2 DEF Types
<1>2. CASE StaleTimer(k)
  <2>1. ConnOK' /\ CoreOK' /\ CtxOK' /\ EventsOK' /\ ResetOK' /\ GiveUpOK' /\ ControlOK' /\ ModemOK' /\ BoundsOK'
    BY <1>2, FrameTypes DEF StaleTimer
  <2>2. TimingOK'  BY <1>2 DEF StaleTimer, Types, TimingOK, Timers
  <2> QED BY <2>1, <2>2 DEF Types
<1> QED BY <1>1, <1>2

(* A callback of a timer keeps the types. *)
LEMMA CallbackTypes ==
    ASSUME Types,
           ReconnectTimer \/ CheckTimer \/ RetryTimer \/ DeferredTimer \/ DeferredRetryTimer \/
           DedupWindowCloses
    PROVE  Types'
<1>1. CASE ReconnectTimer
  <2>1. ConnOK' /\ CoreOK' /\ CtxOK' /\ ResetOK' /\ GiveUpOK' /\ ControlOK' /\ ModemOK' /\ BoundsOK'
    BY <1>1, FrameTypes DEF ReconnectTimer
  <2>2. EventsOK'  BY <1>1, ManagerAssumption DEF ReconnectTimer, Send, Room, Types, EventsOK, Events
  <2>3. TimingOK'  BY <1>1 DEF ReconnectTimer, Runs, Types, TimingOK
  <2> QED BY <2>1, <2>2, <2>3 DEF Types
<1>2. CASE CheckTimer
  <2>1. ConnOK' /\ CoreOK' /\ CtxOK' /\ ResetOK' /\ GiveUpOK' /\ ControlOK' /\ ModemOK' /\ BoundsOK'
    BY <1>2, FrameTypes DEF CheckTimer
  <2>2. EventsOK'  BY <1>2, ManagerAssumption DEF CheckTimer, Room, Types, EventsOK, Events
  <2>3. TimingOK'  BY <1>2 DEF CheckTimer, Runs, Types, TimingOK
  <2> QED BY <2>1, <2>2, <2>3 DEF Types
<1>3. CASE RetryTimer
  <2>1. ConnOK' /\ CoreOK' /\ CtxOK' /\ EventsOK' /\ GiveUpOK' /\ ControlOK' /\ ModemOK' /\ BoundsOK'
    BY <1>3, FrameTypes DEF RetryTimer
  <2>2. TimingOK'  BY <1>3 DEF RetryTimer, Runs, Types, TimingOK
  <2>3. ResetOK'  BY <1>3 DEF RetryTimer, enqueueModemResetEvent, Types, ResetOK, Senders
  <2> QED BY <2>1, <2>2, <2>3 DEF Types
<1>4. CASE DeferredTimer
  <2>1. ConnOK' /\ CoreOK' /\ CtxOK' /\ EventsOK' /\ GiveUpOK' /\ ControlOK' /\ ModemOK' /\ BoundsOK'
    BY <1>4, FrameTypes DEF DeferredTimer
  <2>2. TimingOK'  BY <1>4 DEF DeferredTimer, Runs, Types, TimingOK
  <2>3. ResetOK'  BY <1>4 DEF DeferredTimer, Types, ResetOK, Senders
  <2> QED BY <2>1, <2>2, <2>3 DEF Types
<1>5. CASE DeferredRetryTimer
  <2>1. ConnOK' /\ CoreOK' /\ CtxOK' /\ EventsOK' /\ GiveUpOK' /\ ControlOK' /\ ModemOK' /\ BoundsOK'
    BY <1>5, FrameTypes DEF DeferredRetryTimer
  <2>2. TimingOK'  BY <1>5 DEF DeferredRetryTimer, Runs, Types, TimingOK
  <2>3. ResetOK'  BY <1>5 DEF DeferredRetryTimer, Types, ResetOK, Senders
  <2> QED BY <2>1, <2>2, <2>3 DEF Types
<1>6. CASE DedupWindowCloses
  <2>1. ConnOK' /\ CoreOK' /\ CtxOK' /\ EventsOK' /\ TimingOK' /\ GiveUpOK' /\ ControlOK' /\ ModemOK' /\ BoundsOK'
    BY <1>6, FrameTypes DEF DedupWindowCloses
  <2>2. ResetOK'  BY <1>6 DEF DedupWindowCloses, Types, ResetOK
  <2> QED BY <2>1, <2>2 DEF Types
<1> QED BY <1>1, <1>2, <1>3, <1>4, <1>5, <1>6

(* A reset that is queued keeps the types. *)
LEMMA QueueTypes ==
    ASSUME Types, NEW g \in Senders,
           QueueReset(g) \/ QueueDeferred
    PROVE  Types'
<1>1. CASE QueueReset(g)
  <2>1. ConnOK' /\ CoreOK' /\ CtxOK' /\ GiveUpOK' /\ ControlOK' /\ ModemOK' /\ BoundsOK'
    BY <1>1, FrameTypes DEF QueueReset
  <2>2. EventsOK'  BY <1>1, ManagerAssumption DEF QueueReset, Send, Room, Types, EventsOK, Events
  <2>3. TimingOK'  BY <1>1 DEF QueueReset, Arm, Types, TimingOK, Timers, timing
  <2>4. ResetOK'  BY <1>1 DEF QueueReset, Types, ResetOK, Senders
  <2> QED BY <2>1, <2>2, <2>3, <2>4 DEF Types
<1>2. CASE QueueDeferred
  <2>1. ConnOK' /\ CoreOK' /\ CtxOK' /\ GiveUpOK' /\ ControlOK' /\ ModemOK' /\ BoundsOK'
    BY <1>2, FrameTypes DEF QueueDeferred
  <2>2. EventsOK'  BY <1>2, ManagerAssumption DEF QueueDeferred, Send, Room, Types, EventsOK, Events
  <2>3. TimingOK'  BY <1>2 DEF QueueDeferred, Arm, Types, TimingOK, Timers, timing
  <2>4. ResetOK'  BY <1>2 DEF QueueDeferred, Types, ResetOK, Senders
  <2> QED BY <2>1, <2>2, <2>3, <2>4 DEF Types
<1> QED BY <1>1, <1>2

(* The indication handler keeps the types. *)
LEMMA IndicationTypes ==
    ASSUME Types,
           IndicationArrives \/ IndicationSends \/ IndicationExits
    PROVE  Types'
<1>1. CASE IndicationArrives
  <2>1. ConnOK' /\ CoreOK' /\ CtxOK' /\ EventsOK' /\ TimingOK' /\ GiveUpOK' /\ BoundsOK'
    BY <1>1, FrameTypes DEF IndicationArrives
  <2>2. ResetOK'  BY <1>1 DEF IndicationArrives, enqueueModemResetEvent, Types, ResetOK, Senders, reset
  <2>3. ControlOK'  BY <1>1 DEF IndicationArrives, Types, ControlOK, Labels, locals
  <2>4. ModemOK'  BY <1>1, EmptySeq DEF IndicationArrives, Types, ModemOK
  <2> QED BY <2>1, <2>2, <2>3, <2>4 DEF Types
<1>2. CASE IndicationSends
  <2>1. ConnOK' /\ CoreOK' /\ CtxOK' /\ TimingOK' /\ ResetOK' /\ GiveUpOK' /\ ModemOK' /\ BoundsOK'
    BY <1>2, FrameTypes DEF IndicationSends
  <2>2. EventsOK'  BY <1>2, ManagerAssumption DEF IndicationSends, Send, Room, Types, EventsOK, Events
  <2>3. ControlOK'  BY <1>2 DEF IndicationSends, Types, ControlOK, Labels, locals
  <2> QED BY <2>1, <2>2, <2>3 DEF Types
<1>3. CASE IndicationExits
  <2>1. ConnOK' /\ CoreOK' /\ CtxOK' /\ EventsOK' /\ TimingOK' /\ ResetOK' /\ GiveUpOK' /\ ModemOK' /\ BoundsOK'
    BY <1>3, FrameTypes DEF IndicationExits
  <2>2. ControlOK'  BY <1>3 DEF IndicationExits, Types, ControlOK, Labels, locals
  <2> QED BY <2>1, <2>2 DEF Types
<1> QED BY <1>1, <1>2, <1>3

(* The modem, the network and the services keep the types. *)
LEMMA ModemTypes ==
    ASSUME Types,
           ModemResets \/ NetworkDropsCalls \/ StatusIndication \/ RequestCoreRecovery
    PROVE  Types'
<1>1. CASE ModemResets
  <2>1. ConnOK' /\ CoreOK' /\ CtxOK' /\ EventsOK' /\ TimingOK' /\ ResetOK' /\ GiveUpOK' /\ ControlOK' /\ BoundsOK'
    BY <1>1, FrameTypes DEF ModemResets
  <2>2. ModemOK'  BY <1>1 DEF ModemResets, Notify, Types, ModemOK
  <2> QED BY <2>1, <2>2 DEF Types
<1>2. CASE NetworkDropsCalls
  <2>1. ConnOK' /\ CoreOK' /\ CtxOK' /\ EventsOK' /\ TimingOK' /\ ResetOK' /\ GiveUpOK' /\ ControlOK'
    BY <1>2, FrameTypes DEF NetworkDropsCalls
  <2>2. ModemOK'  BY <1>2 DEF NetworkDropsCalls, Types, ModemOK
  <2>3. BoundsOK'  BY <1>2, ManagerAssumption DEF NetworkDropsCalls, Types, BoundsOK
  <2> QED BY <2>1, <2>2, <2>3 DEF Types
<1>3. CASE StatusIndication
  <2>1. ConnOK' /\ CoreOK' /\ CtxOK' /\ EventsOK' /\ TimingOK' /\ ResetOK' /\ GiveUpOK' /\ ControlOK'
    BY <1>3, FrameTypes DEF StatusIndication
  <2>2. ModemOK'  BY <1>3 DEF StatusIndication, Notify, Types, ModemOK
  <2>3. BoundsOK'  BY <1>3, ManagerAssumption DEF StatusIndication, Types, BoundsOK
  <2> QED BY <2>1, <2>2, <2>3 DEF Types
<1>4. CASE RequestCoreRecovery
  <2>1. ConnOK' /\ CoreOK' /\ CtxOK' /\ EventsOK' /\ TimingOK' /\ GiveUpOK' /\ ControlOK' /\ ModemOK'
    BY <1>4, FrameTypes DEF RequestCoreRecovery
  <2>2. ResetOK'  BY <1>4 DEF RequestCoreRecovery, enqueueModemResetEvent, Types, ResetOK, Senders
  <2>3. BoundsOK'  BY <1>4, ManagerAssumption DEF RequestCoreRecovery, Types, BoundsOK
  <2> QED BY <2>1, <2>2, <2>3 DEF Types
<1> QED BY <1>1, <1>2, <1>3, <1>4

(* Every step keeps the types. *)
LEMMA NextTypes == ASSUME Types, ModemIsFinite, [Next]_vars PROVE Types'
<1>1. CASE UNCHANGED vars
  <2>1. UNCHANGED <<conn, core, ctx, eventCh, timing, reset, giveup, pc, locals, ind, modem, bounds>>
    BY <1>1 DEF vars
  <2> QED BY <2>1, FrameTypes DEF Types
<1>2. ASSUME NEW p \in Procs, Procedure(p) PROVE Types'
  BY <1>2, ReadyTypes, DialTypes, AnswerTypes, HangUpTypes DEF Procedure
<1>3. ASSUME NEW c \in Callers, CallerNext(c) \/ CallNext(c) PROVE Types'
  BY <1>2, <1>3, StartTypes, ConnectTypes, StopTypes DEF CallerNext, CallNext, Procs
<1>4. CASE LoopNext \/ LoopTicks
  BY <1>2, <1>4, LoopTypes, CheckTypes, RecoveryTypes DEF LoopNext, Procs
<1>5. CASE TimerNext \/ SendNext
  BY <1>5, TimerTypes, CallbackTypes, QueueTypes DEF TimerNext, SendNext, Senders
<1>6. CASE IndicationNext \/ ModemNext
  BY <1>6, IndicationTypes, ModemTypes DEF IndicationNext, ModemNext
<1> QED BY <1>1, <1>3, <1>4, <1>5, <1>6 DEF Next

(* The modem carries finitely many calls, always. *)
LEMMA NextFinite == ASSUME Types, ModemIsFinite, [Next]_vars PROVE ModemIsFinite'
<1>1. CASE UNCHANGED <<epoch, calls>>  BY <1>1 DEF ModemIsFinite
<1>2. ASSUME UNCHANGED epoch, NEW x, calls' \subseteq calls \cup {x} PROVE ModemIsFinite'
  <2>1. IsFiniteSet(calls \cup {x})  BY FS_AddElement DEF ModemIsFinite
  <2>2. IsFiniteSet(calls')  BY <1>2, <2>1, FS_Subset
  <2> QED BY <1>2, <2>2 DEF ModemIsFinite
<1>3. UNCHANGED epoch /\ calls' \subseteq calls => ModemIsFinite'
  BY <1>2
<1>4. ASSUME NEW p \in Procs, Procedure(p) PROVE ModemIsFinite'
  <2>1. UNCHANGED epoch /\ calls' \subseteq calls \cup {newHandle}
    BY <1>4 DEF Procedure, MarkReady, Settle, doConnect, ensureDataPlane, ServiceAllocated, StoreService, EnsureWDA,
                StartNetworkInterface, CallAnswered, StoreHandle, MarkConnected, handleDialFailure, HangUp, ForgetCall,
                MarkDisconnected, modem
  <2> QED BY <1>2, <2>1
<1>5. CASE \E c \in Callers : StartOpens(c) \/ StopJoins(c)
  BY <1>3, <1>5 DEF StartOpens, StopJoins, cleanup
<1>6. CASE \E c \in Callers : StartLaunches(c) \/ StopCancels(c) \/ StopReturns(c) \/ CallNext(c)
  BY <1>1, <1>6 DEF StartLaunches, StopCancels, StopReturns, CallNext, StartCore, Connect, Disconnect, Stop, modem
<1>7. CASE RecoverCleans \/ RecoverReopens
  BY <1>3, <1>7 DEF RecoverCleans, RecoverReopens, cleanup
<1>8. CASE LoopExits \/ LoopTicks \/ LoopSends \/ handleEvent \/ CheckBegins \/ CheckQueries \/ CheckJudges
           \/ CheckRedials \/ handleModemResetEvent \/ waitResetQuietWindow \/ ResetHandled \/ Requeue
  BY <1>1, <1>8 DEF LoopExits, LoopTicks, LoopSends, handleEvent, CheckBegins, CheckQueries, CheckJudges,
                    CheckRedials, handleModemResetEvent, waitResetQuietWindow, ResetHandled, Requeue, modem
<1>9. CASE TimerNext \/ SendNext
  BY <1>1, <1>9 DEF TimerNext, TimerFires, StaleTimer, ReconnectTimer, CheckTimer, RetryTimer, DeferredTimer,
                    DeferredRetryTimer, DedupWindowCloses, SendNext, QueueReset, QueueDeferred, modem
<1>10. CASE IndicationNext \/ StatusIndication \/ RequestCoreRecovery \/ UNCHANGED vars
  BY <1>1, <1>10 DEF IndicationNext, IndicationArrives, IndicationSends, IndicationExits, StatusIndication,
                     RequestCoreRecovery, vars, modem
<1>11. CASE ModemResets \/ NetworkDropsCalls
  <2>1. calls' = {} /\ epoch' # 0
    BY <1>11 DEF ModemResets, NetworkDropsCalls, Types, ModemOK, ModemIsFinite
  <2> QED BY <2>1, FS_EmptySet DEF ModemIsFinite
<1> QED BY <1>4, <1>5, <1>6, <1>7, <1>8, <1>9, <1>10, <1>11
        DEF Next, CallerNext, LoopNext, ModemNext, Procs

-----------------------------------------------------------------------------
(* Who moves whom.                                                          *)

CallerActions(c) == CallerNext(c) \/ CallNext(c)
LoopActions == LoopNext \/ LoopTicks
OtherActions == TimerNext \/ SendNext \/ IndicationNext \/ ModemNext \/ UNCHANGED vars

(* A goroutine in one of the shared procedures stays out of starts and stops, *)
(* but for the end of a start.                                                *)
LEMMA ProcedureStep ==
    ASSUME Types, NEW p \in Procs, Procedure(p)
    PROVE  /\ pc' = [pc EXCEPT ![p] = pc'[p]] /\ UNCHANGED <<ctx, ind, client, epoch, inbox>>
           /\ pc[p] \notin {"off", "select", "idle", "reset", "recovered", "clean", "reopen", "quiet", "requeue"} \cup Stopping
           /\ pc'[p] \notin {"off", "open", "launch", "ready", "reset", "reopen", "quiet", "requeue"} \cup Stopping
           /\ pc'[p] = "settle" <=> pc[p] = "ready"
           /\ pc[p] \in Starting <=> pc[p] \in {"ready", "settle"}
<1>1. CASE MarkReady(p) \/ Settle(p)
  BY <1>1 DEF MarkReady, Settle, Goto, modem, core, Starting, Stopping, Types, ControlOK, Procs
<1>2. CASE doConnect(p) \/ ensureDataPlane(p) \/ StartNetworkInterface(p) \/ MarkConnected(p) \/ handleDialFailure(p)
  BY <1>2 DEF doConnect, ensureDataPlane, StartNetworkInterface, MarkConnected, handleDialFailure, Goto, Return,
              modem, core, Starting, Stopping, Types, ControlOK, Procs
<1>3. CASE ServiceAllocated(p) \/ StoreService(p) \/ EnsureWDA(p)
  BY <1>3 DEF ServiceAllocated, StoreService, EnsureWDA, Goto, modem, core, Starting, Stopping, Types, ControlOK, Procs
<1>4. CASE CallAnswered(p) \/ StoreHandle(p)
  BY <1>4 DEF CallAnswered, StoreHandle, Goto, modem, core, Starting, Stopping, Types, ControlOK, Procs
<1>5. CASE HangUp(p) \/ ForgetCall(p) \/ MarkDisconnected(p)
  BY <1>5 DEF HangUp, ForgetCall, MarkDisconnected, Goto, modem, core, Starting, Stopping, Types, ControlOK, Procs
<1> QED BY <1>1, <1>2, <1>3, <1>4, <1>5 DEF Procedure

(* A caller moves itself, and a start the loop; it begins to start or to stop *)
(* when it is one of its calls.                                               *)
LEMMA CallerStep ==
    ASSUME Types, NEW c \in Callers, CallerActions(c)
    PROVE  /\ \A p \in Procs \ {c} : pc'[p] = pc[p] \/ (p = Loop /\ StartLaunches(c))
           /\ pc'[c] \in Starting => pc[c] \in Starting \/ "StartCore" \in Calls[c]
           /\ pc'[c] \in Stopping => pc[c] \in Stopping \/ "Stop" \in Calls[c]
           /\ pc[c] \in Stopping => pc'[c] \in Stopping
           /\ pc'[c] \in {"open", "launch"} => pc[c] \in {"open", "launch"} \/ ctx = "none"
           /\ pc'[c] \in {"join", "unstop", "stopped"} =>
                pc[c] \in {"join", "unstop", "stopped"} \/ StopCancels(c)
           /\ pc'[c] \in {"unstop", "stopped"} => pc[c] \in {"unstop", "stopped"} \/ StopJoins(c)
<1>1. CASE Procedure(c)
  BY <1>1, ProcedureStep, ManagerAssumption DEF Starting, Stopping, Types, ControlOK, Procs
<1>2. CASE StartOpens(c)
  BY <1>2, ManagerAssumption DEF StartOpens, Goto, Starting, Stopping, Types, ControlOK, Procs
<1>3. CASE StartLaunches(c)
  BY <1>3, ManagerAssumption DEF StartLaunches, Starting, Stopping, Types, ControlOK, Procs
<1>4. CASE StopCancels(c)
  BY <1>4, ManagerAssumption DEF StopCancels, Goto, Starting, Stopping, Types, ControlOK, Procs
<1>5. CASE StopJoins(c) \/ StopReturns(c)
  BY <1>5, ManagerAssumption DEF StopJoins, StopReturns, Goto, Starting, Stopping, Types, ControlOK, Procs
<1>6. CASE CallNext(c)
  <2>1. CASE Calling(c, "StartCore") /\ StartCore(c)
    BY <2>1, ManagerAssumption DEF Calling, StartCore, Goto, Starting, Stopping, Types, ControlOK, Procs
  <2>2. CASE Connect(c) \/ Disconnect(c)
    BY <2>2, ManagerAssumption DEF Connect, Disconnect, Goto, Starting, Stopping, Types, ControlOK, Procs
  <2>3. CASE Calling(c, "Stop") /\ Stop(c)
    BY <2>3, ManagerAssumption DEF Calling, Stop, Goto, Starting, Stopping, Types, ControlOK, Procs
  <2> QED BY <1>6, <2>1, <2>2, <2>3 DEF CallNext
<1> QED BY <1>1, <1>2, <1>3, <1>4, <1>5, <1>6 DEF CallerActions, CallerNext

(* What a caller does to the context and the indication handler. *)
LEMMA CallerThreads ==
    ASSUME Types, NEW c \in Callers, CallerActions(c)
    PROVE  \/ StartLaunches(c) /\ ctx' = "live" /\ ind' = "reading"
           \/ StopCancels(c) /\ ctx' = (IF ctx = "live" THEN "cancelled" ELSE ctx) /\ UNCHANGED ind
           \/ UNCHANGED <<ctx, ind>>
<1>1. CASE Procedure(c)
  BY <1>1, ProcedureStep DEF Procs
<1>2. CASE ~Procedure(c)
  BY <1>2 DEF CallerActions, CallerNext, CallNext, StartOpens, StartLaunches, StopCancels, StopJoins, StopReturns,
              StartCore, Connect, Disconnect, Stop
<1> QED BY <1>1, <1>2

(* The event loop moves itself, until it has ended. *)
LEMMA LoopStep ==
    ASSUME Types, LoopActions
    PROVE  pc' = [pc EXCEPT ![Loop] = pc'[Loop]] /\ UNCHANGED <<ctx, ind>> /\ pc[Loop] # "off"
<1>1. CASE Procedure(Loop)
  BY <1>1, ProcedureStep DEF Procs
<1>2. CASE LoopExits \/ LoopTicks \/ LoopSends \/ handleEvent
  BY <1>2 DEF LoopExits, LoopTicks, LoopSends, handleEvent, AtSelect, Goto, Types, ControlOK, Procs
<1>3. CASE CheckBegins \/ CheckQueries \/ CheckJudges \/ CheckRedials
  BY <1>3 DEF CheckBegins, CheckQueries, CheckJudges, CheckRedials, Goto, Types, ControlOK, Procs
<1>4. CASE handleModemResetEvent \/ RecoverCleans \/ RecoverReopens \/ waitResetQuietWindow \/ ResetHandled \/ Requeue
  BY <1>4 DEF handleModemResetEvent, RecoverCleans, RecoverReopens, waitResetQuietWindow, ResetHandled, Requeue,
              Goto, Types, ControlOK, Procs
<1> QED BY <1>1, <1>2, <1>3, <1>4 DEF LoopActions, LoopNext

(* Timers, senders, indications and the modem move neither. *)
LEMMA OtherStep ==
    ASSUME OtherActions
    PROVE  /\ UNCHANGED <<pc, conn, coreReady, controlReady, client, wds, ctx, locals>>
           /\ ind = "off" => ind' = "off"
<1>1. CASE TimerNext
  BY <1>1 DEF TimerNext, TimerFires, StaleTimer, ReconnectTimer, CheckTimer, RetryTimer, DeferredTimer,
              DeferredRetryTimer, DedupWindowCloses, core
<1>2. CASE SendNext \/ IndicationNext
  BY <1>2 DEF SendNext, QueueReset, QueueDeferred, IndicationNext, IndicationArrives, IndicationSends,
              IndicationExits, core
<1>3. CASE ModemNext \/ UNCHANGED vars
  BY <1>3 DEF ModemNext, ModemResets, NetworkDropsCalls, StatusIndication, RequestCoreRecovery, vars, core
<1> QED BY <1>1, <1>2, <1>3 DEF OtherActions

(* A step is of a caller, of the event loop, or of the rest. *)
LEMMA NextCases == [Next]_vars <=> (\E c \in Callers : CallerActions(c)) \/ LoopActions \/ OtherActions
BY DEF Next, CallerActions, LoopActions, OtherActions

-----------------------------------------------------------------------------
(* Stop.                                                                    *)

(* Only who may start starts, and only who may stop stops. *)
LEMMA NextRoles == ASSUME Types, Roles, [Next]_vars PROVE Roles'
<1>1. ASSUME NEW c \in Callers, CallerActions(c) PROVE Roles'
  <2>1. ASSUME NEW d \in Callers
        PROVE  /\ pc'[d] \in Starting => "StartCore" \in Calls[d]
               /\ pc'[d] \in Stopping => "Stop" \in Calls[d]
    <3>1. CASE d = c  BY <1>1, <3>1, CallerStep DEF Roles
    <3>2. CASE d # c
      <4>1. pc'[d] = pc[d]
        BY <1>1, <3>2, CallerStep, ManagerAssumption DEF Procs
      <4> QED BY <4>1 DEF Roles
    <3> QED BY <3>1, <3>2
  <2> QED BY <2>1 DEF Roles
<1>2. CASE LoopActions
  <2>1. \A d \in Callers : pc'[d] = pc[d]
    BY <1>2, LoopStep, ManagerAssumption DEF Types, ControlOK, Procs
  <2> QED BY <2>1 DEF Roles
<1>3. CASE OtherActions
  BY <1>3, OtherStep DEF Roles
<1> QED BY <1>1, <1>2, <1>3, NextCases

(* A start and a stop are of one caller. *)
LEMMA OneRole ==
    ASSUME OneOwner, Roles, NEW c \in Callers, NEW d \in Callers,
           pc[c] \in Starting \cup Stopping, pc[d] \in Starting \cup Stopping
    PROVE  c = d
BY DEF OneOwner, Roles

(* What runs is cancelled before a Stop waits for it. *)
LEMMA NextThreads == ASSUME OneOwner, Types, Roles, Threads, [Next]_vars PROVE Threads'
<1>1. ASSUME NEW c \in Callers, StartLaunches(c) PROVE Threads'
  <2>1. ctx' = "live" /\ pc[c] = "launch" /\ pc' = [pc EXCEPT ![c] = "ready", ![Loop] = "select"]
    BY <1>1 DEF StartLaunches
  <2>2. ASSUME NEW d \in Callers, d # c
        PROVE  pc'[d] = pc[d] /\ pc'[d] \notin Starting \cup Stopping
    <3>1. pc'[d] = pc[d]
      BY <2>1, <2>2, ManagerAssumption DEF Types, ControlOK, Procs
    <3>2. pc[c] \in Starting
      BY <2>1 DEF Starting
    <3> QED BY <2>2, <3>1, <3>2, OneRole
  <2>3. pc'[c] = "ready"
    BY <2>1, ManagerAssumption DEF Types, ControlOK, Procs
  <2>4. \A d \in Callers : pc'[d] \notin {"open", "launch", "join", "unstop", "stopped"}
    BY <2>2, <2>3 DEF Starting, Stopping
  <2> QED BY <2>1, <2>4 DEF Threads
<1>2. ASSUME NEW c \in Callers, CallerActions(c), ~StartLaunches(c) PROVE Threads'
  <2>1. \A p \in Procs \ {c} : pc'[p] = pc[p]
    BY <1>2, CallerStep
  <2>2. ind' = ind /\ (ctx' = "none" <=> ctx = "none") /\ (ctx' = "live" => ctx = "live")
        /\ (ctx' = "live" => ~StopCancels(c))
    BY <1>2, CallerThreads DEF StopCancels, Types, CtxOK
  <2>3. pc'[Loop] = pc[Loop]
    BY <2>1, ManagerAssumption DEF Procs
  <2>4. ASSUME NEW d \in Callers
        PROVE  /\ pc'[d] \in {"open", "launch"} => ctx' = "none"
               /\ pc'[d] \in {"join", "unstop", "stopped"} => ctx' # "live"
    <3>1. CASE d = c
      BY <1>2, <2>2, <3>1, CallerStep DEF Threads
    <3>2. CASE d # c
      <4>1. pc'[d] = pc[d]
        BY <2>1, <3>2 DEF Procs
      <4> QED BY <2>2, <4>1 DEF Threads
    <3> QED BY <3>1, <3>2
  <2> QED BY <2>2, <2>3, <2>4 DEF Threads
<1>3. CASE LoopActions
  <2>1. (\A d \in Callers : pc'[d] = pc[d]) /\ UNCHANGED <<ctx, ind>> /\ pc[Loop] # "off"
    BY <1>3, LoopStep, ManagerAssumption DEF Types, ControlOK, Procs
  <2> QED BY <2>1 DEF Threads
<1>4. CASE OtherActions
  BY <1>4, OtherStep DEF Threads
<1> QED BY <1>1, <1>2, <1>3, <1>4, NextCases

(* What a dial that goes on after the cleanup still does: its requests fail,  *)
(* and it stores what it had in hand before.                                 *)
LEMMA DialAfterCleanup ==
    ASSUME Types, NEW c \in Callers, Clean, Procedure(c), pc[c] \notin Starting
    PROVE  Closed' /\ (overtaken \/ EmptyHanded)' /\ UNCHANGED overtaken
<1> USE DEF Clean, Closed
<1> DEFINE Storing == {"store_wds", "store_handle"}
<1>0. ~Served(c) /\ c \in Procs /\ NothingGot.wds # "open"
  BY DEF Served, Procs, NothingGot
<1>1. ASSUME UNCHANGED <<client, coreReady, controlReady, overtaken>>, wds' # "open",
             ~overtaken => wds' = "nil" /\ handle' = 0,
             \A p \in Procs : got'[p] = got[p] \/ got'[p].wds # "open",
             \A d \in Callers : pc'[d] \in Storing =>
                got'[d] = NothingGot \/ (pc[d] \in Storing /\ got'[d] = got[d])
      PROVE  Closed' /\ (overtaken \/ EmptyHanded)' /\ UNCHANGED overtaken
  <2>1. Closed'  BY <1>1
  <2>2. ASSUME ~overtaken PROVE ~InHand'
    BY <1>1, <2>2 DEF InHand, EmptyHanded
  <2> QED BY <1>1, <2>1, <2>2 DEF EmptyHanded
<1> HIDE DEF Clean, Closed
<1>2. \A d \in Callers \ {c} : pc'[d] = pc[d]
  BY ProcedureStep DEF Procs, Types, ControlOK
<1>3. client = 0 /\ wds # "open" /\ (~overtaken => wds = "nil" /\ handle = 0)
      /\ \A d \in Procs : got[d].wds # "open"
  BY DEF Clean, Closed, EmptyHanded
<1>4. ~overtaken /\ pc[c] \in Storing => got[c] = NothingGot
  BY DEF Clean, EmptyHanded, InHand
<1>5. CASE doConnect(c) \/ EnsureWDA(c) \/ MarkConnected(c) \/ handleDialFailure(c)
  <2>1. UNCHANGED <<core, got, overtaken, handle>> /\ pc'[c] \notin Storing
    BY <1>0, <1>5 DEF doConnect, EnsureWDA, MarkConnected, handleDialFailure, Goto, Return, conn, locals, Types, ControlOK
  <2> QED BY <1>1, <1>2, <1>3, <2>1 DEF core
<1>6. CASE HangUp(c) \/ ForgetCall(c) \/ MarkDisconnected(c)
  <2>1. UNCHANGED <<core, got, overtaken>> /\ handle' \in {0, handle} /\ pc'[c] \notin Storing
    BY <1>0, <1>6, ManagerAssumption DEF HangUp, ForgetCall, MarkDisconnected, Goto, locals, conn, Types, ControlOK
  <2> QED BY <1>1, <1>2, <1>3, <2>1 DEF core
<1>7. CASE ensureDataPlane(c)
  <2>1. UNCHANGED <<core, got, overtaken, handle>> /\ pc'[c] \notin Storing
    BY <1>0, <1>3, <1>7 DEF ensureDataPlane, Goto, conn, Types, ControlOK
  <2> QED BY <1>1, <1>2, <1>3, <2>1 DEF core
<1>8. CASE ServiceAllocated(c) \/ CallAnswered(c)
  <2>1. UNCHANGED <<core, overtaken, handle>> /\ got' = [got EXCEPT ![c] = NothingGot]
    BY <1>0, <1>8 DEF ServiceAllocated, CallAnswered, conn
  <2>2. got'[c] = NothingGot /\ \A d \in Procs \ {c} : got'[d] = got[d]
    BY <1>0, <2>1 DEF Types, ControlOK
  <2> QED BY <1>0, <1>1, <1>2, <1>3, <2>1, <2>2 DEF core, Procs
<1>9. CASE StoreService(c)
  <2>1. UNCHANGED <<client, coreReady, controlReady, overtaken, handle>> /\ got' = [got EXCEPT ![c] = NothingGot]
        /\ wds' = got[c].wds /\ pc[c] = "store_wds"
    BY <1>9 DEF StoreService, conn
  <2>2. got'[c] = NothingGot /\ \A d \in Procs \ {c} : got'[d] = got[d]
    BY <1>0, <2>1 DEF Types, ControlOK
  <2>3. wds' # "open" /\ (~overtaken => wds' = "nil")
    BY <1>0, <1>3, <1>4, <2>1 DEF NothingGot
  <2> QED BY <1>0, <1>1, <1>2, <1>3, <2>1, <2>2, <2>3 DEF Procs
<1>10. CASE StartNetworkInterface(c)
  <2>1. UNCHANGED <<core, overtaken, handle>> /\ pc'[c] \notin Storing
        /\ (got' = got \/ got' = [got EXCEPT ![c].wds = wds])
    BY <1>0, <1>10 DEF StartNetworkInterface, Goto, conn, Types, ControlOK
  <2>2. \A d \in Procs : got'[d] = got[d] \/ (d = c /\ got'[d].wds = wds)
    BY <1>0, <2>1 DEF Types, ControlOK
  <2> QED BY <1>1, <1>2, <1>3, <2>1, <2>2, ManagerAssumption DEF core, Procs
<1>11. CASE StoreHandle(c)
  <2>1. UNCHANGED <<core, overtaken>> /\ got' = [got EXCEPT ![c] = NothingGot]
        /\ handle' = got[c].handle /\ pc[c] = "store_handle"
    BY <1>11 DEF StoreHandle
  <2>2. got'[c] = NothingGot /\ \A d \in Procs \ {c} : got'[d] = got[d]
    BY <1>0, <2>1 DEF Types, ControlOK
  <2>3. ~overtaken => handle' = 0
    BY <1>4, <2>1 DEF NothingGot
  <2> QED BY <1>0, <1>1, <1>2, <1>3, <2>1, <2>2, <2>3 DEF core, Procs
<1>12. ~MarkReady(c) /\ ~Settle(c)
  BY DEF MarkReady, Settle, Starting
<1> QED BY <1>5, <1>6, <1>7, <1>8, <1>9, <1>10, <1>11, <1>12 DEF Procedure

(* Stop's cleanup closes everything, and remembers whether a dial has an      *)
(* answer in hand.                                                           *)
LEMMA StopCloses ==
    ASSUME Types, NEW c \in Callers, StopJoins(c)
    PROVE  Clean'
<1>1. client' = 0 /\ wds' = "nil" /\ handle' = 0 /\ ~coreReady' /\ ~controlReady' /\ overtaken' = InHand
      /\ got' = [p \in Procs |-> IF got[p].wds = "open" THEN [got[p] EXCEPT !.wds = "closed"] ELSE got[p]]
  BY DEF StopJoins, cleanup
<1>2. \A p \in Procs : got'[p].wds # "open"
  BY CleanupControl DEF StopJoins, Types
<1>3. ~InHand => ~InHand'
  <2> SUFFICES ASSUME NEW d \in Callers, pc'[d] \in {"store_wds", "store_handle"}, got[d] = NothingGot \/ pc[d] \notin {"store_wds", "store_handle"}
               PROVE  got'[d] = NothingGot
    BY DEF InHand
  <2>1. pc'[d] = pc[d]
    BY DEF StopJoins, Goto, Types, ControlOK, Procs
  <2> QED BY <1>1, <2>1 DEF NothingGot, Procs
<1>4. pc'[Loop] = "off" /\ ind' = "off"
  BY ManagerAssumption DEF StopJoins, Goto, Types, ControlOK, Procs
<1> QED BY <1>1, <1>2, <1>3, <1>4 DEF Clean, Closed, EmptyHanded

(* Nobody takes what a Stop has cleaned up into use again. *)
LEMMA NextClean ==
    ASSUME OneOwner, Types, Roles, Threads, CleanAfterStop, [Next]_vars
    PROVE  CleanAfterStop'
<1> SUFFICES ASSUME NEW d \in Callers, pc'[d] \in {"unstop", "stopped"} PROVE Clean'
  BY DEF CleanAfterStop
<1>1. ASSUME NEW c \in Callers, StopJoins(c) PROVE Clean'
  BY <1>1, StopCloses
<1>2. ASSUME NEW c \in Callers, CallerActions(c), ~StopJoins(c) PROVE Clean'
  <2>1. pc[d] \in {"unstop", "stopped"}
    <3>1. CASE d = c  BY <1>2, <3>1, CallerStep
    <3>2. CASE d # c  BY <1>2, <3>2, CallerStep, ManagerAssumption DEF Procs
    <3> QED BY <3>1, <3>2
  <2>2. Clean
    BY <2>1 DEF CleanAfterStop
  <2>3. pc[c] \notin Starting
    <3>1. SUFFICES ASSUME pc[c] \in Starting PROVE FALSE
      OBVIOUS
    <3>2. c = d
      BY <2>1, <3>1, OneRole DEF Stopping
    <3> QED BY <2>1, <3>1, <3>2 DEF Starting
  <2>4. ~StartOpens(c) /\ ~StartLaunches(c)
    BY <2>3 DEF Starting, StartOpens, StartLaunches
  <2>5. pc'[Loop] = "off" /\ ind' = "off"
    BY <1>2, <2>2, <2>4, CallerStep, CallerThreads, ManagerAssumption DEF Clean, Procs, StopCancels
  <2>6. CASE Procedure(c)
    BY <2>2, <2>3, <2>5, <2>6, DialAfterCleanup DEF Clean
  <2>7. CASE StopCancels(c) \/ StopReturns(c) \/ CallNext(c)
    <3>1. UNCHANGED <<handle, core, got, overtaken>>
      BY <2>7 DEF StopCancels, StopReturns, CallNext, StartCore, Connect, Disconnect, Stop, conn, locals
    <3>2. \A e \in Callers : pc'[e] \in {"store_wds", "store_handle"} => pc[e] \in {"store_wds", "store_handle"}
      BY <2>7 DEF StopCancels, StopReturns, CallNext, StartCore, Connect, Disconnect, Stop, Goto, Types, ControlOK, Procs
    <3> QED BY <2>2, <2>5, <3>1, <3>2 DEF core, Clean, Closed, EmptyHanded, InHand
  <2> QED BY <1>2, <2>4, <2>6, <2>7 DEF CallerActions, CallerNext
<1>3. CASE LoopActions
  <2>1. pc'[d] = pc[d] /\ pc[Loop] # "off"
    BY <1>3, LoopStep, ManagerAssumption DEF Types, ControlOK, Procs
  <2> QED BY <2>1 DEF CleanAfterStop, Clean
<1>4. CASE OtherActions
  BY <1>4, OtherStep DEF CleanAfterStop, Clean, Closed, EmptyHanded, InHand, conn, locals
<1> QED BY <1>1, <1>2, <1>3, <1>4, NextCases

-----------------------------------------------------------------------------
(* The invariants.                                                          *)

IInv == TypeOK /\ ModemIsFinite
StopInv == Roles /\ Threads /\ CleanAfterStop

(* They hold before anything runs. *)
LEMMA InitInvs == Init => IInv /\ StopInv
<1> SUFFICES ASSUME Init PROVE IInv /\ StopInv
  OBVIOUS
<1>1. Types
  <2>1. ConnOK /\ CoreOK /\ CtxOK /\ TimingOK /\ ResetOK /\ GiveUpOK
    BY DEF Init, ConnOK, CoreOK, CtxOK, TimingOK, ResetOK, GiveUpOK, States, Services
  <2>2. EventsOK /\ ModemOK /\ BoundsOK
    BY ManagerAssumption, EmptySeq DEF Init, EventsOK, ModemOK, BoundsOK
  <2>3. ControlOK
    BY NothingIsTyped DEF Init, ControlOK, Labels, States
  <2> QED BY <2>1, <2>2, <2>3 DEF Types
<1>2. ModemIsFinite
  BY FS_EmptySet DEF Init, ModemIsFinite
<1>3. \A c \in Callers : pc[c] = "idle"
  BY ManagerAssumption DEF Init, Procs
<1>4. pc[Loop] = "off" /\ ind = "off"
  BY DEF Init, Procs
<1> QED BY <1>1, <1>2, <1>3, <1>4, TypeSplit
        DEF IInv, StopInv, Roles, Threads, CleanAfterStop, Starting, Stopping

(* Every step keeps the types. *)
LEMMA NextIInv == IInv /\ [Next]_vars => IInv'
BY NextTypes, NextFinite, TypeSplit DEF IInv

(* Every step keeps what Stop leaves, when one goroutine starts and stops. *)
LEMMA NextStopInv == ASSUME OneOwner PROVE IInv /\ StopInv /\ [Next]_vars => StopInv'
BY NextRoles, NextThreads, NextClean, TypeSplit DEF IInv, StopInv

(* The manager's fields keep their types: whatever the order of the calls,   *)
(* the timers, the indications and the modem's failures, no handler leaves a *)
(* field of the Manager outside its type, and the channel keeps its capacity.*)
THEOREM ManagerTypeOK == Spec => []TypeOK
<1>1. Init => IInv
  BY InitInvs
<1>2. IInv /\ [Next]_vars => IInv'
  BY NextIInv
<1>3. IInv => TypeOK
  BY DEF IInv
<1> QED BY <1>1, <1>2, <1>3, PTL DEF Spec

(* When Stop has returned, whatever Connect, Disconnect, the timers and the  *)
(* indications were doing, nothing of the manager runs and it holds no       *)
(* client and no service of one; only a dial that had the modem's answer in   *)
(* hand when Stop cleaned up leaves a call or a closed service behind.  One    *)
(* goroutine starts and stops the manager.                                   *)
THEOREM StopLeavesNothing == ASSUME OneOwner PROVE Spec => []StopIsClean
<1>1. Init => IInv /\ StopInv
  BY InitInvs
<1>2. IInv /\ StopInv /\ [Next]_vars => IInv' /\ StopInv'
  BY NextIInv, NextStopInv
<1>3. StopInv => StopIsClean
  BY DEF StopInv, Threads, CleanAfterStop, Clean, Closed, EmptyHanded, StopIsClean
<1> QED BY <1>1, <1>2, <1>3, PTL DEF Spec
-----------------------------------------------------------------------------
(* A manager that nobody has begun to stop. *)
Alive == ctx # "cancelled" /\ LoopSurvives /\ \A c \in Callers : pc[c] \notin Stopping

(* Where a recovery is under way. *)
Recovery == {"clean", "reopen", "quiet", "ready", "settle", "recovered"}
HangingUp == {"hangup", "forget", "hungup"}
InRecovery == pc[Loop] \in Recovery \/ (pc[Loop] \in HangingUp /\ after = "clean")

HasReset(s) == \E i \in DOMAIN s : s[i] = "ModemReset"
Told == \E i \in DOMAIN inbox : inbox[i] = "reset"
Deferring == (timers \cup fired) \cap {"deferred", "deferred_retry"} # {}
Queued == HasReset(eventCh) \/ queueing # {} \/ Deferring \/ pc[Loop] = "reset"
Retried == "retry" \in timers \cup fired
OnWay == Queued \/ Retried \/ Told \/ pc[Loop] = "requeue" \/ recovering

(* A start has its client open; it has launched the loops. *)
Opened == \E c \in Callers : pc[c] \in {"launch", "ready", "settle"}
Launched == \E c \in Callers : pc[c] \in {"ready", "settle"}

(* Nothing of a reset precedes the launch of the loops. *)
StartsQuiet ==
    ctx = "none" => /\ ~coreReady /\ ~Retried /\ ~Deferring /\ queueing = {}
                    /\ ~recent /\ ~deferred

(* A core that is ready has a client.  A caller that starts the manager has *)
(* it open, and no recovery disturbs it.                                      *)
HasClient ==
    /\ coreReady => client # 0
    /\ pc[Loop] = "reopen" => client = 0
    /\ pc[Loop] \in {"quiet", "ready"} => client # 0
    /\ pc[Loop] = "settle" => coreReady
Starts ==
    /\ Opened => client # 0
    /\ Launched => pc[Loop] \notin Recovery \ {"clean"} /\ ctx # "none"
    /\ \A c \in Callers : pc[c] = "settle" => coreReady

(* The dedup window that is open while the core is ready belongs to a reset   *)
(* that is queued, or that was dropped as deferred and left modemResetPending *)
(* set; a recovery that succeeds ends outside it.                             *)
DedupIsSafe ==
    /\ recent /\ ~recovering /\ coreReady => Queued \/ pending
    /\ recent /\ ~recovering /\ Launched => Queued
    /\ pc[Loop] \in {"ready", "settle"} => ~recent
    /\ pc[Loop] = "recovered" /\ coreReady => ~recent

(* Until the start is over no cleanup has stopped the timer of a deferral. *)
DeferralIsArmed == deferred /\ Launched => Deferring

(* A recovery that ends with the core down is tried again, or gave up. *)
DownIsSeen == pc[Loop] = "recovered" /\ ~coreReady => pending \/ gaveUp \/ Retried

(* A reset that cuts off the client of a start or of a recovery is noticed. *)
CutOffIsSeen ==
    /\ Opened /\ client # epoch => Told \/ Queued \/ recovering
    /\ pc[Loop] \in {"quiet", "ready", "settle", "recovered"} /\ client \notin {0, epoch} => pending \/ Told

Chain ==
    /\ state # "Stopping" /\ (recovering <=> InRecovery)
    /\ StartsQuiet /\ HasClient /\ Starts
    /\ DedupIsSafe /\ DeferralIsArmed /\ DownIsSeen /\ CutOffIsSeen

-----------------------------------------------------------------------------
(* What most steps leave of Chain.                                          *)

(* A step that leaves the core alone: what was on its way is on its way      *)
(* still or dropped, nothing begins or ends but a dial, a check or a hang-up, *)
(* and a recovery goes on where it was, or past its hang-up.                 *)
CoreStep ==
    /\ state' # "Stopping"
    /\ UNCHANGED <<coreReady, client, ctx, recovering, gaveUp>>
    /\ epoch' = epoch \/ client = 0 \/ Told'
FlagStep ==
    /\ recent' => recent \/ (~recovering /\ Queued')
    /\ pending => pending'
    /\ deferred' => Deferring' \/ (deferred /\ (Deferring => Deferring'))
    /\ ctx = "none" => /\ queueing' \subseteq queueing
                       /\ timers' \cup fired' \subseteq timers \cup fired \cup {"start", "check"}
                       /\ (recent' => recent) /\ (deferred' => deferred)
WayStep ==
    /\ Queued => \/ Queued' \/ (recovering /\ pending')
                 \/ DroppedAsDeferred /\ pending' /\ deferred /\ ~Deferring
    /\ Retried => Retried' \/ (recovering /\ pending') \/ (~recovering /\ (Queued' \/ DroppedInWindow))
    /\ Told => Told' \/ (recovering /\ pending') \/ (~recovering /\ (Queued' \/ DroppedInWindow))
PlaceStep ==
    /\ \/ pc'[Loop] = pc[Loop] /\ after' = after
       \/ ~InRecovery /\ ~InRecovery' /\ (pc[Loop] = "requeue" => Queued' \/ DroppedInWindow)
       \/ InRecovery /\ InRecovery' /\ {pc[Loop], pc'[Loop]} \subseteq HangingUp \cup {"clean"}
    /\ \A c \in Callers : pc'[c] = pc[c] \/ {pc[c], pc'[c]} \cap {"launch", "ready", "settle"} = {}
ChainStep == CoreStep /\ FlagStep /\ WayStep /\ PlaceStep

(* Where such a step finds the loop in a recovery past its cleanup, it leaves *)
(* it there; and starts stay where they are.                                 *)
LEMMA PlacesKept ==
    ASSUME PlaceStep
    PROVE  /\ (Opened' <=> Opened) /\ (Launched' <=> Launched)
           /\ (Recovery \ {"clean"}) \cap {pc[Loop], pc'[Loop]} # {} => pc'[Loop] = pc[Loop]
           /\ \A c \in Callers : pc'[c] = "settle" => pc[c] = "settle"
<1> USE DEF PlaceStep
<1>1. (Opened' <=> Opened) /\ (Launched' <=> Launched)
  BY DEF Opened, Launched
<1>2. (Recovery \ {"clean"}) \cap {pc[Loop], pc'[Loop]} # {} => pc'[Loop] = pc[Loop]
  BY DEF InRecovery, Recovery, HangingUp
<1>3. \A c \in Callers : pc'[c] = "settle" => pc[c] = "settle"
  OBVIOUS
<1> QED BY <1>1, <1>2, <1>3

(* While no recovery runs and a start is not over, or nothing precedes it,    *)
(* what is queued stays queued.                                              *)
LEMMA QueuedStays ==
    ASSUME Types, Threads, Chain, ChainStep, Opened, Queued, ~recovering
    PROVE  Queued'
<1>1. Launched \/ ctx = "none"
  BY DEF Opened, Launched, Threads
<1>2. ~deferred \/ Deferring
  BY <1>1 DEF Chain, StartsQuiet, DeferralIsArmed
<1> QED BY <1>2 DEF ChainStep, WayStep

(* Such a step keeps the chain. *)
LEMMA ChainKept == ASSUME Types, Threads, Chain, ChainStep PROVE Chain'
<1>1. /\ (Opened' <=> Opened) /\ (Launched' <=> Launched)
      /\ (Recovery \ {"clean"}) \cap {pc[Loop], pc'[Loop]} # {} => pc'[Loop] = pc[Loop]
      /\ \A c \in Callers : pc'[c] = "settle" => pc[c] = "settle"
  BY PlacesKept DEF ChainStep
<1>2. UNCHANGED <<coreReady, client, ctx, recovering, gaveUp>> /\ (epoch' = epoch \/ client = 0 \/ Told')
      /\ state' # "Stopping"
  BY DEF ChainStep, CoreStep
<1>3. recovering' <=> InRecovery'
  BY <1>2 DEF Chain, ChainStep, PlaceStep, InRecovery
<1>4. StartsQuiet'
  BY <1>2 DEF Chain, StartsQuiet, ChainStep, FlagStep, Retried, Deferring
<1>5. HasClient' /\ Starts'
  BY <1>1, <1>2 DEF Chain, HasClient, Starts, Recovery
<1>6. DedupIsSafe'
  <2>1. recent' /\ ~recovering' /\ coreReady' => Queued' \/ pending'
    BY <1>2 DEF Chain, DedupIsSafe, ChainStep, FlagStep, WayStep
  <2>2. recent' /\ ~recovering' /\ Launched' => Queued'
    <3>1. Launched => Opened  BY DEF Launched, Opened
    <3> QED BY <1>1, <1>2, <3>1, QueuedStays DEF Chain, DedupIsSafe, ChainStep, FlagStep
  <2>3. pc'[Loop] \in {"ready", "settle"} \/ (pc'[Loop] = "recovered" /\ coreReady') => ~recent'
    <3>1. ASSUME pc'[Loop] \in {"ready", "settle"} \/ (pc'[Loop] = "recovered" /\ coreReady') PROVE ~recent'
      <4>1. pc'[Loop] = pc[Loop]  BY <1>1, <3>1 DEF Recovery
      <4>2. recovering  BY <3>1, <4>1 DEF Chain, InRecovery, Recovery
      <4> QED BY <1>2, <3>1, <4>1, <4>2 DEF Chain, DedupIsSafe, ChainStep, FlagStep
    <3> QED BY <3>1
  <2> QED BY <2>1, <2>2, <2>3 DEF DedupIsSafe
<1>7. DeferralIsArmed'
  BY <1>1 DEF Chain, DeferralIsArmed, ChainStep, FlagStep
<1>8. DownIsSeen'
  <2> SUFFICES ASSUME pc'[Loop] = "recovered", ~coreReady' PROVE pending' \/ gaveUp' \/ Retried'
    BY DEF DownIsSeen
  <2>1. pc[Loop] = "recovered"  BY <1>1 DEF Recovery
  <2>2. recovering  BY <2>1 DEF Chain, InRecovery, Recovery
  <2> QED BY <1>2, <2>1, <2>2 DEF Chain, DownIsSeen, ChainStep, FlagStep, WayStep
<1>9. CutOffIsSeen'
  <2>1. ASSUME Opened', client' # epoch' PROVE Told' \/ Queued' \/ recovering'
    <3>1. Opened /\ client # 0  BY <1>1, <2>1 DEF Chain, Starts
    <3>2. CASE recovering \/ Told'  BY <1>2, <3>2
    <3>3. CASE Queued /\ ~recovering  BY <3>1, <3>3, QueuedStays
    <3>4. CASE Told /\ ~Told' /\ ~recovering
      <4>1. Queued' \/ recent  BY <3>4 DEF ChainStep, WayStep, DroppedInWindow
      <4>2. Launched \/ ctx = "none"  BY <3>1 DEF Opened, Launched, Threads
      <4>3. recent => Queued  BY <3>4, <4>2 DEF Chain, DedupIsSafe, StartsQuiet
      <4> QED BY <3>1, <3>4, <4>1, <4>3, QueuedStays
    <3> QED BY <1>2, <2>1, <3>1, <3>2, <3>3, <3>4 DEF Chain, CutOffIsSeen
  <2>2. ASSUME pc'[Loop] \in {"quiet", "ready", "settle", "recovered"}, client' \notin {0, epoch'} PROVE pending' \/ Told'
    <3>1. pc'[Loop] = pc[Loop]  BY <1>1, <2>2 DEF Recovery
    <3>2. recovering  BY <2>2, <3>1 DEF Chain, InRecovery, Recovery
    <3> QED BY <1>2, <2>2, <3>1, <3>2 DEF Chain, CutOffIsSeen, ChainStep, FlagStep, WayStep
  <2> QED BY <2>1, <2>2 DEF CutOffIsSeen
<1> QED BY <1>2, <1>3, <1>4, <1>5, <1>6, <1>7, <1>8, <1>9 DEF Chain

-----------------------------------------------------------------------------
(* What a step may lose.                                                    *)

SafeStep ==
    /\ Stranded' => Stranded \/ DroppedInWindow \/ DroppedAsDeferred
    /\ CutOff' => CutOff \/ DroppedAsDeferred \/ (DroppedInWindow /\ pending)

(* What is on its way, in both wordings. *)
LEMMA OnTheWay == (OnWay <=> ResetOnItsWay) /\ (OnWay <=> ResetOnItsWay)'
<1>1. /\ HasReset(eventCh) <=> "ModemReset" \in {eventCh[i] : i \in DOMAIN eventCh}
      /\ Told <=> "reset" \in {inbox[i] : i \in DOMAIN inbox}
      /\ HasReset(eventCh') <=> "ModemReset" \in {eventCh'[i] : i \in DOMAIN eventCh'}
      /\ Told' <=> "reset" \in {inbox'[i] : i \in DOMAIN inbox'}
  BY DEF HasReset, Told
<1>2. OnWay <=> ResetOnItsWay
  BY <1>1 DEF OnWay, Queued, Retried, Deferring, ResetOnItsWay
<1>3. (OnWay <=> ResetOnItsWay)'
  BY <1>1 DEF OnWay, Queued, Retried, Deferring, ResetOnItsWay
<1> QED BY <1>2, <1>3

(* Nobody has begun to stop a manager that runs. *)
LEMMA RunningIsAlive == (Threads /\ Running => Alive) /\ (Threads /\ Running => Alive)'
BY DEF Threads, Running, Alive, LoopSurvives, Stopping

(* A manager that does not run then, or that recovers, is neither. *)
LEMMA NotRunning == ASSUME ~Running' PROVE SafeStep
BY DEF SafeStep, Stranded, CutOff
LEMMA Recovering == ASSUME recovering' PROVE SafeStep
BY OnTheWay DEF SafeStep, Stranded, CutOff, OnWay

(* A step that leaves the core alone drops what is on its way as said, or     *)
(* keeps it; while the core is ready, what the dedup window drops has another *)
(* reset behind it.                                                          *)
LEMMA WayKept == ASSUME Threads, Chain, Alive, ChainStep PROVE SafeStep
<1> USE DEF ChainStep
<1>1. OnWay => OnWay' \/ DroppedInWindow \/ DroppedAsDeferred
  <2>1. recovering => recovering'  BY DEF CoreStep
  <2>2. pc[Loop] = "requeue" => pc'[Loop] = "requeue" \/ Queued' \/ DroppedInWindow
    BY DEF PlaceStep, InRecovery, Recovery, HangingUp
  <2> QED BY <2>1, <2>2 DEF WayStep, OnWay
<1>2. DroppedInWindow /\ coreReady /\ ~pending => OnWay' \/ DroppedAsDeferred
  <2>1. SUFFICES ASSUME DroppedInWindow, coreReady, ~pending PROVE OnWay' \/ DroppedAsDeferred
    OBVIOUS
  <2>2. Queued  BY <2>1 DEF DroppedInWindow, Chain, DedupIsSafe
  <2> QED BY <2>1, <2>2 DEF DroppedInWindow, WayStep, OnWay
<1>3. Running' => Running
  BY PlacesKept DEF Running, Alive, Stopping, Launched, CoreStep
<1>4. UNCHANGED <<coreReady, gaveUp>> /\ (coreReady /\ client = epoch => client' = epoch' \/ OnWay')
  BY DEF CoreStep, Chain, HasClient, OnWay
<1>5. Stranded' => Stranded \/ DroppedInWindow \/ DroppedAsDeferred
  BY <1>1, <1>3, <1>4, OnTheWay DEF Stranded
<1>6. CutOff' => CutOff \/ DroppedAsDeferred \/ (DroppedInWindow /\ pending)
  BY <1>1, <1>2, <1>3, <1>4, OnTheWay DEF CutOff
<1> QED BY <1>5, <1>6 DEF SafeStep

(* Who has not begun to stop had not before. *)
LEMMA AliveBack == ASSUME Types, Threads, [Next]_vars, Alive' PROVE Alive
<1>1. ASSUME NEW c \in Callers, CallerActions(c) PROVE Alive
  <2>1. ASSUME NEW d \in Callers PROVE pc[d] \notin Stopping
    <3>1. CASE d = c  BY <1>1, <3>1, CallerStep DEF Alive
    <3>2. CASE d # c
      <4>1. pc'[d] = pc[d]
        BY <1>1, <3>2, CallerStep, ManagerAssumption DEF Procs
      <4> QED BY <4>1 DEF Alive
    <3> QED BY <3>1, <3>2
  <2>2. pc[Loop] # "panicked" /\ ctx # "cancelled"
    <3>1. CASE StartLaunches(c)
      BY <3>1 DEF StartLaunches, Threads
    <3>2. CASE ~StartLaunches(c)
      BY <1>1, <3>2, CallerStep, CallerThreads, ManagerAssumption DEF Alive, LoopSurvives, Procs, Types, CtxOK
    <3> QED BY <3>1, <3>2
  <2> QED BY <2>1, <2>2 DEF Alive, LoopSurvives
<1>2. CASE LoopActions
  <2>1. (\A d \in Callers : pc'[d] = pc[d]) /\ ctx' = ctx
    BY <1>2, LoopStep, ManagerAssumption DEF Types, ControlOK, Procs
  <2>2. pc[Loop] # "panicked"
    BY <1>2 DEF LoopActions, LoopNext, LoopExits, LoopTicks, LoopSends, handleEvent, AtSelect, CheckBegins, CheckQueries,
                CheckJudges, CheckRedials, handleModemResetEvent, RecoverCleans, RecoverReopens, waitResetQuietWindow,
                ResetHandled, Requeue, Procedure, MarkReady, Settle, doConnect, ensureDataPlane, ServiceAllocated,
                StoreService, EnsureWDA, StartNetworkInterface, CallAnswered, StoreHandle, MarkConnected,
                handleDialFailure, HangUp, ForgetCall, MarkDisconnected
  <2> QED BY <2>1, <2>2 DEF Alive, LoopSurvives
<1>3. CASE OtherActions
  BY <1>3, OtherStep DEF Alive, LoopSurvives
<1> QED BY <1>1, <1>2, <1>3, NextCases

(* What is in the channel stays there when something is sent. *)
LEMMA SendFacts ==
    ASSUME EventsOK, NEW e \in Events, Send(e)
    PROVE  /\ HasReset(eventCh) => HasReset(eventCh')
           /\ e = "ModemReset" => HasReset(eventCh')
<1>1. /\ Len(eventCh) \in Nat /\ DOMAIN eventCh = 1..Len(eventCh)
      /\ DOMAIN Append(eventCh, e) = 1..(Len(eventCh) + 1) /\ Append(eventCh, e)[Len(eventCh) + 1] = e
      /\ \A i \in DOMAIN eventCh : Append(eventCh, e)[i] = eventCh[i]
  BY AppendProperties, LenProperties DEF EventsOK
<1> QED BY <1>1 DEF Send, HasReset

(* Only a reset that is taken leaves the channel. *)
LEMMA TakeFacts ==
    ASSUME EventsOK, eventCh # <<>>, HasReset(eventCh), Head(eventCh) # "ModemReset"
    PROVE  HasReset(Tail(eventCh))
<1>1. /\ Len(eventCh) \in Nat \ {0} /\ DOMAIN eventCh = 1..Len(eventCh) /\ Head(eventCh) = eventCh[1]
      /\ DOMAIN Tail(eventCh) = 1..(Len(eventCh) - 1)
      /\ \A i \in 1..(Len(eventCh) - 1) : Tail(eventCh)[i] = eventCh[i + 1]
  BY HeadTailProperties, LenProperties, EmptySeq DEF EventsOK
<1>2. PICK i \in 1..Len(eventCh) : eventCh[i] = "ModemReset"
  BY <1>1 DEF HasReset
<1>3. i # 1
  BY <1>1, <1>2
<1>4. i - 1 \in 1..(Len(eventCh) - 1) /\ Tail(eventCh)[i - 1] = "ModemReset"
  BY <1>1, <1>2, <1>3
<1> QED BY <1>1, <1>4 DEF HasReset

(* So it is with indications. *)
LEMMA NotifyFacts ==
    ASSUME ModemOK, NEW what \in {"reset", "status"}, Notify(what)
    PROVE  /\ Told => Told'
           /\ what = "reset" => client = 0 \/ Told'
<1>1. /\ Len(inbox) \in Nat /\ DOMAIN inbox = 1..Len(inbox)
      /\ DOMAIN Append(inbox, what) = 1..(Len(inbox) + 1) /\ Append(inbox, what)[Len(inbox) + 1] = what
      /\ \A i \in DOMAIN inbox : Append(inbox, what)[i] = inbox[i]
  BY AppendProperties, LenProperties DEF ModemOK
<1> QED BY <1>1 DEF Notify, Told

(* Only a reset that is read leaves the inbox. *)
LEMMA ReadFacts ==
    ASSUME ModemOK, inbox # <<>>, Told, Head(inbox) # "reset", inbox' = Tail(inbox)
    PROVE  Told'
<1>1. /\ Len(inbox) \in Nat \ {0} /\ DOMAIN inbox = 1..Len(inbox) /\ Head(inbox) = inbox[1]
      /\ DOMAIN Tail(inbox) = 1..(Len(inbox) - 1)
      /\ \A i \in 1..(Len(inbox) - 1) : Tail(inbox)[i] = inbox[i + 1]
  BY HeadTailProperties, LenProperties, EmptySeq DEF ModemOK
<1>2. PICK i \in 1..Len(inbox) : inbox[i] = "reset"
  BY <1>1 DEF Told
<1>3. i # 1
  BY <1>1, <1>2
<1>4. i - 1 \in 1..(Len(inbox) - 1) /\ Tail(inbox)[i - 1] = "reset"
  BY <1>1, <1>2, <1>3
<1> QED BY <1>1, <1>4 DEF Told

(* Where nothing is queued, taken or read, what was on its way is. *)
LEMMA NothingMoves ==
    ASSUME UNCHANGED <<recent, pending, deferred, queueing, eventCh, inbox, recovering>>,
           timers' \cup fired' \subseteq timers \cup fired \cup {"start", "check"}, Retried => Retried',
           Deferring => Deferring', pc[Loop] = "reset" => pc'[Loop] = "reset"
    PROVE  FlagStep /\ WayStep
<1>1. Queued => Queued'  BY DEF Queued
<1>2. Told => Told'  BY DEF Told
<1> QED BY <1>1, <1>2 DEF FlagStep, WayStep

(* A reset is queued, or coalesced, or the dedup window drops it. *)
LEMMA EnqueueFacts ==
    ASSUME NEW g \in Senders, enqueueModemResetEvent(g),
           UNCHANGED <<recovering, eventCh>>, Deferring => Deferring', pc[Loop] = "reset" => pc'[Loop] = "reset"
    PROVE  /\ recent' => recent \/ (~recovering /\ Queued')
           /\ pending => pending'
           /\ Queued => Queued'
           /\ recovering => pending'
           /\ ~recovering => Queued' \/ recent
<1>1. CASE recovering /\ pending' = TRUE /\ UNCHANGED <<recent, queueing>>
  BY <1>1 DEF Queued
<1>2. CASE ~recovering /\ recent /\ UNCHANGED <<pending, recent, queueing>>
  BY <1>2 DEF Queued
<1>3. CASE ~recovering /\ ~recent /\ recent' = TRUE /\ queueing' = queueing \cup {g} /\ UNCHANGED pending
  BY <1>3 DEF Queued
<1> QED BY <1>1, <1>2, <1>3 DEF enqueueModemResetEvent

(* Dials. *)
LEMMA DialKeeps ==
    ASSUME Types, Chain, NEW p \in Procs, pc'[Loop] # "panicked",
           \/ doConnect(p) \/ ensureDataPlane(p) \/ ServiceAllocated(p) \/ StoreService(p) \/ EnsureWDA(p)
           \/ StartNetworkInterface(p) \/ CallAnswered(p) \/ StoreHandle(p)
           \/ MarkConnected(p) \/ handleDialFailure(p)
    PROVE  ChainStep
<1> DEFINE Dialing == {"dial", "alloc", "allocating", "store_wds", "wda", "call", "calling", "store_handle",
                       "connected", "dialfail"}
           Kept == /\ state' # "Stopping" /\ UNCHANGED <<coreReady, client, ctx, recovering, gaveUp, epoch>>
                   /\ UNCHANGED <<recent, pending, deferred, queueing, eventCh, inbox, fired, after>>
                   /\ (timers' = timers \/ timers' = timers \cup {"start"})
           Moved == /\ pc' = [pc EXCEPT ![p] = pc'[p]] /\ pc[p] \in Dialing
                    /\ pc'[p] \in Dialing \cup {"select", "idle", "panicked"}
<1>1. Kept /\ Moved
  <2>1. CASE doConnect(p) \/ ensureDataPlane(p)
    BY <2>1 DEF doConnect, ensureDataPlane, Goto, Return, Chain, conn, core, reset, giveup, modem, locals, loopLocals,
                timing, Types, ControlOK
  <2>2. CASE ServiceAllocated(p) \/ StoreService(p)
    BY <2>2 DEF ServiceAllocated, StoreService, Goto, Chain, conn, core, reset, giveup, modem, loopLocals, timing, Types,
                ControlOK
  <2>3. CASE EnsureWDA(p) \/ StartNetworkInterface(p)
    BY <2>3 DEF EnsureWDA, StartNetworkInterface, Goto, Chain, conn, core, reset, giveup, modem, locals, loopLocals,
                timing, Types, ControlOK
  <2>4. CASE CallAnswered(p) \/ StoreHandle(p)
    BY <2>4 DEF CallAnswered, StoreHandle, Goto, Chain, conn, core, reset, giveup, modem, loopLocals, timing, Types,
                ControlOK
  <2>5. CASE MarkConnected(p) \/ handleDialFailure(p)
    BY <2>5 DEF MarkConnected, handleDialFailure, Arm, Goto, Return, core, reset, giveup, modem, locals, timing, Types,
                ControlOK
  <2> QED BY <2>1, <2>2, <2>3, <2>4, <2>5
<1>2. CoreStep
  BY <1>1 DEF CoreStep
<1>3. FlagStep /\ WayStep
  <2>1. pc[Loop] = "reset" => pc'[Loop] = "reset"
    BY <1>1 DEF Types, ControlOK, Procs
  <2> QED BY <1>1, <2>1, NothingMoves DEF Retried, Deferring
<1>4. PlaceStep
  <2>1. CASE p = Loop
    BY <1>1, <2>1, ManagerAssumption DEF PlaceStep, InRecovery, Recovery, HangingUp, Types, ControlOK, Procs
  <2>2. CASE p # Loop
    BY <1>1, <2>2, ManagerAssumption DEF PlaceStep, Types, ControlOK, Procs
  <2> QED BY <2>1, <2>2
<1> QED BY <1>2, <1>3, <1>4 DEF ChainStep

(* Hang-ups, of a recovery too. *)
LEMMA HangUpKeeps ==
    ASSUME Types, Chain, NEW p \in Procs, HangUp(p) \/ ForgetCall(p) \/ MarkDisconnected(p)
    PROVE  ChainStep
<1>1. CoreStep
  BY DEF CoreStep, HangUp, ForgetCall, MarkDisconnected, Chain, core, reset, giveup, modem, conn
<1>2. pc' = [pc EXCEPT ![p] = pc'[p]] /\ UNCHANGED after
      /\ \/ pc[p] \in {"hangup", "forget"} /\ pc'[p] \in {"forget", "hungup"}
         \/ pc[p] = "hungup" /\ pc'[p] = (IF p = Loop THEN after ELSE "idle")
  BY DEF HangUp, ForgetCall, MarkDisconnected, Goto, Types, ControlOK, locals
<1>3. FlagStep /\ WayStep
  <2>1. UNCHANGED <<recent, pending, deferred, queueing, eventCh, inbox, recovering, timers, fired>>
    BY DEF HangUp, ForgetCall, MarkDisconnected, reset, timing, modem
  <2> QED BY <1>2, <2>1, NothingMoves DEF Retried, Deferring, Types, ControlOK, Procs
<1>4. PlaceStep
  <2>1. CASE p = Loop
    <3>1. \A c \in Callers : pc'[c] = pc[c]
      BY <1>2, <2>1, ManagerAssumption DEF Types, ControlOK, Procs
    <3>2. CASE after = "clean"
      BY <1>2, <2>1, <3>1, <3>2 DEF PlaceStep, InRecovery, Recovery, HangingUp
    <3>3. CASE after # "clean"
      BY <1>2, <2>1, <3>1, <3>3 DEF PlaceStep, InRecovery, Recovery, HangingUp, Types, ControlOK
    <3> QED BY <3>2, <3>3
  <2>2. CASE p # Loop
    BY <1>2, <2>2, ManagerAssumption DEF PlaceStep, Types, ControlOK, Procs
  <2> QED BY <2>1, <2>2
<1> QED BY <1>1, <1>3, <1>4 DEF ChainStep

(* Calls that do not stop the manager. *)
LEMMA CallKeeps ==
    ASSUME Types, Chain, NEW c \in Callers, StartCore(c) \/ Connect(c) \/ Disconnect(c)
    PROVE  ChainStep
<1>1. CoreStep
  BY DEF CoreStep, StartCore, Connect, Disconnect, Chain, core, reset, giveup, modem
<1>2. pc' = [pc EXCEPT ![c] = pc'[c]] /\ pc[c] = "idle" /\ pc'[c] \in {"open", "idle", "dial", "hangup"}
      /\ UNCHANGED after
  BY DEF StartCore, Connect, Disconnect, Goto, Types, ControlOK, Procs, locals
<1>3. FlagStep /\ WayStep
  <2>1. UNCHANGED <<recent, pending, deferred, queueing, eventCh, inbox, recovering, timers, fired>>
    BY DEF StartCore, Connect, Disconnect, reset, timing, modem
  <2> QED BY <1>2, <2>1, NothingMoves, ManagerAssumption DEF Retried, Deferring, Types, ControlOK, Procs
<1>4. PlaceStep
  BY <1>2, ManagerAssumption DEF PlaceStep, Types, ControlOK, Procs
<1> QED BY <1>1, <1>3, <1>4 DEF ChainStep

(* The event loop outside a recovery: ticks, events, the status check. *)
LEMMA LoopKeeps ==
    ASSUME Types, Chain, LoopTicks \/ LoopSends \/ handleEvent
    PROVE  ChainStep
<1>0. pc' = [pc EXCEPT ![Loop] = pc'[Loop]]
  BY DEF LoopTicks, LoopSends, handleEvent, Goto, Types, ControlOK, Procs
<1>1. CoreStep
  BY DEF CoreStep, LoopTicks, LoopSends, handleEvent, Chain, conn, core, reset, giveup, modem
<1>2. PlaceStep
  <2>1. \A c \in Callers : pc'[c] = pc[c]
    BY <1>0, ManagerAssumption DEF Types, ControlOK, Procs
  <2>2. CASE LoopTicks \/ LoopSends
    BY <2>1, <2>2 DEF LoopTicks, LoopSends, AtSelect, Goto, PlaceStep, InRecovery, Recovery, HangingUp, Types, ControlOK, Procs
  <2>3. CASE handleEvent
    <3>1. pc[Loop] = "select" /\ pc'[Loop] \in {"dial", "hangup", "select", "reset", "check"} /\ after' = "select"
      BY <2>3, HandlerFacts DEF handleEvent, AtSelect, Goto, Types, ControlOK, Procs
    <3> QED BY <2>1, <3>1 DEF PlaceStep, InRecovery, Recovery, HangingUp
  <2> QED BY <2>2, <2>3
<1>3. FlagStep /\ WayStep
  <2>1. CASE LoopTicks
    <3>1. UNCHANGED <<recent, pending, deferred, queueing, eventCh, inbox, recovering, timers, fired>> /\ pc[Loop] # "reset"
      BY <2>1 DEF LoopTicks, AtSelect, reset, timing, modem
    <3> QED BY <3>1, NothingMoves DEF Retried, Deferring
  <2>2. CASE LoopSends
    <3>1. UNCHANGED <<recent, pending, deferred, queueing, inbox, recovering, timers, fired>> /\ pc[Loop] # "reset"
          /\ (Send("CheckFull") \/ Send("Start"))
      BY <2>2 DEF LoopSends, reset, timing, modem
    <3>2. Queued => Queued'
      BY <3>1, SendFacts DEF Queued, Deferring, Types, Events
    <3>3. (Told => Told') /\ (Retried => Retried')
      BY <3>1 DEF Told, Retried
    <3> QED BY <3>1, <3>2, <3>3 DEF FlagStep, WayStep, Deferring
  <2>3. CASE handleEvent
    <3>1. UNCHANGED <<recent, pending, deferred, queueing, inbox, recovering, fired>> /\ timers' \in {timers, timers \cup {"check"}}
      BY <2>3 DEF handleEvent, reset, timing, modem
    <3>2. Queued => Queued'
      <4>1. pc[Loop] = "select" /\ eventCh # <<>> /\ eventCh' = Tail(eventCh) /\ pc'[Loop] = handler[Head(eventCh)]
        BY <2>3 DEF handleEvent, AtSelect, Goto, Types, ControlOK, Procs
      <4>2. Head(eventCh) = "ModemReset" => pc'[Loop] = "reset"
        BY <4>1, HandlerFacts DEF Types
      <4> QED BY <3>1, <4>1, <4>2, TakeFacts DEF Queued, Deferring, Types
    <3>3. (Told => Told') /\ (Retried => Retried')
      BY <3>1 DEF Told, Retried
    <3> QED BY <3>1, <3>2, <3>3 DEF FlagStep, WayStep, Deferring
  <2> QED BY <2>1, <2>2, <2>3
<1> QED BY <1>1, <1>2, <1>3 DEF ChainStep

(* The status check. *)
LEMMA CheckKeeps ==
    ASSUME Types, Chain, CheckBegins \/ CheckQueries \/ CheckJudges \/ CheckRedials
    PROVE  ChainStep
<1>1. CoreStep
  BY DEF CoreStep, CheckBegins, CheckQueries, CheckJudges, CheckRedials, Chain, conn, core, reset, giveup, modem
<1>2. pc' = [pc EXCEPT ![Loop] = pc'[Loop]] /\ pc[Loop] \in {"check", "query", "judge", "redial"}
      /\ pc'[Loop] \in {"select", "query", "judge", "redial", "send_start", "hangup"}
      /\ (pc'[Loop] = "hangup" => after' = "redial")
  BY DEF CheckBegins, CheckQueries, CheckJudges, CheckRedials, Goto, Types, ControlOK, Procs
<1>3. FlagStep /\ WayStep
  <2>1. UNCHANGED <<recent, pending, deferred, queueing, eventCh, inbox, recovering, timers, fired>>
    BY DEF CheckBegins, CheckQueries, CheckJudges, CheckRedials, reset, timing, modem
  <2> QED BY <1>2, <2>1, NothingMoves DEF Retried, Deferring
<1>4. PlaceStep
  <2>1. \A c \in Callers : pc'[c] = pc[c]
    BY <1>2, ManagerAssumption DEF Types, ControlOK, Procs
  <2> QED BY <1>2, <2>1 DEF PlaceStep, InRecovery, Recovery, HangingUp
<1> QED BY <1>1, <1>3, <1>4 DEF ChainStep

(* A coalesced reset that is queued again, or dropped. *)
LEMMA RequeueKeeps == ASSUME Types, Threads, Chain, Requeue PROVE ChainStep
<1>1. pc[Loop] = "requeue" /\ pc' = [pc EXCEPT ![Loop] = "select"]
      /\ UNCHANGED <<recovering, eventCh, timers, fired, inbox, deferred>>
      /\ enqueueModemResetEvent(Loop)
  BY DEF Requeue, Goto, timing, modem
<1>2. ~recovering /\ ~InRecovery
  BY <1>1 DEF Chain, InRecovery, Recovery, HangingUp
<1>3. Loop \in Senders
  BY DEF Senders, Loop
<1>4. pc'[Loop] = "select" /\ \A c \in Callers : pc'[c] = pc[c]
  BY <1>1, ManagerAssumption DEF Types, ControlOK, Procs
<1>5. /\ recent' => recent \/ (~recovering /\ Queued')
      /\ pending => pending'
      /\ Queued => Queued'
      /\ Queued' \/ recent
  BY <1>1, <1>2, <1>3, EnqueueFacts DEF Deferring
<1>6. (Told => Told') /\ (Retried => Retried')
  BY <1>1 DEF Told, Retried
<1>7. CoreStep
  BY DEF CoreStep, Requeue, Chain, conn, core, giveup, modem
<1>8. PlaceStep
  BY <1>2, <1>4, <1>5 DEF PlaceStep, InRecovery, Recovery, HangingUp, DroppedInWindow
<1>9. FlagStep /\ WayStep
  BY <1>1, <1>5, <1>6 DEF FlagStep, WayStep, Threads, Deferring
<1> QED BY <1>7, <1>8, <1>9 DEF ChainStep

(* Steps in which no goroutine of the manager moves. *)
LEMMA StillPlaces == ASSUME OtherActions PROVE PlaceStep
BY OtherStep DEF PlaceStep, locals

(* Timers.  A deferred reset is queued again, or left to the recovery that    *)
(* runs; a retry may meet the dedup window.                                  *)
LEMMA TimerKeeps == ASSUME Types, Chain, Alive, TimerNext PROVE ChainStep
<1>0. PlaceStep /\ UNCHANGED pc
  BY StillPlaces, OtherStep DEF OtherActions
<1>1. CoreStep
  BY DEF CoreStep, TimerNext, TimerFires, StaleTimer, ReconnectTimer, CheckTimer, RetryTimer, DeferredTimer,
         DeferredRetryTimer, DedupWindowCloses, Chain, conn, core, reset, giveup, modem
<1>2. ASSUME NEW k \in Timers, TimerFires(k) PROVE FlagStep /\ WayStep
  <2>1. UNCHANGED <<recent, pending, deferred, queueing, eventCh, inbox, recovering>>
        /\ timers' \cup fired' = timers \cup fired
    BY <1>2 DEF TimerFires, reset, modem
  <2> QED BY <1>0, <2>1, NothingMoves DEF Retried, Deferring
<1>3. ASSUME NEW k \in Timers, StaleTimer(k) PROVE FlagStep /\ WayStep
  BY <1>3 DEF StaleTimer, Alive
<1>4. ASSUME ReconnectTimer \/ CheckTimer PROVE FlagStep /\ WayStep
  <2>1. UNCHANGED <<recent, pending, deferred, queueing, inbox, recovering, timers>>
        /\ fired' \subseteq fired /\ fired \subseteq fired' \cup {"start", "check"}
        /\ (Send("Start") \/ Send("CheckTargeted") \/ UNCHANGED eventCh)
    BY <1>4 DEF ReconnectTimer, CheckTimer, Runs, Send, reset, modem
  <2>2. Queued => Queued'
    <3>1. HasReset(eventCh) => HasReset(eventCh')
      BY <2>1, SendFacts DEF Types, Events
    <3> QED BY <1>0, <2>1, <3>1 DEF Queued, Deferring
  <2>3. (Told => Told') /\ (Retried => Retried')
    BY <2>1 DEF Told, Retried
  <2> QED BY <2>1, <2>2, <2>3 DEF FlagStep, WayStep, Deferring
<1>5. ASSUME RetryTimer PROVE FlagStep /\ WayStep
  <2>1. enqueueModemResetEvent("retry") /\ UNCHANGED <<recovering, eventCh, timers, inbox, deferred>>
        /\ fired' = fired \ {"retry"} /\ ctx # "none"
    BY <1>5 DEF RetryTimer, Runs, modem, Chain, StartsQuiet, Retried
  <2>2. "retry" \in Senders
    BY DEF Senders
  <2>3. /\ recent' => recent \/ (~recovering /\ Queued')
        /\ pending => pending'
        /\ Queued => Queued'
        /\ recovering => pending'
        /\ ~recovering => Queued' \/ recent
    BY <1>0, <2>1, <2>2, EnqueueFacts DEF Deferring
  <2>4. (Told => Told') /\ (Deferring => Deferring')
    BY <2>1 DEF Told, Deferring
  <2> QED BY <1>5, <2>1, <2>3, <2>4 DEF FlagStep, WayStep, DroppedInWindow
<1>6. ASSUME DeferredTimer \/ DeferredRetryTimer PROVE FlagStep /\ WayStep
  <2>1. /\ UNCHANGED <<eventCh, inbox, recovering, timers>> /\ fired' \subseteq fired /\ ctx # "none" /\ ~deferred'
        /\ "retry" \in fired => "retry" \in fired'
        /\ IF recovering THEN pending' /\ recent' \in {recent, FALSE} /\ UNCHANGED queueing
                         ELSE queueing' # {} /\ UNCHANGED pending
    BY <1>6 DEF DeferredTimer, DeferredRetryTimer, Runs, modem, Chain, StartsQuiet, Deferring, Types, ResetOK
  <2>2. (Told => Told') /\ (Retried => Retried')
    BY <2>1 DEF Told, Retried
  <2>3. ~recovering => Queued'
    BY <2>1 DEF Queued
  <2> QED BY <2>1, <2>2, <2>3 DEF FlagStep, WayStep
<1>7. ASSUME DedupWindowCloses PROVE FlagStep /\ WayStep
  <2>1. UNCHANGED <<pending, deferred, queueing, eventCh, inbox, recovering, timers, fired>> /\ ~recent'
    BY <1>7 DEF DedupWindowCloses, timing, modem
  <2> QED BY <1>0, <2>1 DEF FlagStep, WayStep, Queued, Told, Retried, Deferring
<1>8. FlagStep /\ WayStep
  BY <1>2, <1>3, <1>4, <1>5, <1>6, <1>7 DEF TimerNext
<1> QED BY <1>0, <1>1, <1>8 DEF ChainStep

(* The send of a reset: it is in the channel, or deferred, or dropped because *)
(* a reset is marked as deferred.                                            *)
LEMMA SendKeeps == ASSUME Types, Chain, SendNext PROVE ChainStep
<1>0. PlaceStep /\ UNCHANGED pc
  BY StillPlaces, OtherStep DEF OtherActions
<1>1. CoreStep
  BY DEF CoreStep, SendNext, QueueReset, QueueDeferred, Chain, conn, core, giveup, modem
<1>2. UNCHANGED <<recent, recovering, fired, inbox>> /\ timers \subseteq timers' /\ ctx # "none" /\ (pending => pending')
  BY DEF SendNext, QueueReset, QueueDeferred, Arm, timing, modem, Chain, StartsQuiet
<1>3. (Deferring => Deferring') /\ (deferred' => Deferring' \/ deferred)
  <2>1. Deferring => Deferring'
    BY <1>2 DEF Deferring
  <2>2. UNCHANGED deferred \/ Arm("deferred") \/ Arm("deferred_retry")
    BY DEF SendNext, QueueReset, QueueDeferred
  <2> QED BY <2>1, <2>2 DEF Arm, Deferring
<1>4. ASSUME Send("ModemReset") PROVE Queued'
  BY <1>4, SendFacts DEF Queued, Types, Events
<1>5. ASSUME NEW g \in Senders, QueueReset(g) PROVE Queued' \/ (DroppedAsDeferred /\ pending' /\ deferred)
  <2>1. CASE Send("ModemReset")
    BY <1>4, <2>1
  <2>2. CASE ~Room /\ deferred /\ pending' = TRUE
    BY <1>5, <2>2 DEF DroppedAsDeferred
  <2>3. CASE Arm("deferred")
    BY <2>3 DEF Arm, Deferring, Queued
  <2> QED BY <1>5, <2>1, <2>2, <2>3 DEF QueueReset
<1>6. ASSUME QueueDeferred PROVE Queued'
  <2>1. CASE Send("ModemReset")
    BY <1>4, <2>1
  <2>2. CASE Arm("deferred_retry")
    BY <2>2 DEF Arm, Deferring, Queued
  <2> QED BY <1>6, <2>1, <2>2 DEF QueueDeferred
<1>7. FlagStep
  BY <1>2, <1>3 DEF FlagStep
<1>8. WayStep
  <2>1. (Told => Told') /\ (Retried => Retried') /\ (Deferring => Queued')
    BY <1>2, <1>3 DEF Told, Retried, Queued
  <2> QED BY <1>5, <1>6, <2>1 DEF WayStep, SendNext
<1> QED BY <1>0, <1>1, <1>7, <1>8 DEF ChainStep

(* Indications: a reset may meet the dedup window. *)
LEMMA IndicationKeeps == ASSUME Types, Threads, Chain, Alive, IndicationNext PROVE ChainStep
<1>0. PlaceStep /\ UNCHANGED pc
  BY StillPlaces, OtherStep DEF OtherActions
<1>1. CoreStep
  BY DEF CoreStep, IndicationNext, IndicationArrives, IndicationSends, IndicationExits, Chain, conn, core, reset,
         giveup, modem
<1>2. ASSUME IndicationArrives PROVE FlagStep /\ WayStep
  <2>1. inbox # <<>> /\ inbox' = Tail(inbox) /\ UNCHANGED <<recovering, deferred, eventCh, timers, fired>>
    BY <1>2 DEF IndicationArrives, timing
  <2>2. CASE Head(inbox) = "reset" /\ enqueueModemResetEvent("indication")
    <3>1. "indication" \in Senders
      BY DEF Senders
    <3>2. /\ recent' => recent \/ (~recovering /\ Queued')
          /\ pending => pending'
          /\ Queued => Queued'
          /\ recovering => pending'
          /\ ~recovering => Queued' \/ recent
      BY <1>0, <2>1, <2>2, <3>1, EnqueueFacts DEF Deferring
    <3>3. ctx # "none"
      BY <1>2 DEF IndicationArrives, Threads
    <3>4. (Retried => Retried') /\ (Deferring => Deferring')
      BY <2>1 DEF Retried, Deferring
    <3> QED BY <1>2, <2>1, <3>2, <3>3, <3>4 DEF FlagStep, WayStep, DroppedInWindow
  <2>3. CASE Head(inbox) = "status" /\ UNCHANGED <<pending, recent, queueing>>
    <3>1. Told => Told'
      BY <2>1, <2>3, ReadFacts DEF Types
    <3> QED BY <1>0, <2>1, <2>3, <3>1 DEF FlagStep, WayStep, Queued, Retried, Deferring
  <2> QED BY <1>2, <2>2, <2>3 DEF IndicationArrives
<1>3. ASSUME IndicationSends PROVE FlagStep /\ WayStep
  <2>1. Send("StatusChanged") /\ UNCHANGED <<recent, pending, deferred, queueing, inbox, recovering, timers, fired>>
    BY <1>3 DEF IndicationSends, reset, timing, modem
  <2>2. Queued => Queued'
    BY <1>0, <2>1, SendFacts DEF Queued, Deferring, Types, Events
  <2> QED BY <2>1, <2>2 DEF FlagStep, WayStep, Told, Retried, Deferring
<1>4. ASSUME IndicationExits PROVE FlagStep /\ WayStep
  BY <1>4 DEF IndicationExits, Alive
<1>5. FlagStep /\ WayStep
  BY <1>2, <1>3, <1>4 DEF IndicationNext
<1> QED BY <1>0, <1>1, <1>5 DEF ChainStep

(* The modem, and a service that asks for a recovery. *)
LEMMA ModemKeeps == ASSUME Types, Chain, ModemNext PROVE ChainStep
<1>0. PlaceStep /\ UNCHANGED pc
  BY StillPlaces, OtherStep DEF OtherActions
<1>1. CASE ModemResets \/ StatusIndication
  <2>1. /\ \/ Notify("reset")
           \/ Notify("status") /\ epoch' = epoch
        /\ UNCHANGED <<recent, pending, deferred, queueing, eventCh, recovering, timers, fired, state, coreReady, client,
                       ctx, gaveUp>>
    BY <1>1 DEF ModemResets, StatusIndication, conn, core, reset, timing, giveup
  <2>2. (Told => Told') /\ (epoch' = epoch \/ client = 0 \/ Told')
    BY <2>1, NotifyFacts DEF Types
  <2>3. CoreStep
    BY <2>1, <2>2 DEF CoreStep, Chain
  <2>4. FlagStep /\ WayStep
    BY <1>0, <2>1, <2>2 DEF FlagStep, WayStep, Queued, Retried, Deferring
  <2> QED BY <1>0, <2>3, <2>4 DEF ChainStep
<1>2. CASE NetworkDropsCalls
  <2>1. UNCHANGED <<recent, pending, deferred, queueing, eventCh, inbox, recovering, timers, fired, state, coreReady,
                    client, ctx, gaveUp, epoch>>
    BY <1>2 DEF NetworkDropsCalls, conn, core, reset, timing, giveup
  <2>2. CoreStep
    BY <2>1 DEF CoreStep, Chain
  <2>3. FlagStep /\ WayStep
    BY <1>0, <2>1, NothingMoves DEF Retried, Deferring
  <2> QED BY <1>0, <2>2, <2>3 DEF ChainStep
<1>3. CASE RequestCoreRecovery
  <2>1. /\ enqueueModemResetEvent("service")
        /\ UNCHANGED <<recovering, deferred, eventCh, inbox, timers, fired, state, coreReady, client, ctx, gaveUp, epoch>>
    BY <1>3 DEF RequestCoreRecovery, conn, core, timing, giveup, modem
  <2>2. CoreStep
    BY <2>1 DEF CoreStep, Chain
  <2>3. "service" \in Senders
    BY DEF Senders
  <2>4. /\ recent' => recent \/ (~recovering /\ Queued')
        /\ pending => pending'
        /\ Queued => Queued'
    BY <1>0, <2>1, <2>3, EnqueueFacts DEF Deferring
  <2>5. ctx # "none"
    BY <1>3 DEF RequestCoreRecovery, Chain, StartsQuiet
  <2>6. FlagStep /\ WayStep
    BY <2>1, <2>4, <2>5 DEF FlagStep, WayStep, Retried, Told, Deferring
  <2> QED BY <1>0, <2>2, <2>6 DEF ChainStep
<1> QED BY <1>1, <1>2, <1>3 DEF ModemNext

-----------------------------------------------------------------------------
(* The start, and the steps of a recovery.                                  *)

(* Before a start has launched the loops, none runs, and nobody else starts. *)
LEMMA BeforeLaunch ==
    ASSUME OneOwner, Types, Roles, Threads, Chain, NEW c \in Callers, pc[c] \in {"open", "launch"}
    PROVE  /\ ctx = "none" /\ pc[Loop] = "off" /\ ~recovering /\ ~coreReady /\ ~Retried /\ ~Deferring /\ queueing = {}
           /\ ~recent /\ ~deferred
           /\ \A d \in Callers : pc[d] \in {"launch", "ready", "settle"} => d = c
<1>1. ctx = "none" /\ pc[Loop] = "off"
  BY DEF Threads
<1>2. ~recovering /\ ~coreReady /\ ~Retried /\ ~Deferring /\ queueing = {} /\ ~recent /\ ~deferred
  BY <1>1 DEF Chain, InRecovery, Recovery, HangingUp, StartsQuiet
<1>3. \A d \in Callers : pc[d] \in {"launch", "ready", "settle"} => d = c
  BY OneRole DEF Starting
<1> QED BY <1>1, <1>2, <1>3

(* A start opens the client. *)
LEMMA ChainStartOpens ==
    ASSUME OneOwner, Types, ModemIsFinite, Roles, Threads, Chain, NEW c \in Callers, StartOpens(c)
    PROVE  Chain' /\ ctx' = "none"
<1>1. /\ ctx = "none" /\ pc[Loop] = "off" /\ ~recovering /\ ~coreReady /\ ~Retried /\ ~Deferring /\ queueing = {}
      /\ ~recent /\ ~deferred
      /\ \A d \in Callers : pc[d] \in {"launch", "ready", "settle"} => d = c
  BY BeforeLaunch DEF StartOpens
<1>2. /\ UNCHANGED <<ctx, eventCh, recovering, pending, recent, deferred, queueing, gaveUp, after, epoch, fired>>
      /\ state' # "Stopping" /\ ~coreReady' /\ client' \in {0, epoch} /\ timers' \subseteq timers
      /\ pc' = [pc EXCEPT ![c] = pc'[c]]
      /\ (pc'[c] = "launch" /\ client' = epoch) \/ pc'[c] = "idle"
  BY <1>1 DEF StartOpens, cleanup, stopScheduledTimers, Goto, Chain, reset, giveup, timing, loopLocals, Types, ControlOK,
              Procs
<1>3. pc'[Loop] = "off" /\ \A d \in Callers \ {c} : pc'[d] = pc[d]
  BY <1>1, <1>2, ManagerAssumption DEF Types, ControlOK, Procs
<1>4. ~Launched' /\ (Opened' => client' = epoch /\ client' # 0)
  BY <1>1, <1>2, <1>3 DEF Launched, Opened, ModemIsFinite
<1>5. StartsQuiet' /\ HasClient' /\ Starts'
  BY <1>1, <1>2, <1>3, <1>4 DEF StartsQuiet, HasClient, Starts, Retried, Deferring, Launched
<1>6. DedupIsSafe' /\ DeferralIsArmed' /\ DownIsSeen' /\ CutOffIsSeen'
  BY <1>1, <1>2, <1>3, <1>4 DEF DedupIsSafe, DeferralIsArmed, DownIsSeen, CutOffIsSeen
<1>7. recovering' <=> InRecovery'
  BY <1>1, <1>2, <1>3 DEF InRecovery, Recovery, HangingUp
<1> QED BY <1>1, <1>2, <1>5, <1>6, <1>7 DEF Chain

(* It launches the loops. *)
LEMMA ChainStartLaunches ==
    ASSUME OneOwner, Types, Roles, Threads, Chain, NEW c \in Callers, StartLaunches(c)
    PROVE  Chain' /\ pc'[c] = "ready"
<1>1. /\ ctx = "none" /\ pc[Loop] = "off" /\ ~recovering /\ ~coreReady /\ ~Retried /\ ~Deferring /\ queueing = {}
      /\ ~recent /\ ~deferred
      /\ \A d \in Callers : pc[d] \in {"launch", "ready", "settle"} => d = c
  BY BeforeLaunch DEF StartLaunches
<1>2. /\ UNCHANGED <<state, coreReady, client, eventCh, recovering, pending, recent, deferred, queueing, gaveUp, after,
                     epoch, inbox, fired>>
      /\ timers' = {} /\ ctx' = "live" /\ pc[c] = "launch" /\ pc' = [pc EXCEPT ![c] = "ready", ![Loop] = "select"]
  BY DEF StartLaunches, stopScheduledTimers, conn, core, reset, giveup, modem, locals
<1>3. pc'[Loop] = "select" /\ pc'[c] = "ready" /\ \A d \in Callers \ {c} : pc'[d] = pc[d]
  BY <1>2, ManagerAssumption DEF Types, ControlOK, Procs
<1>4. Opened /\ client # 0
  BY <1>2 DEF Opened, Chain, Starts
<1>5. \A d \in Callers : pc'[d] # "settle"
  BY <1>1, <1>3
<1>6. StartsQuiet' /\ HasClient' /\ Starts'
  BY <1>1, <1>2, <1>3, <1>4, <1>5 DEF StartsQuiet, HasClient, Starts, Recovery
<1>7. DedupIsSafe' /\ DeferralIsArmed' /\ DownIsSeen'
  BY <1>1, <1>2, <1>3 DEF DedupIsSafe, DeferralIsArmed, DownIsSeen
<1>8. CutOffIsSeen'
  <2>1. (Queued => Queued') /\ (Told => Told')
    BY <1>1, <1>2 DEF Queued, Told
  <2> QED BY <1>1, <1>2, <1>3, <1>4, <2>1 DEF CutOffIsSeen, Chain
<1>9. state' # "Stopping" /\ (recovering' <=> InRecovery')
  BY <1>1, <1>2, <1>3 DEF InRecovery, Recovery, HangingUp, Chain
<1> QED BY <1>3, <1>6, <1>7, <1>8, <1>9 DEF Chain

(* The end of a start and of a recovery leaves the reset that is queued, or  *)
(* pending, where it is.                                                     *)
LEMMA ChainReady ==
    ASSUME OneOwner, Types, Roles, Threads, Chain, NEW p \in Procs, MarkReady(p) \/ Settle(p)
    PROVE  Chain' /\ SafeStep
<1>1. /\ UNCHANGED <<client, ctx, eventCh, recovering, pending, recent, deferred, queueing, gaveUp, after, epoch, inbox,
                     fired>>
      /\ (timers' = timers \/ timers' = timers \cup {"start"})
      /\ (state' = state \/ state' = "Disconnected")
      /\ pc' = [pc EXCEPT ![p] = pc'[p]]
      /\ \/ pc[p] = "ready" /\ pc'[p] = "settle"
         \/ pc[p] = "settle" /\ pc'[p] = (IF p = Loop THEN "recovered" ELSE "idle") /\ UNCHANGED coreReady
  BY DEF MarkReady, Settle, Arm, Goto, conn, core, reset, timing, giveup, modem, locals, Types, ControlOK, Procs
<1>2. coreReady'
  <2>1. CASE MarkReady(p)  BY <2>1 DEF MarkReady
  <2>2. CASE Settle(p)
    <3>1. pc[p] = "settle" /\ UNCHANGED coreReady
      BY <2>2 DEF Settle, core
    <3>2. coreReady
      BY <3>1 DEF Chain, HasClient, Starts, Procs
    <3> QED BY <3>1, <3>2
  <2> QED BY <2>1, <2>2
<1>3. (Queued => Queued') /\ (Told => Told') /\ (Deferring => Deferring')
  <2>1. Deferring => Deferring'  BY <1>1 DEF Deferring
  <2>2. pc[Loop] = "reset" => pc'[Loop] = "reset"  BY <1>1 DEF Types, ControlOK, Procs
  <2> QED BY <1>1, <2>1, <2>2 DEF Queued, Told
<1>4. state' # "Stopping"
  BY <1>1 DEF Chain
<1>5. CASE p = Loop
  <2>1. pc[Loop] \in {"ready", "settle"} /\ pc'[Loop] \in {"settle", "recovered"} /\ \A c \in Callers : pc'[c] = pc[c]
    BY <1>1, <1>5, ManagerAssumption DEF Types, ControlOK, Procs
  <2>2. recovering /\ ~recent /\ ctx # "none" /\ client # 0 /\ ~Launched /\ (client # epoch => pending \/ Told)
    BY <2>1 DEF Chain, InRecovery, Recovery, Threads, Starts, HasClient, DedupIsSafe, CutOffIsSeen
  <2>3. ~Launched' /\ \A c \in Callers : pc'[c] # "settle"
    BY <2>1, <2>2 DEF Launched
  <2>4. StartsQuiet' /\ HasClient' /\ Starts'
    BY <1>1, <1>2, <2>1, <2>2, <2>3 DEF StartsQuiet, HasClient, Starts
  <2>5. DedupIsSafe' /\ DeferralIsArmed' /\ DownIsSeen'
    BY <1>1, <1>2, <2>2, <2>3 DEF DedupIsSafe, DeferralIsArmed, DownIsSeen
  <2>6. CutOffIsSeen'
    BY <1>1, <1>3, <2>2 DEF CutOffIsSeen
  <2>7. recovering' /\ InRecovery'
    BY <1>1, <2>1, <2>2 DEF InRecovery, Recovery
  <2> QED BY <1>4, <2>4, <2>5, <2>6, <2>7, Recovering DEF Chain
<1>6. CASE p # Loop
  <2>1. p \in Callers /\ pc[p] \in {"ready", "settle"} /\ Launched /\ Opened
    BY <1>1, <1>6 DEF Procs, Launched, Opened
  <2>2. pc'[Loop] = pc[Loop] /\ (\A c \in Callers \ {p} : pc'[c] = pc[c]) /\ pc'[p] \in {"settle", "idle"}
    BY <1>1, <1>6, <2>1, ManagerAssumption DEF Types, ControlOK, Procs
  <2>3. ctx # "none" /\ client # 0 /\ pc[Loop] \notin Recovery \ {"clean"}
        /\ (recent /\ ~recovering => Queued) /\ (deferred => Deferring)
        /\ (client # epoch => Told \/ Queued \/ recovering)
    BY <2>1 DEF Chain, Starts, DedupIsSafe, DeferralIsArmed, CutOffIsSeen
  <2>4. StartsQuiet' /\ HasClient' /\ Starts'
    BY <1>1, <1>2, <2>2, <2>3 DEF StartsQuiet, HasClient, Starts, Recovery
  <2>5. DedupIsSafe' /\ DeferralIsArmed' /\ DownIsSeen' /\ CutOffIsSeen'
    BY <1>1, <1>2, <1>3, <2>2, <2>3 DEF DedupIsSafe, DeferralIsArmed, DownIsSeen, CutOffIsSeen, Recovery
  <2>6. recovering' <=> InRecovery'
    BY <1>1, <2>2 DEF Chain, InRecovery
  <2>7. SafeStep
    BY <1>1, <1>2, <1>3, <2>3, OnTheWay DEF SafeStep, Stranded, CutOff, OnWay
  <2> QED BY <1>4, <2>4, <2>5, <2>6, <2>7 DEF Chain
<1> QED BY <1>5, <1>6

(* While a recovery goes on, or one is about to, no start does, but for the  *)
(* end of one that the first request of the recovery waits for.              *)
LEMMA InRecoveryFacts ==
    ASSUME Types, Threads, Chain, pc[Loop] # "off"
    PROVE  /\ ctx # "none" /\ (Opened => Launched)
           /\ pc[Loop] \in Recovery \ {"clean"} => ~Launched /\ ~Opened
BY DEF Threads, Chain, Starts, Opened, Launched

(* A reset that is taken from the channel is now a recovery. *)
LEMMA ChainTakes == ASSUME Types, Threads, Chain, handleModemResetEvent PROVE Chain' /\ recovering'
<1>1. /\ pc[Loop] = "reset" /\ recovering' /\ ~pending' /\ after' = "clean" /\ pc' = [pc EXCEPT ![Loop] = "hangup"]
      /\ UNCHANGED <<state, coreReady, client, ctx, eventCh, recent, deferred, queueing, timers, fired, epoch, inbox>>
  BY DEF handleModemResetEvent, Chain, Goto, conn, core, timing, modem
<1>2. pc'[Loop] = "hangup" /\ \A c \in Callers : pc'[c] = pc[c]
  BY <1>1, ManagerAssumption DEF Types, ControlOK, Procs
<1>3. state' # "Stopping" /\ InRecovery'
  BY <1>1, <1>2 DEF InRecovery, HangingUp, Chain
<1>4. ctx # "none" /\ (Opened' <=> Opened) /\ (Launched' <=> Launched)
  BY <1>1, <1>2, InRecoveryFacts DEF Opened, Launched
<1>5. StartsQuiet' /\ HasClient' /\ Starts'
  BY <1>1, <1>2, <1>4 DEF StartsQuiet, HasClient, Starts, Recovery, Chain
<1>6. DedupIsSafe' /\ DeferralIsArmed' /\ DownIsSeen' /\ CutOffIsSeen'
  BY <1>1, <1>2, <1>4 DEF DedupIsSafe, DeferralIsArmed, Deferring, DownIsSeen, CutOffIsSeen, Chain
<1> QED BY <1>1, <1>3, <1>5, <1>6 DEF Chain

(* A recovery takes the core down, once no start is at its end. *)
LEMMA ChainCleans == ASSUME StartIsPrompt, Types, Threads, Chain, RecoverCleans PROVE Chain' /\ recovering'
<1>1. /\ pc[Loop] = "clean" /\ client' = 0 /\ ~coreReady' /\ pc' = [pc EXCEPT ![Loop] = "reopen"]
      /\ UNCHANGED <<state, ctx, recovering>>
      /\ ~Launched
  BY DEF RecoverCleans, cleanup, Goto, reset, Launched
<1>2. pc'[Loop] = "reopen" /\ \A c \in Callers : pc'[c] = pc[c]
  BY <1>1, ManagerAssumption DEF Types, ControlOK, Procs
<1>3. state' # "Stopping" /\ recovering' /\ InRecovery'
  BY <1>1, <1>2 DEF InRecovery, Recovery, Chain
<1>4. ctx # "none" /\ ~Opened' /\ ~Launched' /\ \A c \in Callers : pc'[c] # "settle"
  BY <1>1, <1>2, InRecoveryFacts DEF Opened, Launched
<1>5. StartsQuiet' /\ HasClient' /\ Starts'
  BY <1>1, <1>2, <1>4 DEF StartsQuiet, HasClient, Starts
<1>6. DedupIsSafe' /\ DeferralIsArmed' /\ DownIsSeen' /\ CutOffIsSeen'
  BY <1>1, <1>2, <1>3, <1>4 DEF DedupIsSafe, DeferralIsArmed, DownIsSeen, CutOffIsSeen
<1> QED BY <1>3, <1>5, <1>6 DEF Chain

(* A re-open gives a client of the present epoch, or arms a retry, or gives  *)
(* up.                                                                       *)
LEMMA ChainReopens ==
    ASSUME Types, ModemIsFinite, Threads, Chain, RecoverReopens
    PROVE  Chain' /\ recovering'
<1>1. /\ pc[Loop] = "reopen" /\ ~coreReady' /\ pc' = [pc EXCEPT ![Loop] = pc'[Loop]]
      /\ UNCHANGED <<ctx, recovering, epoch>>
      /\ (state' = state \/ state' = "Disconnected")
      /\ \/ client' = epoch /\ pc'[Loop] = "quiet"
         \/ client' = client /\ pc'[Loop] = "recovered" /\ ("retry" \in timers' \/ gaveUp')
  <2>1. pc[Loop] = "reopen" /\ ~coreReady' /\ pc' = [pc EXCEPT ![Loop] = pc'[Loop]] /\ UNCHANGED <<ctx, recovering, epoch>>
    BY DEF RecoverReopens, Goto, reset, Types, ControlOK, Procs
  <2>2. CASE client' = epoch /\ Goto(Loop, "quiet") /\ UNCHANGED <<state, timing, giveup>>
    BY <2>1, <2>2 DEF Goto, Types, ControlOK, Procs
  <2>3. CASE /\ state' = "Disconnected"
             /\ scheduleRecoverRetry \/ (failing' = FALSE /\ gaveUp' = TRUE /\ UNCHANGED timing)
             /\ Goto(Loop, "recovered")
             /\ UNCHANGED <<client, inbox>>
    <3>1. "retry" \in timers' \/ gaveUp'
      BY <2>3 DEF scheduleRecoverRetry, Arm
    <3> QED BY <2>1, <2>3, <3>1 DEF Goto, Types, ControlOK, Procs
  <2> QED BY <2>1, <2>2, <2>3 DEF RecoverReopens
<1>2. \A c \in Callers : pc'[c] = pc[c]
  BY <1>1, ManagerAssumption DEF Types, ControlOK, Procs
<1>3. state' # "Stopping" /\ recovering' /\ InRecovery'
  BY <1>1 DEF InRecovery, Recovery, Chain
<1>4. ctx # "none" /\ ~Opened' /\ ~Launched' /\ (\A c \in Callers : pc'[c] # "settle") /\ client = 0 /\ epoch # 0
  BY <1>1, <1>2, InRecoveryFacts DEF Opened, Launched, Recovery, Chain, HasClient, ModemIsFinite
<1>5. StartsQuiet' /\ HasClient' /\ Starts'
  BY <1>1, <1>2, <1>4 DEF StartsQuiet, HasClient, Starts
<1>6. DedupIsSafe' /\ DeferralIsArmed'
  BY <1>1, <1>3, <1>4 DEF DedupIsSafe, DeferralIsArmed
<1>7. DownIsSeen' /\ CutOffIsSeen'
  BY <1>1, <1>4 DEF DownIsSeen, CutOffIsSeen, Retried
<1> QED BY <1>3, <1>5, <1>6, <1>7 DEF Chain

(* The quiet window ends without a reset, and the dedup window with it, or   *)
(* the reset that came is pending.                                           *)
LEMMA ChainWaits ==
    ASSUME Types, Threads, Chain, Alive, waitResetQuietWindow
    PROVE  Chain' /\ recovering'
<1>1. /\ pc[Loop] = "quiet" /\ ~coreReady'
      /\ UNCHANGED <<state, client, ctx, recovering, pending, recent, epoch, inbox, gaveUp>>
      /\ \/ ~pending /\ ~recent /\ pc' = [pc EXCEPT ![Loop] = "ready"]
         \/ pending /\ pc' = [pc EXCEPT ![Loop] = "recovered"]
  BY DEF waitResetQuietWindow, Alive, Goto, conn, reset, giveup, modem
<1>2. /\ pc'[Loop] \in {"ready", "recovered"} /\ (pc'[Loop] = "recovered" => pending') /\ (pc'[Loop] = "ready" => ~recent')
      /\ \A c \in Callers : pc'[c] = pc[c]
  BY <1>1, ManagerAssumption DEF Types, ControlOK, Procs
<1>3. state' # "Stopping" /\ recovering' /\ InRecovery'
  BY <1>1, <1>2 DEF InRecovery, Recovery, Chain
<1>4. ctx # "none" /\ ~Opened' /\ ~Launched' /\ (\A c \in Callers : pc'[c] # "settle") /\ client # 0
  BY <1>1, <1>2, InRecoveryFacts DEF Opened, Launched, Recovery, Chain, HasClient
<1>5. StartsQuiet' /\ HasClient' /\ Starts'
  BY <1>1, <1>2, <1>4 DEF StartsQuiet, HasClient, Starts
<1>6. DedupIsSafe' /\ DeferralIsArmed' /\ DownIsSeen'
  BY <1>1, <1>2, <1>3, <1>4 DEF DedupIsSafe, DeferralIsArmed, DownIsSeen
<1>7. CutOffIsSeen'
  BY <1>1, <1>4 DEF CutOffIsSeen, Told, Chain
<1> QED BY <1>3, <1>5, <1>6, <1>7 DEF Chain

(* The end of a recovery: what is pending is queued again. *)
LEMMA ChainHandled == ASSUME Types, Threads, Chain, Alive, ResetHandled PROVE Chain' /\ SafeStep
<1>1. /\ pc[Loop] = "recovered" /\ ~recovering' /\ ~pending'
      /\ pc' = [pc EXCEPT ![Loop] = IF pending THEN "requeue" ELSE "select"]
      /\ UNCHANGED <<state, coreReady, client, ctx, recent, timers, fired, epoch, inbox, gaveUp>>
  BY DEF ResetHandled, Goto, conn, core, timing, giveup, modem
<1>2. pc'[Loop] = (IF pending THEN "requeue" ELSE "select") /\ \A c \in Callers : pc'[c] = pc[c]
  BY <1>1, ManagerAssumption DEF Types, ControlOK, Procs
<1>3. state' # "Stopping" /\ ~InRecovery'
  BY <1>1, <1>2 DEF InRecovery, Recovery, HangingUp, Chain
<1>4. (Told => Told') /\ (Retried => Retried')
  BY <1>1 DEF Told, Retried
<1>5. ctx # "none" /\ ~Opened' /\ ~Launched' /\ \A c \in Callers : pc'[c] # "settle"
  BY <1>1, <1>2, InRecoveryFacts DEF Opened, Launched, Recovery
<1>6. StartsQuiet' /\ HasClient' /\ Starts'
  BY <1>1, <1>2, <1>5 DEF StartsQuiet, HasClient, Starts, Chain
<1>7. DedupIsSafe' /\ DeferralIsArmed' /\ DownIsSeen' /\ CutOffIsSeen'
  BY <1>1, <1>2, <1>5 DEF DedupIsSafe, DeferralIsArmed, DownIsSeen, CutOffIsSeen, Chain
<1>8. SafeStep
  <2>1. ~coreReady' => gaveUp' \/ OnWay'
    BY <1>1, <1>2, <1>4 DEF Chain, DownIsSeen, OnWay
  <2>2. coreReady' => client' = epoch' \/ OnWay'
    BY <1>1, <1>2, <1>4 DEF Chain, HasClient, CutOffIsSeen, OnWay
  <2> QED BY <2>1, <2>2, OnTheWay DEF SafeStep, Stranded, CutOff
<1> QED BY <1>1, <1>3, <1>6, <1>7, <1>8 DEF Chain

-----------------------------------------------------------------------------
(* The chain, while nobody has begun to stop the manager. *)
RInv == IInv /\ StopInv /\ (Alive => Chain)

(* It holds before anything runs. *)
LEMMA InitRInv == Init => RInv
<1> SUFFICES ASSUME Init PROVE Chain
  BY InitInvs DEF RInv
<1>1. (\A c \in Callers : pc[c] = "idle") /\ pc[Loop] = "off"
  BY ManagerAssumption DEF Init, Procs
<1>2. ~Opened /\ ~Launched /\ \A c \in Callers : pc[c] # "settle"
  BY <1>1 DEF Opened, Launched
<1>3. state # "Stopping" /\ (recovering <=> InRecovery)
  BY <1>1 DEF Init, InRecovery, Recovery, HangingUp
<1>4. StartsQuiet /\ HasClient /\ Starts
  BY <1>1, <1>2 DEF Init, StartsQuiet, HasClient, Starts, Retried, Deferring
<1>5. DedupIsSafe /\ DeferralIsArmed /\ DownIsSeen /\ CutOffIsSeen
  BY <1>1, <1>2 DEF Init, DedupIsSafe, DeferralIsArmed, DownIsSeen, CutOffIsSeen
<1> QED BY <1>3, <1>4, <1>5 DEF Chain

(* Every step of a manager that goes on keeps the chain, and strands the core *)
(* or leaves it cut off by a drop only.                                      *)
LEMMA NextChain ==
    ASSUME OneOwner, StartIsPrompt,
           Types, ModemIsFinite, Roles, Threads, Chain, Alive, Alive', [Next]_vars
    PROVE  Chain' /\ SafeStep
<1>0. ASSUME ChainStep PROVE Chain' /\ SafeStep
  BY <1>0, ChainKept, WayKept
<1>1. ASSUME NEW p \in Procs, Procedure(p) PROVE Chain' /\ SafeStep
  <2>1. CASE MarkReady(p) \/ Settle(p)  BY <2>1, ChainReady
  <2>2. CASE \/ doConnect(p) \/ ensureDataPlane(p) \/ ServiceAllocated(p) \/ StoreService(p) \/ EnsureWDA(p)
             \/ StartNetworkInterface(p) \/ CallAnswered(p) \/ StoreHandle(p)
             \/ MarkConnected(p) \/ handleDialFailure(p)
    BY <1>0, <2>2, DialKeeps DEF Alive, LoopSurvives
  <2>3. CASE HangUp(p) \/ ForgetCall(p) \/ MarkDisconnected(p)  BY <1>0, <2>3, HangUpKeeps
  <2> QED BY <1>1, <2>1, <2>2, <2>3 DEF Procedure
<1>2. ASSUME NEW c \in Callers, CallerActions(c) PROVE Chain' /\ SafeStep
  <2>1. CASE StartOpens(c)
    <3>1. Chain' /\ ctx' = "none"  BY <2>1, ChainStartOpens
    <3> QED BY <3>1, NotRunning DEF Running
  <2>2. CASE StartLaunches(c)
    <3>1. Chain' /\ pc'[c] = "ready"  BY <2>2, ChainStartLaunches
    <3> QED BY <3>1, NotRunning DEF Running
  <2>3. CASE Procedure(c)  BY <1>1, <2>3 DEF Procs
  <2>4. CASE StartCore(c) \/ Connect(c) \/ Disconnect(c)  BY <1>0, <2>4, CallKeeps
  <2>5. CASE Stop(c)
    <3>1. pc'[c] \in Stopping
      BY <2>5 DEF Stop, Goto, Stopping, Types, ControlOK, Procs
    <3> QED BY <3>1 DEF Alive
  <2>6. CASE StopCancels(c) \/ StopJoins(c) \/ StopReturns(c)
    BY <2>6 DEF StopCancels, StopJoins, StopReturns, Alive, Stopping
  <2> QED BY <1>2, <2>1, <2>2, <2>3, <2>4, <2>5, <2>6 DEF CallerActions, CallerNext, CallNext
<1>3. CASE LoopActions
  <2>1. CASE Procedure(Loop)  BY <1>1, <2>1 DEF Procs
  <2>2. CASE LoopTicks \/ LoopSends \/ handleEvent  BY <1>0, <2>2, LoopKeeps
  <2>3. CASE CheckBegins \/ CheckQueries \/ CheckJudges \/ CheckRedials  BY <1>0, <2>3, CheckKeeps
  <2>4. CASE LoopExits  BY <2>4 DEF LoopExits, Alive
  <2>5. CASE Requeue  BY <1>0, <2>5, RequeueKeeps
  <2>6. CASE handleModemResetEvent  BY <2>6, ChainTakes, Recovering
  <2>7. CASE RecoverCleans  BY <2>7, ChainCleans, Recovering
  <2>8. CASE RecoverReopens  BY <2>8, ChainReopens, Recovering
  <2>9. CASE waitResetQuietWindow  BY <2>9, ChainWaits, Recovering
  <2>10. CASE ResetHandled  BY <2>10, ChainHandled
  <2> QED BY <1>3, <2>1, <2>2, <2>3, <2>4, <2>5, <2>6, <2>7, <2>8, <2>9, <2>10 DEF LoopActions, LoopNext
<1>4. CASE OtherActions
  <2>1. CASE TimerNext  BY <1>0, <2>1, TimerKeeps
  <2>2. CASE SendNext  BY <1>0, <2>2, SendKeeps
  <2>3. CASE IndicationNext  BY <1>0, <2>3, IndicationKeeps
  <2>4. CASE ModemNext  BY <1>0, <2>4, ModemKeeps
  <2>5. CASE UNCHANGED vars
    <3>1. UNCHANGED <<state, coreReady, client, ctx, recovering, gaveUp, epoch, recent, pending, deferred, queueing,
                      eventCh, inbox, timers, fired, pc, after>>
      BY <2>5 DEF vars, conn, core, reset, timing, giveup, locals, modem
    <3>2. FlagStep /\ WayStep
      BY <3>1, NothingMoves DEF Retried, Deferring
    <3>3. CoreStep /\ PlaceStep
      BY <3>1 DEF CoreStep, PlaceStep, Chain
    <3> QED BY <1>0, <3>2, <3>3 DEF ChainStep
  <2> QED BY <1>4, <2>1, <2>2, <2>3, <2>4, <2>5 DEF OtherActions
<1> QED BY <1>2, <1>3, <1>4, NextCases

(* Every step keeps all of it. *)
LEMMA NextRInv ==
    ASSUME OneOwner, StartIsPrompt
    PROVE  RInv /\ [Next]_vars => RInv' /\ SafeStep
<1> SUFFICES ASSUME RInv, [Next]_vars PROVE RInv' /\ SafeStep
  OBVIOUS
<1>1. Types /\ ModemIsFinite /\ Roles /\ Threads
  BY TypeSplit DEF RInv, IInv, StopInv
<1>2. IInv' /\ StopInv'
  BY NextIInv, NextStopInv DEF RInv
<1>3. ASSUME Alive' PROVE Chain' /\ SafeStep
  <2>1. Alive
    BY <1>1, <1>3, AliveBack
  <2> QED BY <1>1, <1>3, <2>1, NextChain DEF RInv
<1>4. ASSUME ~Alive' PROVE SafeStep
  BY <1>2, <1>4, RunningIsAlive, NotRunning DEF StopInv
<1> QED BY <1>2, <1>3, <1>4 DEF RInv

(* The core of a running manager is left down, with nothing under way and     *)
(* nobody told, by one of two drops only: a reset or a retry that meets the   *)
(* dedup window, or a reset that meets a full channel while another is marked *)
(* as deferred.  No order of failures, retries, resets during a recovery,     *)
(* timers that a cleanup stops and calls does it.                            *)
THEOREM OnlyDropsStrand ==
    ASSUME OneOwner, StartIsPrompt
    PROVE  Spec => StrandedByDropOnly
<1>1. Init => RInv
  BY InitRInv
<1>2. RInv /\ [Next]_vars => RInv' /\ SafeStep
  BY NextRInv
<1>3. SafeStep => (Stranded' => Stranded \/ DroppedInWindow \/ DroppedAsDeferred)
  BY DEF SafeStep
<1> QED BY <1>1, <1>2, <1>3, PTL DEF Spec, StrandedByDropOnly

(* A core that is ready is left with a client from before the modem's last   *)
(* reset, and nothing under way, only by a full channel: what the dedup       *)
(* window alone drops is never the last word on a reset.                     *)
THEOREM OnlyDeferralsCutOff ==
    ASSUME OneOwner, StartIsPrompt
    PROVE  Spec => CutOffByDeferralOnly
<1>1. Init => RInv
  BY InitRInv
<1>2. RInv /\ [Next]_vars => RInv' /\ SafeStep
  BY NextRInv
<1>3. SafeStep => (CutOff' => CutOff \/ DroppedAsDeferred \/ (DroppedInWindow /\ pending))
  BY DEF SafeStep
<1> QED BY <1>1, <1>2, <1>3, PTL DEF Spec, CutOffByDeferralOnly
=============================================================================

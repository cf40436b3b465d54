-------------------------- MODULE EsimSwitchProofs ---------------------------
(***************************************************************************)
(* Proofs about EsimSwitch: its type invariant, and that the device is     *)
(* marked as switching exactly while its newest switch is under way.       *)
(***************************************************************************)
EXTENDS EsimSwitch, TLAPS

(* Tokens are handed out in order, to one switch at a time. *)
Order ==
    \A t \in Switches :
        /\ t > seq => pc[t] \in {"none", "begin"}
        /\ t <= seq => pc[t] \notin {"none", "begin"}
        /\ pc[t] = "begin" => t = seq + 1

IInv == TypeOK /\ Order /\ MarkIsNewest

-----------------------------------------------------------------------------
LEMMA InitIInv == Init => IInv
<1> SUFFICES ASSUME Init PROVE IInv
  OBVIOUS
<1> USE SwitchAssumption DEF Init, Switches, Cards
<1>1. TypeOK
  BY DEF TypeOK, Labels, Calling, Finalizing, Unread
<1>2. Order
  BY DEF Order
<1>3. MarkIsNewest
  BY DEF MarkIsNewest
<1> QED BY <1>1, <1>2, <1>3 DEF IInv

-----------------------------------------------------------------------------
(* Types.                                                                   *)

(* A step of the call of a switch keeps the types. *)
LEMMA CallTypes == ASSUME TypeOK, NEW t \in Switches, Call(t) PROVE TypeOK'
<1> USE SwitchAssumption DEF TypeOK, Switches, Cards, Goto, Quiet, marks, snapshots, locals, identity, modem,
        Labels, Calling, Finalizing
<1>1. CASE Capture(t)  BY <1>1 DEF Capture
<1>2. CASE Begin(t)  BY <1>2 DEF Begin
<1>3. CASE Transition(t)  BY <1>3 DEF Transition, BeginTransition
<1>4. CASE ReleaseRadio(t)  BY <1>4 DEF ReleaseRadio, SetRadio
<1>5. CASE Enable(t)  BY <1>5 DEF Enable
<1> QED BY <1>1, <1>2, <1>3, <1>4, <1>5 DEF Call

(* A step after a failed switch keeps the types. *)
LEMMA FailureTypes == ASSUME TypeOK, NEW t \in Switches, Failure(t) PROVE TypeOK'
<1> USE SwitchAssumption DEF TypeOK, Switches, Cards, Goto, Quiet, marks, snapshots, locals, identity, modem,
        Labels, Calling, Finalizing
<1>1. CASE SwitchFailed(t)  BY <1>1 DEF SwitchFailed, ClearIfToken, Latest
<1>2. CASE RestoreFailed(t)  BY <1>2 DEF RestoreFailed, RestoreRadio, SetRadio
<1> QED BY <1>1, <1>2 DEF Failure

(* A step of finalize keeps the types. *)
LEMMA FinalizeTypes == ASSUME TypeOK, NEW t \in Switches, Finalize(t) PROVE TypeOK'
<1> USE SwitchAssumption DEF TypeOK, Switches, Cards, Goto, Quiet, marks, snapshots, locals, identity, modem,
        Labels, Calling, Finalizing
<1>1. CASE Resolve(t)  BY <1>1 DEF Resolve
<1>2. CASE Ensure(t)  BY <1>2 DEF Ensure, EnsureTransition, BeginTransition
<1>3. CASE Check(t)  BY <1>3 DEF Check, CheckPoints
<1>4. CASE Converge(t)  BY <1>4 DEF Converge, ScheduleRetry
<1>5. CASE BringOnline(t)  BY <1>5 DEF BringOnline, SetRadio
<1>6. CASE Runtime(t)  BY <1>6 DEF Runtime, ScheduleRetry
<1>7. CASE SimAuth(t)  BY <1>7 DEF SimAuth
<1>8. CASE Restore(t)  BY <1>8 DEF Restore, RestoreRadio, SetRadio
<1>9. CASE Clear(t)  BY <1>9 DEF Clear, ClearIfToken, Latest
<1> QED BY <1>1, <1>2, <1>3, <1>4, <1>5, <1>6, <1>7, <1>8, <1>9 DEF Finalize

(* A step that reads or publishes the identity keeps the types. *)
LEMMA IdentityTypes == ASSUME TypeOK, NEW t \in Switches, Identity(t) PROVE TypeOK'
<1> USE SwitchAssumption DEF TypeOK, Switches, Cards, Goto, Quiet, marks, snapshots, locals, identity, modem,
        Labels, Calling, Finalizing
<1>1. CASE RefreshIdentity(t)  BY <1>1 DEF RefreshIdentity, EnsureIdentity, EnsureTransition, BeginTransition
<1>2. CASE ReadIdentity(t)  BY <1>2 DEF ReadIdentity
<1>3. CASE ApplyIdentity(t)
  <2> DEFINE bad == reading[t] = NoProfile \/ (target[t] # NoProfile /\ reading[t] # target[t])
  <2>1. reading[t] \in Profiles \cup {NoProfile}
    BY <1>3 DEF ApplyIdentity
  <2>2. phase' \in {"ready", "transitioning", "degraded"} /\ iccid' \in Cards /\ goal' \in Cards /\ current' \in Nat
    BY <1>3, <2>1 DEF ApplyIdentity, MarkDegraded, Ready
  <2>3. pc' \in [Switches -> Labels] /\ failed' \in [Switches -> BOOLEAN]
        /\ retry' \in [Switches -> {"none", "scheduled", "ensure", "read", "apply"}]
    <3>1. bad \in BOOLEAN
      OBVIOUS
    <3> QED BY <1>3, <3>1 DEF ApplyIdentity
  <2> QED BY <1>3, <2>2, <2>3 DEF ApplyIdentity
<1>4. CASE RetryFires(t)  BY <1>4 DEF RetryFires
<1> QED BY <1>1, <1>2, <1>3, <1>4 DEF Identity

(* Every step keeps the types. *)
LEMMA NextTypes == TypeOK /\ [Next]_vars => TypeOK'
<1> SUFFICES ASSUME TypeOK, [Next]_vars PROVE TypeOK'
  OBVIOUS
<1> USE SwitchAssumption
<1>1. ASSUME NEW t \in Switches, Guard(t) PROVE TypeOK'
  BY <1>1 DEF TypeOK, Guard, ClearIfToken, Latest, Quiet, marks, snapshots, locals, identity, modem
<1>2. CASE ReadLive
  BY <1>2 DEF TypeOK, ReadLive, marks, snapshots, locals, identity, modem
<1>3. CASE ApplyLive
  BY <1>3 DEF TypeOK, ApplyLive, Ready, marks, snapshots, locals, identity, modem, Cards
<1>4. CASE UNCHANGED vars
  BY <1>4 DEF TypeOK, vars, marks, snapshots, locals, identity, modem
<1> QED BY <1>1, <1>2, <1>3, <1>4, CallTypes, FailureTypes, FinalizeTypes, IdentityTypes DEF Next

-----------------------------------------------------------------------------
(* Order: only Capture and Begin touch what it says.                        *)

(* Steps that leave the token sequence alone and move one switch, or none,  *)
(* from a place after its beginning to another.                             *)
LEMMA OrderKept ==
    ASSUME TypeOK, Order, seq' = seq, NEW t \in Switches,
           \/ pc' = pc
           \/ \E label \in Labels : /\ label \notin {"none", "begin"}
                                    /\ pc[t] \notin {"none", "begin"}
                                    /\ pc' = [pc EXCEPT ![t] = label]
    PROVE  Order'
BY DEF Order, TypeOK, Switches

(* A comparison of the token leads from one place of finalize to another. *)
LEMMA CheckMoves ==
    ASSUME NEW t \in Switches, Check(t)
    PROVE  /\ pc[t] \in Finalizing /\ UNCHANGED marks
           /\ \E label \in Finalizing : pc' = [pc EXCEPT ![t] = label]
<1>1. pc[t] \in {"core_ready", "radio_online", "identity_read"}
  BY DEF Check, CheckPoints
<1>2. CheckPoints[pc[t]] \in {"converge", "identity", "runtime"}
  BY <1>1 DEF CheckPoints
<1>3. \/ pc' = [pc EXCEPT ![t] = CheckPoints[pc[t]]]
      \/ pc' = [pc EXCEPT ![t] = "clear"]
  BY DEF Check, Goto
<1> QED BY <1>1, <1>2, <1>3 DEF Check, Finalizing

LEMMA NextOrder == TypeOK /\ Order /\ [Next]_vars => Order'
<1> SUFFICES ASSUME TypeOK, Order, [Next]_vars PROVE Order'
  OBVIOUS
<1> USE SwitchAssumption
<1>1. ASSUME NEW t \in Switches, Call(t) PROVE Order'
  <2>1. CASE Capture(t)
    BY <2>1 DEF Capture, Order, TypeOK, Switches, Goto, marks
  <2>2. CASE Begin(t)
    BY <2>2 DEF Begin, Order, TypeOK, Switches, Goto
  <2>3. CASE Transition(t)
    BY <2>3, OrderKept DEF Transition, Goto, marks, Labels, Calling
  <2>4. CASE ReleaseRadio(t)
    BY <2>4, OrderKept DEF ReleaseRadio, Goto, marks, Labels, Calling
  <2>5. CASE Enable(t)
    BY <2>5, OrderKept DEF Enable, Goto, marks, Labels, Finalizing
  <2> QED BY <1>1, <2>1, <2>2, <2>3, <2>4, <2>5 DEF Call
<1>2. ASSUME NEW t \in Switches, Failure(t) PROVE Order'
  BY <1>2, OrderKept DEF Failure, SwitchFailed, RestoreFailed, Goto, marks, Labels
<1>3. ASSUME NEW t \in Switches, Finalize(t) PROVE Order'
  <2> USE OrderKept DEF Goto, marks, Labels, Finalizing
  <2>1. CASE Resolve(t)  BY <2>1 DEF Resolve
  <2>2. CASE Ensure(t)  BY <2>2 DEF Ensure
  <2>3. CASE Check(t)  BY <2>3, CheckMoves
  <2>4. CASE Converge(t)  BY <2>4 DEF Converge
  <2>5. CASE BringOnline(t)  BY <2>5 DEF BringOnline
  <2>6. CASE Runtime(t)  BY <2>6 DEF Runtime
  <2>7. CASE SimAuth(t)  BY <2>7 DEF SimAuth
  <2>8. CASE Restore(t)  BY <2>8 DEF Restore
  <2>9. CASE Clear(t)  BY <2>9 DEF Clear
  <2> QED BY <1>3, <2>1, <2>2, <2>3, <2>4, <2>5, <2>6, <2>7, <2>8, <2>9 DEF Finalize
<1>4. ASSUME NEW t \in Switches, Identity(t) PROVE Order'
  <2> USE OrderKept DEF Goto, marks, Labels, Finalizing
  <2>1. CASE RefreshIdentity(t)  BY <2>1 DEF RefreshIdentity, EnsureIdentity
  <2>2. CASE ReadIdentity(t)  BY <2>2 DEF ReadIdentity
  <2>3. CASE ApplyIdentity(t)  BY <2>3 DEF ApplyIdentity
  <2>4. CASE RetryFires(t)  BY <2>4 DEF RetryFires
  <2> QED BY <1>4, <2>1, <2>2, <2>3, <2>4 DEF Identity
<1>5. CASE UNCHANGED <<pc, seq>>
  BY <1>5 DEF Order, TypeOK, Switches
<1>6. ASSUME NEW t \in Switches, Guard(t) PROVE UNCHANGED <<pc, seq>>
  BY <1>6 DEF Guard
<1>7. ReadLive \/ ApplyLive \/ UNCHANGED vars => UNCHANGED <<pc, seq>>
  BY DEF ReadLive, ApplyLive, vars, marks
<1> QED BY <1>1, <1>2, <1>3, <1>4, <1>5, <1>6, <1>7 DEF Next

-----------------------------------------------------------------------------
(* MarkIsNewest.                                                            *)

(* The mark names the newest switch or none. *)
LEMMA MarkedOrNone == ASSUME MarkIsNewest PROVE marked \in {0, seq}
BY DEF MarkIsNewest

(* What moves one switch and leaves marks alone keeps the property, if the  *)
(* move is within the places of a switch under way, or ends a switch whose  *)
(* mark is gone.                                                            *)
LEMMA MoveKeepsMark ==
    ASSUME TypeOK, MarkIsNewest, UNCHANGED marks, NEW t \in Switches, NEW label \in Labels,
           pc' = [pc EXCEPT ![t] = label],
           t = seq /\ t \in guard => (UnderWay(t) <=> label \in {"transition", "release", "enable", "failed"} \cup Finalizing)
    PROVE  MarkIsNewest'
<1>1. seq \in guard => seq \in Switches
  BY DEF TypeOK
<1>2. CASE t = seq
  BY <1>2 DEF MarkIsNewest, UnderWay, TypeOK, marks
<1>3. CASE t # seq
  BY <1>1, <1>3 DEF MarkIsNewest, UnderWay, TypeOK, marks
<1> QED BY <1>2, <1>3

(* A switch that ends clears its own mark and no other. *)
LEMMA EndKeepsMark ==
    ASSUME TypeOK, MarkIsNewest, UNCHANGED <<seq, guard>>, NEW t \in Switches, NEW label \in {"restore_failed", "done"},
           ClearIfToken(t), pc' = [pc EXCEPT ![t] = label]
    PROVE  MarkIsNewest'
<1>1. t # 0 /\ (seq \in guard => seq \in Switches)
  BY DEF TypeOK, Switches
<1>2. CASE t = seq
  <2>1. ~UnderWay(seq)'
    BY <1>2 DEF UnderWay, TypeOK, Finalizing
  <2>2. marked' = 0
    BY <1>2, MarkedOrNone DEF ClearIfToken, Latest
  <2> QED BY <2>1, <2>2 DEF MarkIsNewest
<1>3. CASE t # seq
  <2>1. marked' = marked
    BY <1>1, <1>3, MarkedOrNone DEF ClearIfToken, Latest
  <2>2. seq \in guard => (UnderWay(seq)' <=> UnderWay(seq))
    BY <1>1, <1>3 DEF UnderWay, TypeOK
  <2> QED BY <2>1, <2>2 DEF MarkIsNewest
<1> QED BY <1>2, <1>3

(* A switch that finds another token knows that its mark is gone. *)
LEMMA LateIsUnmarked ==
    ASSUME MarkIsNewest, NEW t \in Switches, ~Latest(t), t = seq, UnderWay(t) PROVE t \notin guard
BY DEF MarkIsNewest, Latest

LEMMA NextMark == TypeOK /\ Order /\ MarkIsNewest /\ [Next]_vars => MarkIsNewest'
<1> SUFFICES ASSUME TypeOK, Order, MarkIsNewest, [Next]_vars PROVE MarkIsNewest'
  OBVIOUS
<1> USE SwitchAssumption
<1>0. ASSUME UNCHANGED <<marks, pc>> PROVE MarkIsNewest'
  BY <1>0 DEF MarkIsNewest, UnderWay, marks
<1>1. ASSUME NEW t \in Switches, Call(t) PROVE MarkIsNewest'
  <2>1. CASE Capture(t)
    <3>1. t = seq + 1 /\ seq \in Nat
      BY <2>1 DEF Capture, TypeOK
    <3>2. t # seq
      BY <3>1
    <3>3. pc' = [pc EXCEPT ![t] = "begin"] /\ UNCHANGED marks
      BY <2>1 DEF Capture, Goto
    <3>4. "begin" \in Labels
      BY DEF Labels, Calling
    <3> QED BY <3>2, <3>3, <3>4, MoveKeepsMark
  <2>2. CASE Begin(t)
    <3>1. seq' = t /\ marked' = t /\ t \in guard'
      BY <2>2 DEF Begin
    <3>2. UnderWay(t)'
      BY <2>2 DEF Begin, Goto, UnderWay, TypeOK
    <3> QED BY <3>1, <3>2 DEF MarkIsNewest, UnderWay
  <2>3. CASE Transition(t)
    BY <2>3, MoveKeepsMark DEF Transition, Goto, Labels, Calling, UnderWay
  <2>4. CASE ReleaseRadio(t)
    BY <2>4, MoveKeepsMark DEF ReleaseRadio, Goto, Labels, Calling, UnderWay
  <2>5. CASE Enable(t)
    BY <2>5, MoveKeepsMark DEF Enable, Goto, Labels, Finalizing, UnderWay
  <2> QED BY <1>1, <2>1, <2>2, <2>3, <2>4, <2>5 DEF Call
<1>2. ASSUME NEW t \in Switches, Failure(t) PROVE MarkIsNewest'
  <2>1. CASE SwitchFailed(t)
    BY <2>1, EndKeepsMark DEF SwitchFailed, Goto
  <2>2. CASE RestoreFailed(t)
    BY <2>2, MoveKeepsMark DEF RestoreFailed, Goto, Labels, UnderWay, Finalizing
  <2> QED BY <1>2, <2>1, <2>2 DEF Failure
<1>3. ASSUME NEW t \in Switches, Finalize(t) PROVE MarkIsNewest'
  <2>1. CASE Resolve(t)
    <3>1. pc[t] = "resolve" /\ UnderWay(t)
      BY <2>1 DEF Resolve, UnderWay, Finalizing
    <3>2. CASE Latest(t)
      BY <2>1, <3>1, <3>2, MoveKeepsMark DEF Resolve, Goto, Labels, Finalizing
    <3>3. CASE ~Latest(t)
      BY <2>1, <3>1, <3>3, MoveKeepsMark, LateIsUnmarked DEF Resolve, Goto, Labels
    <3> QED BY <3>2, <3>3
  <2>2. CASE Clear(t)
    BY <2>2, EndKeepsMark DEF Clear, Goto
  <2>3. ASSUME pc[t] \in Finalizing, UNCHANGED marks,
               \E label \in Finalizing : pc' = [pc EXCEPT ![t] = label]
        PROVE  MarkIsNewest'
    BY <2>3, MoveKeepsMark DEF UnderWay, Labels
  <2>4. CASE Ensure(t)  BY <2>3, <2>4 DEF Ensure, Goto, Finalizing
  <2>5. CASE Check(t)  BY <2>3, <2>5, CheckMoves
  <2>6. CASE Converge(t)  BY <2>3, <2>6 DEF Converge, Goto, Finalizing
  <2>7. CASE BringOnline(t)  BY <2>3, <2>7 DEF BringOnline, Goto, Finalizing
  <2>8. CASE Runtime(t)  BY <2>3, <2>8 DEF Runtime, Goto, Finalizing
  <2>9. CASE SimAuth(t)  BY <2>3, <2>9 DEF SimAuth, Goto, Finalizing
  <2>10. CASE Restore(t)  BY <2>3, <2>10 DEF Restore, Goto, Finalizing
  <2> QED BY <1>3, <2>1, <2>2, <2>4, <2>5, <2>6, <2>7, <2>8, <2>9, <2>10 DEF Finalize
<1>4. ASSUME NEW t \in Switches, Identity(t) PROVE MarkIsNewest'
  <2>1. UNCHANGED marks
    BY <1>4 DEF Identity, RefreshIdentity, ReadIdentity, ApplyIdentity, RetryFires
  <2>2. \/ pc' = pc
        \/ pc[t] \in Finalizing /\ \E label \in Finalizing : pc' = [pc EXCEPT ![t] = label]
    BY <1>4 DEF Identity, RefreshIdentity, EnsureIdentity, ReadIdentity, ApplyIdentity, RetryFires, Goto, Finalizing
  <2> QED BY <1>0, <2>1, <2>2, MoveKeepsMark DEF UnderWay, Labels
<1>5. ASSUME NEW t \in Switches, Guard(t) PROVE MarkIsNewest'
  <2>1. t \in guard /\ guard' = guard \ {t} /\ UNCHANGED <<seq, pc>> /\ ClearIfToken(t) /\ t # 0
    BY <1>5 DEF Guard, Switches
  <2>2. CASE t = seq
    BY <2>1, <2>2, MarkedOrNone DEF MarkIsNewest, ClearIfToken, Latest
  <2>3. CASE t # seq
    BY <2>1, <2>3, MarkedOrNone DEF MarkIsNewest, ClearIfToken, Latest, UnderWay
  <2> QED BY <2>2, <2>3
<1>6. ReadLive \/ ApplyLive \/ UNCHANGED vars => UNCHANGED <<marks, pc>>
  BY DEF ReadLive, ApplyLive, vars
<1> QED BY <1>0, <1>1, <1>2, <1>3, <1>4, <1>5, <1>6 DEF Next

-----------------------------------------------------------------------------
(* Every variable keeps its type, however many switches there are. *)
THEOREM SwitchTypeOK == Spec => []TypeOK
<1>1. Init => TypeOK
  BY InitIInv DEF IInv
<1> QED BY <1>1, NextTypes, PTL DEF Spec

(* The strengthened invariant: types, the order of the tokens, the mark. *)
LEMMA SwitchIInv == Spec => []IInv
<1>1. IInv /\ [Next]_vars => IInv'
  BY NextTypes, NextOrder, NextMark DEF IInv
<1> QED BY InitIInv, <1>1, PTL DEF Spec

(* The device is marked as switching (IsESIMSwitching, the token in          *)
(* switchTokens) exactly while its newest switch is under way and within    *)
(* its two minutes, for any number of switches, profiles and either radio   *)
(* configuration.                                                           *)
THEOREM SwitchMarkIsNewest == Spec => []MarkIsNewest
<1>1. IInv => MarkIsNewest
  BY DEF IInv
<1> QED BY SwitchIInv, <1>1, PTL
=============================================================================

------------------------- MODULE SimAuthReadyProofs -------------------------
(***************************************************************************)
(* The safety of the readiness gate, for any number of callers, calls and   *)
(* invalidations.  ReadyIsCurrent is not inductive on its own: whether an    *)
(* answer may open the gate depends on what its prober remembers of the      *)
(* generation it began in, which is what Bookkeeping adds.                   *)
(***************************************************************************)
EXTENDS SimAuthReady, TLAPS

(* A good answer is on record for the generation its probe began in. *)
Bookkeeping == \A c \in Callers : pc[c] = "good" => at[c] \in proved

IInv ==
    /\ TypeOK /\ Bookkeeping
    /\ SingleProbe /\ ReadyIsCurrent /\ SleepersAreWoken

(* The types hold at first and every action keeps them. *)
LEMMA InitTypeOK == Init => TypeOK
  <1> SUFFICES ASSUME Init PROVE TypeOK
    OBVIOUS
  <1>1. generation \in 0..MaxGeneration /\ calls \in 0..MaxCalls
    BY GateAssumption DEF Init
  <1>2. ready \in BOOLEAN /\ probing \in BOOLEAN
    BY DEF Init
  <1>3. pc \in [Callers -> Labels]
    BY DEF Init, Labels
  <1>4. at \in [Callers -> 0..MaxGeneration]
    BY GateAssumption DEF Init
  <1>5. notified \subseteq Callers /\ proved \subseteq 0..MaxGeneration
    BY DEF Init
  <1> QED
    BY <1>1, <1>2, <1>3, <1>4, <1>5 DEF TypeOK

LEMMA NextTypeOK == TypeOK /\ [Next]_vars => TypeOK'
  <1> SUFFICES ASSUME TypeOK, [Next]_vars PROVE TypeOK'
    OBVIOUS
  <1> USE GateAssumption DEF TypeOK, Labels, Goto
  <1>1. ASSUME NEW c \in Callers, Call(c) PROVE TypeOK'
    BY <1>1 DEF Call
  <1>2. ASSUME NEW c \in Callers, Look(c) PROVE TypeOK'
    BY <1>2 DEF Look
  <1>3. ASSUME NEW c \in Callers, Wake(c) PROVE TypeOK'
    BY <1>3 DEF Wake
  <1>4. ASSUME NEW c \in Callers, ProbeAnswers(c) PROVE TypeOK'
    BY <1>4 DEF ProbeAnswers
  <1>5. ASSUME NEW c \in Callers, Commit(c) PROVE TypeOK'
    BY <1>5 DEF Commit, wakeWaiters
  <1>6. ASSUME NEW c \in Callers, Return(c) PROVE TypeOK'
    BY <1>6 DEF Return
  <1>7. ASSUME NEW c \in Callers, CtxEnds(c) PROVE TypeOK'
    BY <1>7 DEF CtxEnds
  <1>8. CASE InvalidateSIMAuthReady
    <2>1. generation' \in 0..MaxGeneration
      BY <1>8 DEF InvalidateSIMAuthReady
    <2>2. ready' \in BOOLEAN
      BY <1>8 DEF InvalidateSIMAuthReady
    <2> QED
      BY <1>8, <2>1, <2>2 DEF InvalidateSIMAuthReady
  <1>9. CASE UNCHANGED vars
    BY <1>9 DEF vars
  <1> QED
    BY <1>1, <1>2, <1>3, <1>4, <1>5, <1>6, <1>7, <1>8, <1>9 DEF Next, CallerNext

(* Every state satisfies the types: no counter leaves its bound and no        *)
(* caller is anywhere but at a label of WaitSIMAuthReady.                    *)
THEOREM TypeCorrect == Spec => []TypeOK
  BY InitTypeOK, NextTypeOK, PTL DEF Spec

LEMMA InitIInv == Init => IInv
  BY InitTypeOK, GateAssumption
     DEF Init, IInv, Bookkeeping, SingleProbe, ReadyIsCurrent, SleepersAreWoken, AtProbe

LEMMA NextIInv == IInv /\ [Next]_vars => IInv'
  <1> SUFFICES ASSUME IInv, [Next]_vars PROVE IInv'
    OBVIOUS
  <1>0. TypeOK /\ TypeOK'
    BY NextTypeOK DEF IInv
  <1> USE <1>0, GateAssumption
      DEF IInv, TypeOK, Labels, Bookkeeping, SingleProbe, ReadyIsCurrent,
          SleepersAreWoken, AtProbe, Goto
  <1>1. ASSUME NEW c \in Callers, Call(c) PROVE IInv'
    BY <1>1 DEF Call
  <1>2. ASSUME NEW c \in Callers, Look(c) PROVE IInv'
    BY <1>2 DEF Look
  <1>3. ASSUME NEW c \in Callers, Wake(c) PROVE IInv'
    BY <1>3 DEF Wake
  <1>4. ASSUME NEW c \in Callers, ProbeAnswers(c) PROVE IInv'
    BY <1>4 DEF ProbeAnswers
  <1>5. ASSUME NEW c \in Callers, Commit(c) PROVE IInv'
    BY <1>5 DEF Commit, wakeWaiters
  <1>6. ASSUME NEW c \in Callers, Return(c) PROVE IInv'
    BY <1>6 DEF Return
  <1>7. ASSUME NEW c \in Callers, CtxEnds(c) PROVE IInv'
    BY <1>7 DEF CtxEnds
  <1>8. CASE InvalidateSIMAuthReady
    BY <1>8 DEF InvalidateSIMAuthReady
  <1>9. CASE UNCHANGED vars
    BY <1>9 DEF vars
  <1> QED
    BY <1>1, <1>2, <1>3, <1>4, <1>5, <1>6, <1>7, <1>8, <1>9 DEF Next, CallerNext

LEMMA IInvHolds == Spec => []IInv
  BY InitIInv, NextIInv, PTL DEF Spec

(* One caller probes the card at a time, and the flag is up exactly then. *)
THEOREM ProbesAreSingle == Spec => []SingleProbe
  <1>1. IInv => SingleProbe
    BY DEF IInv
  <1> QED
    BY <1>1, IInvHolds, PTL

(* An open gate rests on a probe that began after the last invalidation. *)
THEOREM GateIsCurrent == Spec => []ReadyIsCurrent
  <1>1. IInv => ReadyIsCurrent
    BY DEF IInv
  <1> QED
    BY <1>1, IInvHolds, PTL

(* A call decides for success only where a probe of the current generation   *)
(* has succeeded.                                                            *)
THEOREM SuccessIsEarned == Spec => SuccessIsCurrent
  <1>1. IInv /\ [Next]_vars
        => [\A c \in Callers : pc[c] # "ok" /\ pc'[c] = "ok" => generation \in proved]_vars
    <2> SUFFICES ASSUME IInv, [Next]_vars, NEW c \in Callers, pc[c] # "ok", pc'[c] = "ok"
                 PROVE  generation \in proved
      OBVIOUS
    <2> USE DEF IInv, TypeOK, Goto
    <2>1. ASSUME NEW d \in Callers, Call(d) \/ Wake(d) \/ ProbeAnswers(d) \/ Return(d) \/ CtxEnds(d)
          PROVE  FALSE
      BY <2>1 DEF Call, Wake, ProbeAnswers, Return, CtxEnds
    <2>2. ASSUME NEW d \in Callers, Look(d) PROVE generation \in proved
      BY <2>2 DEF Look, ReadyIsCurrent
    <2>3. ASSUME NEW d \in Callers, Commit(d) PROVE generation \in proved
      BY <2>3 DEF Commit, Bookkeeping
    <2>4. CASE InvalidateSIMAuthReady \/ UNCHANGED vars
      BY <2>4 DEF InvalidateSIMAuthReady, vars
    <2> QED
      BY <2>1, <2>2, <2>3, <2>4 DEF Next, CallerNext
  <1> QED
    BY <1>1, IInvHolds, PTL DEF Spec, SuccessIsCurrent

(* Whoever sleeps waits for a probe that is under way. *)
THEOREM NobodySleepsForNothing == Spec => []SleepersAreWoken
  <1>1. IInv => SleepersAreWoken
    BY DEF IInv
  <1> QED
    BY <1>1, IInvHolds, PTL
=============================================================================

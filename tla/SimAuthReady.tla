---------------------------- MODULE SimAuthReady ----------------------------
(***************************************************************************)
(* internal/apduarbiter/simauth_ready.go: the gate that tells whether the   *)
(* SIM of a device answers authentications again after an eSIM switch or a  *)
(* reset of the modem.  One caller probes the card, the others wait for its *)
(* answer; InvalidateSIMAuthReady starts a new generation at any moment,    *)
(* also while a probe is under way.                                         *)
(*                                                                         *)
(* An action is one critical section of a.mu, or the answer of the probe,   *)
(* which runs with no lock held.  waitC is closed when the probe is over:   *)
(* `notified` holds the sleepers whose channel is closed.                   *)
(***************************************************************************)
EXTENDS Integers

CONSTANTS
    Callers,          \* goroutines that call WaitSIMAuthReady
    MaxGeneration,    \* bound: calls of InvalidateSIMAuthReady
    MaxCalls          \* bound: calls of WaitSIMAuthReady

ASSUME GateAssumption == MaxGeneration \in Nat /\ MaxCalls \in Nat

VARIABLES
    generation, ready, probing,  \* the fields of simAuthReadyState
    pc,        \* idle | look | waiting | probing | good | bad | ok | failed
    notified,
    at,        \* the generation the caller's probe began in
    calls,     \* calls so far
    proved     \* history: the generations in which a probe began that succeeded

vars == <<generation, ready, probing, pc, notified, at, calls, proved>>

Goto(c, label) == pc' = [pc EXCEPT ![c] = label]

-----------------------------------------------------------------------------
Call(c) ==
    /\ pc[c] = "idle"
    /\ calls < MaxCalls /\ calls' = calls + 1
    /\ Goto(c, "look")
    /\ UNCHANGED <<generation, ready, probing, notified, at, proved>>

(* Mutant: a caller does not see the probe under way. *)
Look_ProbesAnyway(c) ==
    /\ pc[c] = "look"
    /\ IF ready
       THEN Goto(c, "ok") /\ UNCHANGED <<probing, at>>
       ELSE Goto(c, "probing") /\ probing' = TRUE /\ at' = [at EXCEPT ![c] = generation]
    /\ UNCHANGED <<generation, ready, notified, calls, proved>>

(* Mutant: a probe is counted for the generation after the current one. *)
Look_CountsAhead(c) ==
    /\ pc[c] = "look"
    /\ IF ready THEN Goto(c, "ok") /\ UNCHANGED <<probing, at>>
       ELSE IF probing THEN Goto(c, "waiting") /\ UNCHANGED <<probing, at>>
       ELSE Goto(c, "probing") /\ probing' = TRUE /\ at' = [at EXCEPT ![c] = generation + 1]
    /\ UNCHANGED <<generation, ready, notified, calls, proved>>

(* The head of the loop: ready, wait for the probe under way, or probe. *)
Look(c) ==
    /\ pc[c] = "look"
    /\ \/ /\ ready
          /\ Goto(c, "ok")
          /\ UNCHANGED <<probing, at>>
       \/ /\ ~ready /\ probing
          /\ Goto(c, "waiting")
          /\ UNCHANGED <<probing, at>>
       \/ /\ ~ready /\ ~probing
          /\ probing' = TRUE
          /\ at' = [at EXCEPT ![c] = generation]
          /\ Goto(c, "probing")
    /\ UNCHANGED <<generation, ready, notified, calls, proved>>

Wake(c) ==
    /\ pc[c] = "waiting" /\ c \in notified
    /\ Goto(c, "look")
    /\ notified' = notified \ {c}
    /\ UNCHANGED <<generation, ready, probing, at, calls, proved>>

(* ctx ends, in the select or at the head of the loop. *)
CtxEnds(c) ==
    /\ pc[c] \in {"waiting", "look"}
    /\ Goto(c, "failed")
    /\ notified' = notified \ {c}
    /\ UNCHANGED <<generation, ready, probing, at, calls, proved>>

ProbeAnswers(c) ==
    /\ pc[c] = "probing"
    /\ \/ Goto(c, "good") /\ proved' = proved \cup {at[c]}
       \/ Goto(c, "bad") /\ UNCHANGED proved
    /\ UNCHANGED <<generation, ready, probing, notified, at, calls>>

wakeWaiters == notified' = notified \cup {d \in DOMAIN pc : pc[d] = "waiting"}

(* Mutant: an answer about an older generation makes the gate ready. *)
Commit_TrustsStale(c) ==
    /\ pc[c] \in {"good", "bad"}
    /\ ready' = (pc[c] = "good")
    /\ probing' = FALSE
    /\ wakeWaiters
    /\ Goto(c, IF pc[c] = "good" THEN "ok" ELSE "failed")
    /\ UNCHANGED <<generation, at, calls, proved>>

(* Mutant: the prober of an older generation reports success. *)
Commit_ReturnsStale(c) ==
    /\ pc[c] \in {"good", "bad"}
    /\ ready' = IF generation = at[c] THEN pc[c] = "good" ELSE ready
    /\ probing' = FALSE
    /\ wakeWaiters
    /\ Goto(c, IF pc[c] = "good" THEN "ok" ELSE "failed")
    /\ UNCHANGED <<generation, at, calls, proved>>

(* Mutant: waitC is not closed when the probe failed. *)
Commit_ClosesOnSuccess(c) ==
    /\ pc[c] \in {"good", "bad"}
    /\ ready' = IF generation = at[c] THEN pc[c] = "good" ELSE ready
    /\ probing' = FALSE
    /\ IF pc[c] = "good" THEN wakeWaiters ELSE UNCHANGED notified
    /\ Goto(c, IF pc[c] = "bad" THEN "failed" ELSE IF generation = at[c] THEN "ok" ELSE "look")
    /\ UNCHANGED <<generation, at, calls, proved>>

(* After the probe: its answer counts for the generation it began in; the    *)
(* waiters are woken in any case.                                            *)
Commit(c) ==
    /\ pc[c] \in {"good", "bad"}
    /\ ready' = IF generation = at[c] THEN pc[c] = "good" ELSE ready
    /\ probing' = FALSE
    /\ wakeWaiters
    /\ Goto(c, IF pc[c] = "bad" THEN "failed" ELSE IF generation = at[c] THEN "ok" ELSE "look")
    /\ UNCHANGED <<generation, at, calls, proved>>

Return(c) ==
    /\ pc[c] \in {"ok", "failed"}
    /\ Goto(c, "idle")
    /\ at' = [at EXCEPT ![c] = 0]
    /\ UNCHANGED <<generation, ready, probing, notified, calls, proved>>

InvalidateSIMAuthReady ==
    /\ generation < MaxGeneration
    /\ generation' = generation + 1
    /\ ready' = FALSE
    /\ UNCHANGED <<probing, pc, notified, at, calls, proved>>

-----------------------------------------------------------------------------
Init ==
    /\ generation = 0 /\ ready = FALSE /\ probing = FALSE
    /\ pc = [c \in Callers |-> "idle"]
    /\ notified = {}
    /\ at = [c \in Callers |-> 0]
    /\ calls = 0
    /\ proved = {}

CallerNext(c) == Look(c) \/ Wake(c) \/ ProbeAnswers(c) \/ Commit(c) \/ Return(c)

Next ==
    \/ \E c \in Callers : Call(c) \/ CallerNext(c) \/ CtxEnds(c)
    \/ InvalidateSIMAuthReady

Spec == Init /\ [][Next]_vars

(* Goroutines that can run do, and a probe ends (its context has a deadline). *)
FairSpec == Spec /\ \A c \in Callers : WF_vars(CallerNext(c))

-----------------------------------------------------------------------------
Labels == {"idle", "look", "waiting", "probing", "good", "bad", "ok", "failed"}
AtProbe == {"probing", "good", "bad"}

TypeOK ==
    /\ generation \in 0..MaxGeneration
    /\ ready \in BOOLEAN /\ probing \in BOOLEAN
    /\ pc \in [Callers -> Labels]
    /\ notified \subseteq Callers
    /\ at \in [Callers -> 0..MaxGeneration]
    /\ calls \in 0..MaxCalls
    /\ proved \subseteq 0..MaxGeneration

(* The card is probed by one caller at a time, and the flag that makes the   *)
(* others wait is up exactly while it is: it cannot be left up by a caller   *)
(* whose answer came too late, which would make every later call time out.   *)
SingleProbe ==
    /\ \A c, d \in Callers : pc[c] \in AtProbe /\ pc[d] \in AtProbe => c = d
    /\ probing <=> \E c \in Callers : pc[c] \in AtProbe

(* The gate is open only on the word of a probe that began after the last    *)
(* invalidation: a probe of the old profile never opens it for the new one.  *)
ReadyIsCurrent == ready => generation \in proved

(* At the moment a call decides for success, a probe that began after the    *)
(* last invalidation has succeeded: also when it waited for another's probe, *)
(* and when its own probe succeeded but was overtaken by an invalidation.    *)
SuccessIsCurrent ==
    [][\A c \in Callers : pc[c] # "ok" /\ pc'[c] = "ok" => generation \in proved]_vars

(* A sleeper sleeps only while a probe runs whose end will wake it. *)
SleepersAreWoken ==
    \A c \in Callers : pc[c] = "waiting" /\ c \notin notified => probing

(* Every call ends, whatever its own deadline. *)
EveryCallEnds == \A c \in Callers : pc[c] \in {"look", "waiting"} ~> pc[c] \in {"idle", "ok", "failed"}
=============================================================================

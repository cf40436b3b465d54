------------------------------ MODULE ModemAT -------------------------------
(***************************************************************************)
(* internal/modem/manager.go: AT commands on a serial port.  Callers put   *)
(* requests in one of two queues; runLoop writes one command at a time and *)
(* takes every line up to its final answer; readLoop reads the port into   *)
(* rxChan.  A caller of executeAT waits for the answer or the end of the   *)
(* manager; its request, with two channels, goes back to a pool.  A sender *)
(* of a short message has a request of its own, a timer of its own, and    *)
(* does not watch the end.  The web terminal pauses both loops, no more.   *)
(*                                                                         *)
(* A line is final (ok, error), a prompt, or the end of the port (eof, an  *)
(* I/O error).  What the modem says unasked (a URC, the text of a message) *)
(* passes for an error or a prompt when it has ERROR or > in it.  Other    *)
(* lines, what they carry and the handlers of URCs are left out.  Ghosts:  *)
(* mine, the caller still waits for the entry of the queue; stray, the     *)
(* line answers no command, or one that has ended.                         *)
(***************************************************************************)
EXTENDS Naturals, Sequences

CONSTANTS
    Callers,        \* goroutines, each with one call at a time
    Requests,       \* request objects, pooled or new
    NoRequest,
    Kinds,          \* the kinds of calls of a caller, among normal, high, sms
    Threshold,      \* atTimeoutWatchdogThreshold; 5 in the code
    QueueCap,       \* of cmdChan and cmdChanHigh; 10 and 5 in the code
    RxCap,          \* of rxChan; 100 in the code
    MaxPending,     \* bound: commands the modem has not answered
    MaxPauses,      \* bound: pauses by the web terminal
    MaxHigh         \* bound: calls that go to cmdChanHigh

ASSUME ModemAssumption ==
    /\ NoRequest \notin Requests
    /\ Kinds \in [Callers -> SUBSET {"normal", "high", "sms"}]
    /\ Threshold \in Nat \ {0} /\ QueueCap \in Nat \ {0} /\ RxCap \in Nat \ {0}
    /\ MaxPending \in Nat /\ MaxPauses \in Nat /\ MaxHigh \in Nat

VARIABLES
    pc, kind, held, got,        \* calls: place, kind, request, how the last one ended
    pool, out,                  \* reqPool; what respChan and errChan of a request hold
    qNormal, qHigh,             \* cmdChan, cmdChanHigh
    loop, cur, streak,          \* runLoop: place, request in handleCommand; atTimeoutStreak
    reader, rx,                 \* readLoop: place; rxChan
    pending,                    \* modem: commands it has yet to answer
    stopped, paused,            \* stop is closed, the port too and running is false; paused
    pauses, highs, outOfStep    \* bounds; ghost: some command timed out, or something passed for an answer

calls == <<pc, kind, held, got, pool>>
queues == <<qNormal, qHigh>>
port == <<reader, rx, pending>>
bounds == <<pauses, highs>>
vars == <<calls, out, queues, loop, cur, streak, port, stopped, paused, bounds, outOfStep>>

Results == {"none", "own", "late", "foreign"}
Entries == [req : Requests, kind : {"normal", "high", "sms"}, mine : BOOLEAN]
NoEntry == [req |-> NoRequest, kind |-> "normal", mine |-> FALSE]
Lines == [kind : {"ok", "error", "prompt", "eof", "ioerr"}, stray : BOOLEAN]
Empty == [resp |-> "none", err |-> "none"]

-----------------------------------------------------------------------------
(* Callers.                                                                 *)

Queued(q, r) == \E i \in DOMAIN q : q[i].req = r
InUse(r) == r \in pool \/ Queued(qNormal, r) \/ Queued(qHigh, r) \/ cur.req = r
            \/ \E c \in Callers : held[c] = r

(* A pooled request, or a new one. *)
Available(k) ==
    (IF k = "sms" THEN {} ELSE pool) \cup
    (IF \A r \in Requests : InUse(r) THEN {} ELSE {CHOOSE r \in Requests : ~InUse(r)})

(* The checks of executeAT; SendSMSWithOptions makes none.                  *)
Call(c, k) ==
    /\ pc[c] = "idle"
    /\ k # "sms" => ~stopped /\ ~paused
    /\ k # "normal" => highs < MaxHigh
    /\ highs' = IF k = "normal" THEN highs ELSE highs + 1
    /\ pc' = [pc EXCEPT ![c] = "checked"]
    /\ kind' = [kind EXCEPT ![c] = k]
    /\ got' = [got EXCEPT ![c] = "none"]
    /\ UNCHANGED <<held, pool, out, queues, loop, cur, streak, port, stopped, paused, pauses, outOfStep>>

(* reqPool.Get, or a request made for a short message; what was checked may *)
(* have changed.                                                            *)
Get(c) ==
    /\ pc[c] = "checked"
    /\ \E r \in Available(kind[c]) :
         /\ held' = [held EXCEPT ![c] = r]
         /\ pool' = pool \ {r}
         /\ out' = IF r \in pool THEN out ELSE [out EXCEPT ![r] = Empty]
    /\ pc' = [pc EXCEPT ![c] = "send"]
    /\ UNCHANGED <<kind, got, queues, loop, cur, streak, port, stopped, paused, bounds, outOfStep>>

(* Mutant: the request is given back as soon as it is sent. *)
Sent_Put(c) == pc' = [pc EXCEPT ![c] = "wait"] /\ pool' = pool \cup {held[c]}

Sent(c) == pc' = [pc EXCEPT ![c] = "wait"] /\ UNCHANGED pool

Enqueue(c) ==
    /\ pc[c] = "send"
    /\ LET e == [req |-> held[c], kind |-> kind[c], mine |-> TRUE]
       IN IF kind[c] = "normal"
          THEN Len(qNormal) < QueueCap /\ qNormal' = Append(qNormal, e) /\ UNCHANGED qHigh
          ELSE Len(qHigh) < QueueCap /\ qHigh' = Append(qHigh, e) /\ UNCHANGED qNormal
    /\ Sent(c)
    /\ UNCHANGED <<kind, held, got, out, loop, cur, streak, port, stopped, paused, bounds, outOfStep>>

Disown(r, e) == IF e.req = r THEN [e EXCEPT !.mine = FALSE] ELSE e
DisownAll(r, q) == [i \in DOMAIN q |-> Disown(r, q[i])]

(* The call returns: executeAT drains the channels and gives the request to *)
(* the pool; the request of a short message is dropped.                     *)
Leave(c, how) ==
    LET r == held[c]
    IN /\ pc' = [pc EXCEPT ![c] = "idle"]
       /\ held' = [held EXCEPT ![c] = NoRequest]
       /\ got' = [got EXCEPT ![c] = how]
       /\ pool' = IF kind[c] = "sms" THEN pool ELSE pool \cup {r}
       /\ out' = [out EXCEPT ![r] = Empty]
       /\ qNormal' = DisownAll(r, qNormal) /\ qHigh' = DisownAll(r, qHigh)
       /\ cur' = Disown(r, cur)
       /\ UNCHANGED <<kind, loop, streak, port, stopped, paused, bounds, outOfStep>>

(* The queue is full for five seconds, or the manager ends.                 *)
NotSent(c) ==
    /\ pc[c] = "send"
    /\ \/ Len(IF kind[c] = "normal" THEN qNormal ELSE qHigh) = QueueCap
       \/ (stopped /\ kind[c] # "sms")
    /\ Leave(c, "none")

Receive(c) ==
    /\ pc[c] = "wait"
    /\ \E ch \in {"resp", "err"} : out[held[c]][ch] # "none" /\ Leave(c, out[held[c]][ch])

WaitStopped(c) ==
    /\ pc[c] = "wait" /\ stopped /\ kind[c] # "sms"
    /\ out[held[c]] = Empty
    /\ Leave(c, "none")

(* Mutant: executeAT has a timer of its own, like the sender of a message. *)
GiveUp_Any(c) ==
    /\ pc[c] = "wait"
    /\ Leave(c, "none")

GiveUp(c) ==
    /\ pc[c] = "wait" /\ kind[c] = "sms"
    /\ Leave(c, "none")

-----------------------------------------------------------------------------
(* runLoop                                                                  *)

Stray(s) == [i \in DOMAIN s |-> [s[i] EXCEPT !.stray = TRUE]]

(* An answer to the entry: into a channel of its request, which has room    *)
(* for one; and whatever the modem still says to its command is stray.      *)
Reply(e, ch, what) ==
    /\ out[e.req][ch] = "none"
    /\ out' = [out EXCEPT ![e.req][ch] = IF e.mine THEN what ELSE "foreign"]

Stop ==
    /\ ~stopped
    /\ stopped' = TRUE
    /\ UNCHANGED <<calls, out, queues, loop, cur, streak, port, paused, bounds, outOfStep>>

LoopTop ==
    /\ loop = "top"
    /\ loop' = IF paused THEN "held" ELSE "select"
    /\ paused \/ qHigh = <<>>
    /\ UNCHANGED <<calls, out, queues, cur, streak, port, stopped, paused, bounds, outOfStep>>

LoopStops ==
    /\ loop \in {"held", "select", "top"} /\ stopped
    /\ loop = "top" => ~paused
    /\ loop' = "ended"
    /\ UNCHANGED <<calls, out, queues, cur, streak, port, stopped, paused, bounds, outOfStep>>

(* Paused: what is queued is refused, and after 100 ms runLoop looks again. *)
Held ==
    /\ loop = "held"
    /\ loop' = "top"
    /\ \/ UNCHANGED <<out, queues>>
       \/ qHigh # <<>> /\ Reply(Head(qHigh), "err", "own") /\ qHigh' = Tail(qHigh) /\ UNCHANGED qNormal
       \/ qNormal # <<>> /\ Reply(Head(qNormal), "err", "own") /\ qNormal' = Tail(qNormal) /\ UNCHANGED qHigh
    /\ UNCHANGED <<calls, cur, streak, port, stopped, paused, bounds, outOfStep>>

(* handleCommand writes the command, which the modem may never answer.      *)
WriteCommand(e) ==
    \/ /\ ~stopped
       /\ cur' = e /\ loop' = "command"
       /\ \/ Len(pending) < MaxPending /\ pending' = Append(pending, [sms |-> e.kind = "sms", stray |-> FALSE])
          \/ UNCHANGED pending
       /\ UNCHANGED <<out, stopped>>
    \/ /\ Reply(e, "err", "own")
       /\ loop' = "top"
       /\ stopped' \in {stopped, TRUE}
       /\ UNCHANGED <<cur, pending>>

TakeHigh ==
    /\ loop = "select" \/ (loop = "top" /\ ~paused)
    /\ qHigh # <<>>
    /\ WriteCommand(Head(qHigh)) /\ qHigh' = Tail(qHigh)
    /\ UNCHANGED <<calls, qNormal, streak, reader, rx, paused, bounds, outOfStep>>

TakeNormal ==
    /\ loop = "select" /\ qNormal # <<>>
    /\ WriteCommand(Head(qNormal)) /\ qNormal' = Tail(qNormal)
    /\ UNCHANGED <<calls, qHigh, streak, reader, rx, paused, bounds, outOfStep>>

(* Between commands an answer is thrown away; an error ends the manager.    *)
IdleLine ==
    /\ loop = "select" /\ rx # <<>>
    /\ rx' = Tail(rx)
    /\ IF Head(rx).kind \in {"eof", "ioerr"}
       THEN stopped' = TRUE /\ loop' = "ended"
       ELSE loop' = "top" /\ UNCHANGED stopped
    /\ UNCHANGED <<calls, out, queues, cur, streak, reader, pending, paused, bounds, outOfStep>>

(* handleCommand is done with the lines left over in rest.                  *)
CommandEnds(rest) ==
    /\ loop' = "top" /\ cur' = NoEntry
    /\ rx' = Stray(rest) /\ pending' = Stray(pending)

(* Mutant: a time-out begins the count anew. *)
RecordTimeout_Forgets == streak' = IF cur.kind # "normal" THEN streak ELSE 1

(* recordATTimeout *)
RecordTimeout == streak' = IF cur.kind # "normal" THEN streak ELSE IF streak < Threshold THEN streak + 1 ELSE streak

Timeout ==
    /\ loop = "command"
    /\ Reply(cur, "err", "own")
    /\ RecordTimeout
    /\ stopped' = (stopped \/ (cur.kind = "normal" /\ streak' >= Threshold))
    /\ outOfStep' = TRUE
    /\ CommandEnds(rx)
    /\ UNCHANGED <<calls, queues, reader, paused, bounds>>

(* Only the I/O error is fatal for the manager (isFatalSerialRuntimeErr).   *)
ReadError ==
    /\ loop = "command" /\ rx # <<>> /\ Head(rx).kind \in {"eof", "ioerr"}
    /\ Reply(cur, "err", "own")
    /\ stopped' = (stopped \/ Head(rx).kind = "ioerr")
    /\ CommandEnds(Tail(rx))
    /\ UNCHANGED <<calls, queues, streak, reader, paused, bounds, outOfStep>>

Final ==
    /\ loop = "command" /\ rx # <<>> /\ Head(rx).kind \in {"ok", "error"}
    /\ Reply(cur, IF Head(rx).kind = "ok" THEN "resp" ELSE "err", IF Head(rx).stray THEN "late" ELSE "own")
    /\ streak' = 0
    /\ CommandEnds(Tail(rx))
    /\ UNCHANGED <<calls, queues, reader, stopped, paused, bounds, outOfStep>>

(* A prompt: the text of the message follows, once; for any other command,  *)
(* and for a message that had its prompt, it is the answer.                 *)
Prompt ==
    /\ loop = "command" /\ rx # <<>> /\ Head(rx).kind = "prompt"
    /\ streak' = 0
    /\ IF cur.kind = "sms"
       THEN /\ rx' = Tail(rx)
            /\ cur' = [cur EXCEPT !.kind = "high"]
            /\ \/ Len(pending) < MaxPending /\ pending' = Append(pending, [sms |-> FALSE, stray |-> FALSE])
               \/ UNCHANGED pending
            /\ UNCHANGED <<out, loop>>
       ELSE /\ Reply(cur, "resp", IF Head(rx).stray THEN "late" ELSE "own")
            /\ CommandEnds(Tail(rx))
    /\ UNCHANGED <<calls, queues, reader, stopped, paused, bounds, outOfStep>>

HandleLine == ReadError \/ Final \/ Prompt

-----------------------------------------------------------------------------
(* readLoop and the modem                                                   *)

ReaderChecks ==
    /\ reader = "check"
    /\ \/ stopped /\ reader' = "ended"
       \/ ~stopped /\ ~paused /\ reader' = "read"
    /\ UNCHANGED <<calls, out, queues, loop, cur, streak, rx, pending, stopped, paused, bounds, outOfStep>>

(* Nothing for 100 ms, or a line, into rxChan when it has room: an answer,  *)
(* or what passes for one.                                                  *)
ReadLine ==
    /\ reader = "read"
    /\ reader' = "check"
    /\ \/ UNCHANGED <<rx, pending, outOfStep>>
       \/ /\ pending # <<>> /\ Len(rx) < RxCap /\ ~stopped
          /\ pending' = Tail(pending)
          /\ \E k \in {IF Head(pending).sms THEN "prompt" ELSE "ok", "error"} :
               rx' = Append(rx, [kind |-> k, stray |-> Head(pending).stray])
          /\ UNCHANGED outOfStep
       \/ /\ Len(rx) < RxCap /\ ~stopped
          /\ \E k \in {"prompt", "error"} : rx' = Append(rx, [kind |-> k, stray |-> TRUE])
          /\ outOfStep' = TRUE
          /\ UNCHANGED pending
    /\ UNCHANGED <<calls, out, queues, loop, cur, streak, stopped, paused, bounds>>

(* Thirty times the end of the file, or an error; stop is asked once more.  *)
ReadFails ==
    /\ reader = "read"
    /\ reader' \in IF stopped THEN {"ended"} ELSE {"eof", "ioerr"}
    /\ UNCHANGED <<calls, out, queues, loop, cur, streak, rx, pending, stopped, paused, bounds, outOfStep>>

ReaderReports ==
    /\ reader \in {"eof", "ioerr"} /\ Len(rx) < RxCap
    /\ rx' = Append(rx, [kind |-> reader, stray |-> FALSE])
    /\ reader' = "ended"
    /\ UNCHANGED <<calls, out, queues, loop, cur, streak, pending, stopped, paused, bounds, outOfStep>>

-----------------------------------------------------------------------------
Pause ==
    /\ ~paused /\ pauses < MaxPauses
    /\ paused' = TRUE /\ pauses' = pauses + 1
    /\ UNCHANGED <<calls, out, queues, loop, cur, streak, port, stopped, highs, outOfStep>>

Resume ==
    /\ paused /\ paused' = FALSE
    /\ UNCHANGED <<calls, out, queues, loop, cur, streak, port, stopped, bounds, outOfStep>>

Init ==
    /\ pc = [c \in Callers |-> "idle"] /\ kind = [c \in Callers |-> "normal"]
    /\ held = [c \in Callers |-> NoRequest] /\ got = [c \in Callers |-> "none"]
    /\ pool = {} /\ out = [r \in Requests |-> Empty]
    /\ qNormal = <<>> /\ qHigh = <<>>
    /\ loop = "top" /\ cur = NoEntry /\ streak = 0
    /\ reader = "check" /\ rx = <<>> /\ pending = <<>>
    /\ stopped = FALSE /\ paused = FALSE
    /\ pauses = 0 /\ highs = 0 /\ outOfStep = FALSE

CallSteps(c) == Get(c) \/ Enqueue(c) \/ NotSent(c) \/ Receive(c) \/ WaitStopped(c) \/ GiveUp(c)
LoopSteps == LoopTop \/ LoopStops \/ Held \/ TakeHigh \/ TakeNormal \/ IdleLine \/ Timeout \/ HandleLine
ReaderSteps == ReaderChecks \/ ReadLine \/ ReadFails \/ ReaderReports

Next ==
    \/ \E c \in Callers : (\E k \in Kinds[c] : Call(c, k)) \/ CallSteps(c)
    \/ LoopSteps \/ ReaderSteps
    \/ Pause \/ Resume \/ Stop

(* Goroutines go on, timers run out, the web terminal is closed in the end, *)
(* a command gets its turn among lines and commands that are ready, its     *)
(* write does not fail for ever with an error that is not fatal, and normal *)
(* commands (the polling of the worker) do not cease.                       *)
Fairness ==
    /\ \A c \in Callers : WF_vars(CallSteps(c)) /\ WF_vars("normal" \in Kinds[c] /\ Call(c, "normal"))
    /\ WF_vars(LoopSteps) /\ WF_vars(ReaderSteps)
    /\ SF_vars(TakeNormal /\ (loop' = "command" \/ stopped')) /\ WF_vars(Timeout)
    /\ WF_vars(Resume)

Spec == Init /\ [][Next]_vars
FairSpec == Spec /\ Fairness

-----------------------------------------------------------------------------
(* The queues, the channels, the lines and the places have their types, and *)
(* a request is with one caller, or in the pool, or nobody's.               *)
TypeOK ==
    /\ pc \in [Callers -> {"idle", "checked", "send", "wait"}]
    /\ kind \in [Callers -> {"normal", "high", "sms"}]
    /\ held \in [Callers -> Requests \cup {NoRequest}]
    /\ \A c \in Callers : held[c] = NoRequest <=> pc[c] \in {"idle", "checked"}
    /\ got \in [Callers -> Results]
    /\ pool \subseteq Requests /\ \A c \in Callers : held[c] \notin pool
    /\ \A c, d \in Callers : held[c] = held[d] => c = d \/ held[c] = NoRequest
    /\ out \in [Requests -> [resp : Results, err : Results]]
    /\ qNormal \in Seq(Entries) /\ qHigh \in Seq(Entries)
    /\ Len(qNormal) <= QueueCap /\ Len(qHigh) <= QueueCap
    /\ loop \in {"top", "held", "select", "command", "ended"}
    /\ cur \in Entries \cup {NoEntry} /\ (cur = NoEntry <=> loop # "command")
    /\ streak \in 0..Threshold
    /\ reader \in {"check", "read", "eof", "ioerr", "ended"}
    /\ rx \in Seq(Lines) /\ Len(rx) <= RxCap
    /\ pending \in Seq([sms : BOOLEAN, stray : BOOLEAN]) /\ Len(pending) <= MaxPending
    /\ stopped \in BOOLEAN /\ paused \in BOOLEAN /\ outOfStep \in BOOLEAN
    /\ pauses \in 0..MaxPauses /\ highs \in 0..MaxHigh

(* A caller has the answer to its own command.  A request that went back to *)
(* the pool is not answered any more, unless the manager ended meanwhile    *)
(* (then the answer of an earlier call may await the next one); and none    *)
(* comes late as long as no command has timed out and nothing has passed    *)
(* for an answer.  After that commands and answers may be out of step, one  *)
(* by one, and this says nothing.                                           *)
AnswersAreOwn ==
    \A c \in Callers :
        /\ got[c] = "foreign" => stopped
        /\ got[c] = "late" => outOfStep

(* When readLoop has ended, the manager ends, so that the device is brought *)
(* up again: by the error, if it is seen between commands or is fatal, or   *)
(* by the watchdog of commands without an answer.                           *)
DeadReaderIsNoticed == reader = "ended" ~> stopped
=============================================================================

-------------------------- MODULE WebSocketHandle ---------------------------
(***************************************************************************)
(* The WebSocket the bindings hand out (crates/tlsurl-core/src/            *)
(* websocket.rs): a socket split into a sender and a receiver, each in a   *)
(* mutex of its own, and two tokens, closing and cancellation, that        *)
(* interrupt the calls.  Tasks call send, recv and close; App calls abort  *)
(* at any time.                                                            *)
(*                                                                         *)
(* A call is a sequence of stages; a stage locks one half, uses it and     *)
(* unlocks it.  Between two stages, and at its end, a call decides whether *)
(* to abort the connection.  Calls run on different threads.               *)
(***************************************************************************)
EXTENDS Callers, Naturals, Sequences, SequencesExt

VARIABLES
    line,        \* of each half, tokio Mutex: the holder, then the waiters
    slot,        \* of each half: the mutex holds Some(half)
    cancelled, closing,   \* the two CancellationTokens
    stage, pc, out,       \* of each call: stage, step in it, its outcome
    message      \* what recv got before the stage that flushes the reply

call == <<stage, pc, out, message>>
vars == <<line, slot, cancelled, closing, call>>

Halves == {"tx", "rx"}
Stages == {"none", "send", "recv", "flush", "closeSend", "closeRecv"}
Half(s) == IF s \in {"recv", "closeRecv"} THEN "rx" ELSE "tx"

\* start: the stage's future is polled next; armed: this poll found neither
\* token set, the lock is tried next; wait: in the queue of the lock; io: the
\* half is in use; drop, unlock: the two halves of dropping the SocketGuard;
\* after: the stage is over; cancel, clearTx, clearRx: in abort; set: close is
\* about to set the closing token.
Awaits == {"start", "wait", "io"}
Steps  == Awaits \cup {"idle", "set", "armed", "drop", "unlock", "after",
                       "cancel", "clearTx", "clearRx"}

\* The outcomes of a stage that the calls tell apart: recv's messages that are
\* answered or end the stream (any other is ok), and CLOSED from the other
\* failures (I/O errors, TIMEOUT, CANCELLED, a dropped future).
Messages == {"ping", "close", "eof"}
Failures == {"CLOSED", "failed"}
Outcomes == Messages \cup Failures \cup {"ok"}

TypeOK ==
    /\ line \in [Halves -> Seq(Tasks)] /\ \A h \in Halves : IsInjective(line[h])
    /\ slot \in [Halves -> BOOLEAN]
    /\ cancelled \in BOOLEAN /\ closing \in BOOLEAN
    /\ stage \in [Tasks -> Stages]
    /\ pc \in [Tasks \cup {App} -> Steps]
    /\ out \in [Tasks -> Outcomes]
    /\ message \in [Tasks -> {"none", "ping", "close"}]

\* The end of Client::websocket: the socket is split.
Init ==
    /\ line = [h \in Halves |-> <<>>]
    /\ slot = [h \in Halves |-> TRUE]
    /\ cancelled = FALSE /\ closing = FALSE
    /\ stage = [t \in Tasks |-> "none"]
    /\ pc = [t \in Tasks \cup {App} |-> "idle"]
    /\ out = [t \in Tasks |-> "ok"]
    /\ message = [t \in Tasks |-> "none"]

-----------------------------------------------------------------------------
(* The calls.                                                              *)

At(t, step) == pc' = [pc EXCEPT ![t] = step]

Enter(t, s) ==
    /\ stage' = [stage EXCEPT ![t] = s]
    /\ out' = [out EXCEPT ![t] = "ok"]

Finish(t) ==
    /\ At(t, "idle")
    /\ stage' = [stage EXCEPT ![t] = "none"]
    /\ message' = [message EXCEPT ![t] = "none"]
    /\ out' = [out EXCEPT ![t] = "ok"]

\* send and recv refuse to start once the closing token is set.
Call(t, s) ==
    /\ pc[t] = "idle" /\ ~closing
    /\ At(t, "start") /\ Enter(t, s)
    /\ UNCHANGED <<line, slot, cancelled, closing, message>>

\* close does nothing when it finds a token set.
CallClose(t) ==
    /\ pc[t] = "idle" /\ ~closing /\ ~cancelled
    /\ At(t, "set")
    /\ UNCHANGED <<line, slot, cancelled, closing, stage, out, message>>

SetClosing(t) ==
    /\ pc[t] = "set"
    /\ closing' = TRUE
    /\ At(t, "start") /\ Enter(t, "closeSend")
    /\ UNCHANGED <<line, slot, cancelled, message>>

-----------------------------------------------------------------------------
(* A stage.                                                                *)

\* A closing token that leaves pending calls alone.
InterruptedByCancelOnly(t) == cancelled

\* A bounded that only waits for its timeout.
InterruptedByCloseOnly(t) == closing /\ stage[t] \in {"send", "recv"}

\* The tokens that end this stage: bounded waits for cancellation, operation
\* for closing too.
Interrupted(t) == cancelled \/ (closing /\ stage[t] \in {"send", "recv"})

\* The poll of a new stage finds no token set.
Poll(t) ==
    /\ pc[t] = "start" /\ ~Interrupted(t)
    /\ At(t, "armed")
    /\ UNCHANGED <<line, slot, cancelled, closing, stage, out, message>>

\* The lock was obtained: the half is used, unless it has been released.
Use(t) ==
    /\ out' = [out EXCEPT ![t] = IF slot[Half(stage[t])] THEN @ ELSE "CLOSED"]
    /\ At(t, IF slot[Half(stage[t])] THEN "io" ELSE "drop")

Lock(t) ==
    LET h == Half(stage[t]) IN
    /\ pc[t] = "armed"
    /\ line' = [line EXCEPT ![h] = Append(@, t)]
    /\ IF line[h] = <<>> THEN Use(t) ELSE At(t, "wait") /\ UNCHANGED out
    /\ UNCHANGED <<slot, cancelled, closing, stage, message>>

Granted(t) ==
    /\ pc[t] = "wait" /\ Head(line[Half(stage[t])]) = t /\ ~Interrupted(t)
    /\ Use(t)
    /\ UNCHANGED <<line, slot, cancelled, closing, stage, message>>

\* The transport answers the call.
Io(t, v) ==
    /\ pc[t] = "io" /\ ~Interrupted(t)
    /\ v \in {"ok", "failed"} \cup (IF stage[t] = "recv" THEN Messages ELSE {})
    /\ out' = [out EXCEPT ![t] = v]
    /\ At(t, "drop")
    /\ UNCHANGED <<line, slot, cancelled, closing, stage, message>>

\* The stage's future is dropped where it awaits, for the reason v: out of the
\* queue of the lock, or with the guard it holds.
Leave(t, v) ==
    /\ pc[t] \in Awaits
    /\ out' = [out EXCEPT ![t] = v]
    /\ IF pc[t] = "io"
       THEN At(t, "drop") /\ UNCHANGED line
       ELSE /\ At(t, "after")
            /\ line' = [line EXCEPT ![Half(stage[t])] = RemoveFirst(@, t)]
    /\ UNCHANGED <<slot, cancelled, closing, stage, message>>

\* The biased selects: cancellation goes before closing.
Interrupt(t) ==
    /\ Interrupted(t)
    /\ Leave(t, IF cancelled THEN "failed" ELSE "CLOSED")

Timeout(t) ==
    /\ ~cancelled
    /\ Leave(t, "failed")

\* An asyncio task is cancelled: its future is dropped, its wrapper aborts.
Abandon(t) ==
    /\ Leave(t, "failed")

\* Drop for SocketGuard looks at the token ...
DropGuard(t) ==
    /\ pc[t] = "drop"
    /\ slot' = [slot EXCEPT ![Half(stage[t])] = @ /\ ~cancelled]
    /\ At(t, "unlock")
    /\ UNCHANGED <<line, cancelled, closing, stage, out, message>>

\* ... and then its MutexGuard unlocks.
Unlock(t) ==
    /\ pc[t] = "unlock"
    /\ line' = [line EXCEPT ![Half(stage[t])] = Tail(@)]
    /\ At(t, "after")
    /\ UNCHANGED <<slot, cancelled, closing, stage, out, message>>

-----------------------------------------------------------------------------
(* Between the stages.                                                     *)

\* operation aborts after a failure other than CLOSED; the flush of recv after
\* any; close always.
Aborts(t) ==
    \/ out[t] \in Failures /\ ~(stage[t] \in {"send", "recv"} /\ out[t] = "CLOSED")
    \/ stage[t] = "closeRecv"

\* The message recv returns ends the connection.
IsClose(t) ==
    (stage[t] = "recv" /\ out[t] = "eof") \/ (stage[t] = "flush" /\ message[t] = "close")

After(t) ==
    /\ pc[t] = "after"
    /\ \/ /\ Aborts(t)
          /\ At(t, "cancel")
          /\ UNCHANGED <<stage, out, message, closing>>
       \/ /\ ~Aborts(t) /\ IsClose(t)
          /\ closing' = TRUE
          /\ At(t, "cancel")
          /\ UNCHANGED <<stage, out, message>>
       \/ /\ ~Aborts(t) /\ stage[t] = "recv" /\ out[t] \in {"ping", "close"}
          /\ message' = [message EXCEPT ![t] = out[t]]
          /\ At(t, "start") /\ Enter(t, "flush")
          /\ UNCHANGED closing
       \/ /\ ~Aborts(t) /\ stage[t] = "closeSend"
          /\ At(t, "armed") /\ Enter(t, "closeRecv")
          /\ UNCHANGED <<message, closing>>
       \/ /\ ~Aborts(t) /\ ~IsClose(t)
          /\ \/ stage[t] \in {"send", "flush"}
             \/ stage[t] = "recv" /\ out[t] \in {"ok", "CLOSED"}
          /\ Finish(t)
          /\ UNCHANGED closing
    /\ UNCHANGED <<line, slot, cancelled>>

-----------------------------------------------------------------------------
(* abort, by a call or by the application.                                 *)

Cancel(x) ==
    /\ pc[x] = IF x = App THEN "idle" ELSE "cancel"
    /\ cancelled' = TRUE
    /\ At(x, "clearTx")
    /\ UNCHANGED <<line, slot, closing, stage, out, message>>

\* An abort that does not ask for the lock.
ForceClear(h) == slot' = [slot EXCEPT ![h] = FALSE]

\* try_lock: the half is released unless somebody holds its lock.
TryClear(h) == slot' = [slot EXCEPT ![h] = @ /\ line[h] # <<>>]

ClearTx(x) ==
    /\ pc[x] = "clearTx"
    /\ TryClear("tx")
    /\ At(x, "clearRx")
    /\ UNCHANGED <<line, cancelled, closing, stage, out, message>>

ClearRx(x) ==
    /\ pc[x] = "clearRx"
    /\ TryClear("rx")
    /\ IF x = App THEN At(x, "idle") /\ UNCHANGED <<stage, out, message>> ELSE Finish(x)
    /\ UNCHANGED <<line, cancelled, closing>>

Next ==
    \/ \E t \in Tasks :
        \/ \E s \in {"send", "recv"} : Call(t, s)
        \/ CallClose(t) \/ SetClosing(t)
        \/ Poll(t) \/ Lock(t) \/ Granted(t)
        \/ \E v \in Messages \cup {"ok", "failed"} : Io(t, v)
        \/ Interrupt(t) \/ Timeout(t) \/ Abandon(t)
        \/ DropGuard(t) \/ Unlock(t) \/ After(t)
    \/ \E x \in Tasks \cup {App} : Cancel(x) \/ ClearTx(x) \/ ClearRx(x)

Spec == Init /\ [][Next]_vars

-----------------------------------------------------------------------------

\* A call that uses a half holds its lock, and the half is there: abort, which
\* runs at any time, never takes it from under the call.
UsedHalfIsThere ==
    \A t \in Tasks : pc[t] = "io" =>
        /\ slot[Half(stage[t])]
        /\ line[Half(stage[t])] # <<>> /\ Head(line[Half(stage[t])]) = t

\* websocket.rs, on SocketGuard: "The held resource must therefore also be
\* cleared when its guard is dropped."  Once the connection is aborted and no
\* call or abort is running, the socket is released.
AbortReleasesSocket ==
    cancelled /\ (\A x \in DOMAIN pc : pc[x] = "idle") => \A h \in Halves : ~slot[h]

(***************************************************************************)
(* Liveness: the runtime polls woken tasks, threads are not suspended for  *)
(* ever.  The peer owes nothing, and no timeout is relied on.              *)
(***************************************************************************)
Fairness ==
    /\ \A t \in Tasks :
        /\ WF_vars(SetClosing(t)) /\ WF_vars(Lock(t))
        /\ WF_vars(Poll(t) \/ Granted(t) \/ Interrupt(t))
        /\ WF_vars(DropGuard(t) \/ Unlock(t) \/ After(t))
    /\ \A x \in Tasks \cup {App} : WF_vars(ClearTx(x) \/ ClearRx(x))
    /\ \A t \in Tasks : WF_vars(Cancel(t))

FairSpec == Spec /\ Fairness

\* Every call that is pending when the connection is aborted ends, whatever the
\* peer does.
AbortEndsCalls ==
    \A t \in Tasks : (cancelled /\ pc[t] # "idle") ~> (pc[t] = "idle")

\* A send or recv that is pending when close starts lets go of its half, so
\* that the closing handshake can have it.
CloseInterruptsCalls ==
    \A t \in Tasks :
        (closing /\ stage[t] \in {"send", "recv"} /\ pc[t] \in Awaits)
            ~> ~(stage[t] \in {"send", "recv"} /\ pc[t] \in Awaits)

=============================================================================

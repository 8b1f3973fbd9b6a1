--------------------------- MODULE StreamResponse ---------------------------
(***************************************************************************)
(* The pull-based response body the bindings hand out                      *)
(* (crates/tlsurl-core/src/stream.rs) under its callers: tasks that call   *)
(* next_chunk through the Python and Node wrappers, which close the        *)
(* response after every failed or abandoned read, and a thread, App, that  *)
(* calls close at any time.                                                *)
(*                                                                         *)
(* Calls run on different threads.  A step is what a call does between two *)
(* accesses to the state it shares: the mutex of the body, the             *)
(* cancellation token, the transport.                                      *)
(***************************************************************************)
EXTENDS Callers, Naturals, Sequences, SequencesExt

VARIABLES
    line,        \* tokio Mutex: the holder of the lock, then the waiters
    slot,        \* the mutex holds Some(body)
    cancelled,   \* CancellationToken
    dropped,     \* Drop for StreamResponse has run
    ended,       \* what the transport has reported: "open", "eof", "error"
    pc,          \* of each read, see Steps
    owns,        \* the reads whose future owns the stream taken from the slot
    out,         \* of each read, what its select yielded, then whether it
                 \* returned None: "eof" (for the properties)
    abandoned,   \* the reads whose caller gave up
    closing      \* of each closer, see Closing

vars == <<line, slot, cancelled, dropped, ended, pc, owns, out, abandoned, closing>>

\* start: not polled yet; lock: in self.body.lock().await; enter: the lock was
\* free; read: in the select; check: the select is over, is_cancelled is tested
\* next; put: the body is put back next.
Steps   == {"idle", "start", "lock", "enter", "read", "check", "put"}
\* Where a future awaits, and can be dropped.
Awaits  == {"start", "lock", "read"}
Outputs == {"chunk", "eof", "error", "cancelled"}

\* cancel: the wrapper's except clause calls close next; clear: the token is
\* cancelled, try_lock is next.
Closing == {"idle", "cancel", "clear"}

TypeOK ==
    /\ line \in Seq(Tasks) /\ IsInjective(line)
    /\ slot \in BOOLEAN /\ cancelled \in BOOLEAN /\ dropped \in BOOLEAN
    /\ ended \in {"open", "eof", "error"}
    /\ pc \in [Tasks -> Steps]
    /\ owns \in SUBSET Tasks
    /\ out \in [Tasks -> Outputs]
    /\ abandoned \in SUBSET Tasks
    /\ closing \in [Tasks \cup {App} -> Closing]

\* StreamResponse::new.
Init ==
    /\ line = <<>> /\ slot = TRUE /\ cancelled = FALSE /\ dropped = FALSE
    /\ ended = "open"
    /\ pc = [r \in Tasks |-> "idle"]
    /\ owns = {}
    /\ out = [r \in Tasks |-> "chunk"]
    /\ abandoned = {}
    /\ closing = [x \in Tasks \cup {App} |-> "idle"]

-----------------------------------------------------------------------------
(* next_chunk.                                                             *)

Holds(r) == line # <<>> /\ Head(line) = r

\* The wrapper calls next_chunk.
Call(r) ==
    /\ pc[r] = "idle" /\ closing[r] = "idle" /\ ~dropped
    /\ pc' = [pc EXCEPT ![r] = "start"]
    /\ out' = [out EXCEPT ![r] = "chunk"]
    /\ UNCHANGED <<line, slot, cancelled, dropped, ended, owns, abandoned, closing>>

\* The first poll takes the lock, or queues for it.
Lock(r) ==
    /\ pc[r] = "start"
    /\ pc' = [pc EXCEPT ![r] = IF line = <<>> THEN "enter" ELSE "lock"]
    /\ line' = Append(line, r)
    /\ UNCHANGED <<slot, cancelled, dropped, ended, owns, out, abandoned, closing>>

\* The read returns v and unlocks: its wrapper, if it still listens, closes
\* the response after an error.
Return(r, v) ==
    /\ pc' = [pc EXCEPT ![r] = "idle"]
    /\ line' = Tail(line)
    /\ owns' = owns \ {r}
    /\ out' = [out EXCEPT ![r] = IF v = "eof" THEN v ELSE "chunk"]
    /\ abandoned' = abandoned \ {r}
    /\ closing' = [closing EXCEPT ![r] =
                     IF v \in {"error", "cancelled"} /\ r \notin abandoned
                     THEN "cancel" ELSE @]
    /\ UNCHANGED dropped

\* A read that does not look at the token before it takes the body.
RefusedNever == FALSE

\* self.cancellation.is_cancelled(), once the lock is held.
Refused == cancelled

\* body.take(): the read's future owns the stream.
Take(r) ==
    /\ owns' = owns \cup {r}
    /\ slot' = FALSE

\* The lock is acquired: a cancelled response is cleared; otherwise the read
\* takes the body out of the slot, or finds that there is none.
Locked(r) ==
    /\ pc[r] \in {"lock", "enter"} /\ Holds(r)
    /\ \/ /\ Refused
          /\ slot' = FALSE
          /\ Return(r, "cancelled")
       \/ /\ ~Refused /\ ~slot
          /\ Return(r, "eof")
          /\ UNCHANGED slot
       \/ /\ ~Refused /\ slot
          /\ Take(r)
          /\ pc' = [pc EXCEPT ![r] = "read"]
          /\ UNCHANGED <<line, dropped, out, abandoned, closing>>
    /\ UNCHANGED <<cancelled, ended>>

\* The transport yields v to the read that polls it.
Pull(r, v) ==
    /\ pc[r] = "read" /\ ~cancelled
    /\ pc' = [pc EXCEPT ![r] = "check"]
    /\ out' = [out EXCEPT ![r] = v]
    /\ ended' = IF v = "chunk" THEN "open" ELSE v
    /\ UNCHANGED <<line, slot, cancelled, dropped, owns, abandoned, closing>>

\* A select that only waits for the transport.
WokenNever(r) == FALSE /\ UNCHANGED vars

\* The biased select sees the cancelled token first.
Woken(r) ==
    /\ pc[r] = "read" /\ cancelled
    /\ pc' = [pc EXCEPT ![r] = "check"]
    /\ out' = [out EXCEPT ![r] = "cancelled"]
    /\ UNCHANGED <<line, slot, cancelled, dropped, ended, owns, abandoned, closing>>

\* After the select: a cancelled read and one that saw the end or an error
\* drop the stream; a chunk is kept until the body is put back.
Check(r) ==
    /\ pc[r] = "check"
    /\ \/ /\ cancelled
          /\ Return(r, "cancelled")
       \/ /\ ~cancelled /\ out[r] # "chunk"
          /\ Return(r, out[r])
       \/ /\ ~cancelled /\ out[r] = "chunk"
          /\ pc' = [pc EXCEPT ![r] = "put"]
          /\ UNCHANGED <<line, owns, dropped, out, abandoned, closing>>
    /\ UNCHANGED <<slot, cancelled, ended>>

\* A read that keeps the stream it has read the chunk from.
PutNever(r) ==
    /\ pc[r] = "put"
    /\ Return(r, "chunk")
    /\ UNCHANGED <<slot, cancelled, ended>>

\* *body = Some(stream), and the guard unlocks.
Put(r) ==
    /\ pc[r] = "put"
    /\ slot' = TRUE
    /\ Return(r, "chunk")
    /\ UNCHANGED <<cancelled, ended>>

\* The caller of an async read is cancelled: its wrapper closes the response,
\* and the runtime drops the read's future some time later.
Abandon(r) ==
    /\ pc[r] # "idle" /\ r \notin abandoned /\ closing[r] = "idle"
    /\ abandoned' = abandoned \cup {r}
    /\ closing' = [closing EXCEPT ![r] = "cancel"]
    /\ UNCHANGED <<line, slot, cancelled, dropped, ended, pc, owns, out>>

\* The future of an abandoned read is dropped where it awaits: it leaves the
\* lock or its queue, and the stream it owns goes with it.
DropRead(r) ==
    /\ r \in abandoned /\ pc[r] \in Awaits
    /\ pc' = [pc EXCEPT ![r] = "idle"]
    /\ line' = RemoveFirst(line, r)
    /\ owns' = owns \ {r}
    /\ abandoned' = abandoned \ {r}
    /\ UNCHANGED <<slot, cancelled, dropped, ended, out, closing>>

-----------------------------------------------------------------------------
(* close.                                                                  *)

\* self.cancellation.cancel(), by a wrapper that owes a close or by the
\* application.
Cancel(x) ==
    /\ closing[x] = IF x = App THEN "idle" ELSE "cancel"
    /\ ~dropped
    /\ cancelled' = TRUE
    /\ closing' = [closing EXCEPT ![x] = "clear"]
    /\ UNCHANGED <<line, slot, dropped, ended, pc, owns, out, abandoned>>

\* try_lock: the body is dropped unless somebody holds the lock.
Clear(x) ==
    /\ closing[x] = "clear"
    /\ slot' = (slot /\ line # <<>>)
    /\ closing' = [closing EXCEPT ![x] = "idle"]
    /\ UNCHANGED <<line, cancelled, dropped, ended, pc, owns, out, abandoned>>

\* Drop for StreamResponse, when no call can refer to it.
Drop ==
    /\ ~dropped
    /\ \A r \in Tasks : pc[r] = "idle"
    /\ \A x \in DOMAIN closing : closing[x] = "idle"
    /\ dropped' = TRUE /\ cancelled' = TRUE /\ slot' = FALSE
    /\ UNCHANGED <<line, ended, pc, owns, out, abandoned, closing>>

Next ==
    \/ \E r \in Tasks :
        \/ Call(r) \/ Lock(r) \/ Locked(r) \/ Woken(r) \/ Check(r) \/ Put(r)
        \/ \E v \in {"chunk", "eof", "error"} : Pull(r, v)
        \/ Abandon(r) \/ DropRead(r)
    \/ \E x \in Tasks \cup {App} : Cancel(x) \/ Clear(x)
    \/ Drop

Spec == Init /\ [][Next]_vars

-----------------------------------------------------------------------------

\* In this step the read r returns None to a caller that listens.
HearsNone(r) == pc[r] # "idle" /\ pc'[r] = "idle" /\ r \notin abandoned /\ out'[r] = "eof"

\* docs/native-bindings.md:157 and 172 say that None (null in Node) is EOF.
NoneMeansEof == [][\A r \in Tasks : HearsNone(r) => ended' = "eof"]_vars

\* A read returns None for a body that has not ended only behind another read
\* that lost the body and whose wrapper is about to close the response.  So a
\* response with a single consumer never looks complete when it is not: the
\* read that loses the body is its own, and fails.
NoneIsAnnounced ==
    [][\A r \in Tasks : HearsNone(r) =>
          ended' = "eof" \/ \E q \in Tasks \ {r} : closing[q] = "cancel"]_vars

\* A body in the slot is on the shelf; closing or dropping the handle stops it.
Lent == INSTANCE LentBody WITH
            Readers <- Tasks,
            Shelf <- App,
            places <- owns \cup (IF slot THEN {App} ELSE {}),
            stopped <- cancelled

\* The handle keeps the promise of LentBody: next_chunk and close, however they
\* interleave, keep one body in one place.  In particular no read that gets the
\* lock after a close is given the body, even one that a racing read has put
\* back since.
LendsBody == Lent!Spec

(***************************************************************************)
(* Liveness: tasks that can run are run (the runtime polls a woken task,   *)
(* threads are not suspended for ever); the transport and the callers owe  *)
(* nothing.                                                                *)
(***************************************************************************)
Fairness ==
    /\ \A r \in Tasks :
        WF_vars(Lock(r)) /\ WF_vars(Locked(r)) /\ WF_vars(Woken(r))
            /\ WF_vars(Check(r)) /\ WF_vars(Put(r))
    /\ \A x \in Tasks \cup {App} : WF_vars(Clear(x))

FairSpec == Spec /\ Fairness

\* close wakes every pending read, the one that polls a silent transport and
\* those that queue for the lock behind it.
CloseWakesReads ==
    \A r \in Tasks : (cancelled /\ pc[r] # "idle") ~> (pc[r] = "idle")

=============================================================================

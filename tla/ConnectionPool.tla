--------------------------- MODULE ConnectionPool ---------------------------
(***************************************************************************)
(* The connection pool of the HTTP client (src/client/layer/client/pool.rs)*)
(* together with the one client of it: the race, inside every request,     *)
(* between a Checkout from the pool and a fresh connect                    *)
(* (src/client/layer/client.rs, connection_for .. connect_to), and the use *)
(* of the connection that wins (try_send_request).                         *)
(*                                                                         *)
(* Every critical section of the pool's mutex is one action.  A request is *)
(* a future: each action of a request is the part of one poll, or of one   *)
(* drop, that lies between two critical sections.                          *)
(*                                                                         *)
(* A Vec or VecDeque whose elements are distinct is kept as the set of its *)
(* elements and the order they were pushed in (a relation): idle/pushed    *)
(* for the idle lists, waiters/parked for the queues of parked checkouts,  *)
(* cached/usedBefore for the keys of the LRU cache that holds the lists.   *)
(*                                                                         *)
(* Time is kept as the age of each idle entry (now - idle_at), saturated   *)
(* one tick past the idle timeout.                                         *)
(***************************************************************************)
EXTENDS Naturals, FiniteSets

CONSTANTS
    Requests,        \* slots for concurrent requests; a slot is reused
    Keys,            \* ConnectionIds: one per connection descriptor
    Conns,           \* connection attempts and connections alive at once
    H2Keys,          \* keys whose descriptor asks for HTTP/2
    ConfigH2,        \* the client was configured http2_only
    AlpnH2,          \* what servers may answer: is h2 the negotiated protocol
    RetryCanceled,   \* config.retry_canceled_requests
    MaxIdlePerHost,  \* config.max_idle_per_host; 0 would disable the pool
    MaxPoolSize,     \* config.max_pool_size (number of keys)
    IdleTimeout      \* config.idle_timeout, in ticks

\* A oneshot channel before anything was sent, and after its sender was
\* dropped unsent; any other content of a channel is the value sent.
Empty    == "empty"
Canceled == "canceled"
\* A request that holds no connection; an attempt no request polls any more.
NoConn     == "no connection"
Background == "background"

ASSUME ConnsAssumption    == Conns \cap {Empty, Canceled, NoConn} = {}
ASSUME RequestsAssumption == Background \notin Requests
ASSUME KeysAssumption     == Keys # {} /\ IsFiniteSet(Keys) /\ H2Keys \subseteq Keys
ASSUME ConfigAssumption   == /\ ConfigH2 \in BOOLEAN
                             /\ AlpnH2 \subseteq BOOLEAN
                             /\ RetryCanceled \in BOOLEAN
                             /\ MaxIdlePerHost \in Nat \ {0}
                             /\ MaxPoolSize \in Nat \ {0}
                             /\ IdleTimeout \in Nat

VARIABLES
    \* PoolInner
    connecting, cached, usedBefore, idle, pushed, age, waiters, parked,
    idleTask,
    \* requests
    pc, key, chan, held, reused,
    \* connections, and the attempts that make them
    conn, h2, of, owner, lock, draining

lists   == <<cached, usedBefore, idle, pushed, age, idleTask>>
pool    == <<connecting, lists, waiters, parked>>
attempt == <<h2, of, owner, lock>>
vars    == <<pool, pc, key, chan, held, reused, conn, attempt, draining>>

(***************************************************************************)
(* pc of a request.                                                        *)
(*   idle          no request in this slot                                 *)
(*   checkout      the select of one_connection_for has not polled yet     *)
(*   connect       the checkout is parked, connect_to is polled next       *)
(*   race          both futures are pending                                *)
(*   waitCheckout  the connect was canceled, the checkout is awaited       *)
(*   waitConnect   the checkout got a closed value, the connect is awaited *)
(*   dropToSend    the connect won: Drop for Checkout is running           *)
(*   dropToIdle    the request ends: Drop for Checkout is running          *)
(*   dropConnect   the request ends: its connect future is dropped next    *)
(*   sending       the request was given to the connection                 *)
(***************************************************************************)
Waiting  == {"race", "waitCheckout", "waitConnect"}
Dropping == {"dropToSend", "dropToIdle"}
Holding  == {"dropToSend", "sending"}
PCs      == {"idle", "checkout", "connect", "dropConnect", "sending"}
              \cup Waiting \cup Dropping

\* conn: an attempt is dialing (connector running) or in the HTTP handshake;
\* a connection is up (tx.is_ready), busy (HTTP/1 exchange in progress) or
\* down (closed, poisoned or never made).
Attempting == {"dialing", "handshake"}
ConnStates == Attempting \cup {"up", "busy", "down"}

Ages == 0..(IdleTimeout + 1)

TypeOK ==
    /\ connecting \in SUBSET Keys
    /\ cached \in SUBSET Keys
    /\ usedBefore \in SUBSET (Keys \X Keys)
    /\ idle \in [Keys -> SUBSET Conns]
    /\ pushed \in SUBSET (Conns \X Conns)
    /\ age \in [Conns -> Ages]
    /\ waiters \in [Keys -> SUBSET Requests]
    /\ parked \in SUBSET (Requests \X Requests)
    /\ idleTask \in BOOLEAN
    /\ pc \in [Requests -> PCs]
    /\ key \in [Requests -> Keys]
    /\ chan \in [Requests -> Conns \cup {Empty, Canceled}]
    /\ held \in [Requests -> Conns \cup {NoConn}]
    /\ \A r \in Requests : held[r] \in Conns <=> pc[r] \in Holding
    /\ reused \in [Requests -> BOOLEAN]
    /\ conn \in [Conns -> ConnStates]
    /\ h2 \in [Conns -> BOOLEAN]
    /\ of \in [Conns -> Keys]
    /\ owner \in [Conns -> Requests \cup {Background}]
    /\ lock \in [Conns -> BOOLEAN]
    /\ draining \in SUBSET Conns

Init ==
    /\ connecting = {} /\ cached = {} /\ usedBefore = {} /\ pushed = {}
    /\ idle = [k \in Keys |-> {}]
    /\ age = [c \in Conns |-> 0]
    /\ waiters = [k \in Keys |-> {}] /\ parked = {}
    /\ idleTask = FALSE
    /\ pc = [r \in Requests |-> "idle"]
    /\ key = [r \in Requests |-> CHOOSE k \in Keys : TRUE]
    /\ chan = [r \in Requests |-> Empty]
    /\ held = [r \in Requests |-> NoConn]
    /\ reused = [r \in Requests |-> FALSE]
    /\ conn = [c \in Conns |-> "down"]
    /\ h2 = [c \in Conns |-> FALSE]
    /\ of = [c \in Conns |-> CHOOSE k \in Keys : TRUE]
    /\ owner = [c \in Conns |-> Background]
    /\ lock = [c \in Conns |-> FALSE]
    /\ draining = {}

-----------------------------------------------------------------------------
(* What the pool can tell of a connection, a checkout and a list.          *)

\* impl Poolable for PoolClient: not poisoned and the sender is ready.
IsOpen(c) == conn[c] = "up"

\* Expiration::expires.
Expired(c) == age[c] > IdleTimeout

\* What IdlePopper::pop hands out.
Usable(c) == IsOpen(c) /\ ~Expired(c)

\* A pool that takes every parked checkout for live.
LiveUnchecked(r) == TRUE

\* !tx.is_closed(): the receiver of a parked checkout has not been dropped.
Live(r) == pc[r] \notin Dropping

\* connect_to's is_ver_h2: the request's own version wins over the client's.
IsVerH2(k) == ConfigH2 \/ k \in H2Keys

\* Connections nothing in the program refers to any more.
Unreferenced(c) ==
    /\ conn[c] \notin Attempting
    /\ c \notin draining
    /\ \A k \in Keys : c \notin idle[k]
    /\ \A r \in Requests : chan[r] # c /\ held[r] # c

\* The pairs of an order that mention no element of S.
Without(order, S) == {p \in order : p[1] \notin S /\ p[2] \notin S}

(***************************************************************************)
(* The critical sections of the pool, as fragments of actions.             *)
(***************************************************************************)

\* A cache without a limit.
EvictedNever(k) == {}

\* The keys LruCache::get_or_insert_mut drops to make room for k.
Evicted(k) ==
    IF k \in cached \/ Cardinality(cached) < MaxPoolSize THEN {}
    ELSE {e \in cached : \A j \in cached : <<j, e>> \notin usedBefore}

\* Vec::push: the entry comes after everything in the list.
PushedLast(k, c) == idle[k] \X {c}

\* An IdleTask that is never started.
SpawnIdleNever(added) == UNCHANGED idleTask

\* PoolInner::spawn_idle_interval: the first entry added starts the IdleTask.
SpawnIdleInterval(added) ==
    idleTask' = (idleTask \/ (added /\ IdleTimeout > 0))

\* The end of PoolInner::put: the value no waiter took goes to the idle list
\* of its key, which becomes the most recently used key, unless the list is
\* full.
AddIdle(k, c) ==
    LET evicted == Evicted(k)
        gone    == UNION {idle[e] : e \in evicted}
        full    == Cardinality(idle[k]) >= MaxIdlePerHost
    IN  /\ cached' = (cached \ evicted) \cup {k}
        /\ usedBefore' = Without(usedBefore, evicted \cup {k})
                            \cup ((cached \ (evicted \cup {k})) \X {k})
        /\ idle' = [j \in Keys |-> IF j \in evicted THEN {}
                                   ELSE IF j = k /\ ~full THEN idle[j] \cup {c}
                                   ELSE idle[j]]
        /\ pushed' = Without(pushed, gone)
                        \cup (IF full THEN {} ELSE PushedLast(k, c))
        /\ age' = [d \in Conns |-> IF d = c \/ d \in gone THEN 0 ELSE age[d]]
        /\ SpawnIdleInterval(~full)

\* A put that forgets the waiters.
PutUniqueToIdle(k, c) ==
    AddIdle(k, c) /\ UNCHANGED <<connecting, waiters, parked, chan>>

\* PoolInner::put of an HTTP/1 connection: the first live waiter gets it and
\* the waiters before it are discarded; without one it becomes idle.
PutUnique(k, c) ==
    LET live == {w \in waiters[k] : Live(w)}
    IN  /\ \/ \E w \in live :
                /\ \A v \in live : <<v, w>> \notin parked
                /\ chan' = [chan EXCEPT ![w] = c]
                /\ waiters' = [waiters EXCEPT ![k] =
                                   {v \in @ : <<w, v>> \in parked}]
                /\ UNCHANGED lists
           \/ /\ live = {}
              /\ waiters' = [waiters EXCEPT ![k] = {}]
              /\ AddIdle(k, c)
              /\ UNCHANGED chan
        /\ parked' = Without(parked, waiters[k] \ waiters'[k])
        /\ UNCHANGED connecting

\* The channels after the live waiters of k were sent v (or their senders
\* dropped, v = Canceled); the requests in gone drop their receiver.
Sent(k, v, gone) ==
    [r \in Requests |-> IF r \in gone THEN Empty
                        ELSE IF r \in waiters[k] /\ Live(r) THEN v
                        ELSE chan[r]]

\* A lock released without canceling the waiters.
ConnectedQuietly(k, gone) ==
    /\ connecting' = connecting \ {k}
    /\ chan' = [r \in Requests |-> IF r \in gone THEN Empty ELSE chan[r]]
    /\ UNCHANGED <<lists, waiters, parked>>

\* PoolInner::connected: the lock of k is released and every waiter of k that
\* was not served is canceled.
Connected(k, gone) ==
    /\ connecting' = connecting \ {k}
    /\ chan' = Sent(k, Canceled, gone)
    /\ waiters' = [waiters EXCEPT ![k] = {}]
    /\ parked' = Without(parked, waiters[k])
    /\ UNCHANGED lists

\* Pool::pooled of an HTTP/2 connection: put (which gives up when the key
\* already has an idle list) and connected under one lock.
PooledShared(k, c, gone) ==
    /\ connecting' = connecting \ {k}
    /\ waiters' = [waiters EXCEPT ![k] = {}]
    /\ parked' = Without(parked, waiters[k])
    /\ IF k \in cached
       THEN chan' = Sent(k, Canceled, gone) /\ UNCHANGED lists
       ELSE chan' = Sent(k, c, gone) /\ AddIdle(k, c)

-----------------------------------------------------------------------------
(* A request: HttpClient::send_request .. one_connection_for.              *)

\* A new request for key k enters one_connection_for.
Start(r, k) ==
    /\ pc[r] = "idle"
    /\ pc' = [pc EXCEPT ![r] = "checkout"]
    /\ key' = [key EXCEPT ![r] = k]
    /\ UNCHANGED <<pool, chan, held, reused, conn, attempt, draining>>

\* An HTTP/1 connection handed to a request is busy until it has answered.
InUse(c) == IF h2[c] \/ conn[c] = "down" THEN conn[c] ELSE "busy"

\* An idle list that keeps the HTTP/1 connection it hands out.
PoppedShared(c, after) == after

\* IdlePopper::pop: what leaves the list with c; a shared connection stays.
Popped(c, after) == IF h2[c] THEN after ELSE after \cup {c}

\* The first poll of the select: Checkout::checkout finds an idle connection
\* (IdlePopper::pop: the last usable entry, those after it are dropped, a
\* shared one stays with a fresh idle_at); connect_to is never started.
CheckoutIdle(r) ==
    LET k == key[r] IN
    /\ pc[r] = "checkout"
    /\ \E c \in idle[k] :
        LET after == {d \in idle[k] : <<c, d>> \in pushed}
            gone  == Popped(c, after)
        IN  /\ Usable(c)
            /\ \A d \in after : ~Usable(d)
            /\ idle' = [idle EXCEPT ![k] = @ \ gone]
            /\ pushed' = Without(pushed, gone)
            /\ age' = [d \in Conns |->
                         IF d \in after \cup {c} THEN 0 ELSE age[d]]
            /\ IF idle[k] = gone
               THEN /\ cached' = cached \ {k}
                    /\ usedBefore' = Without(usedBefore, {k})
               ELSE /\ UNCHANGED cached
                    /\ usedBefore' = Without(usedBefore, {k})
                                        \cup ((cached \ {k}) \X {k})
            /\ held' = [held EXCEPT ![r] = c]
            /\ conn' = [conn EXCEPT ![c] = InUse(c)]
    /\ reused' = [reused EXCEPT ![r] = TRUE]
    /\ pc' = [pc EXCEPT ![r] = "sending"]
    /\ UNCHANGED <<connecting, waiters, parked, idleTask, key, chan, attempt,
                   draining>>

\* The first poll of the select: no usable idle connection.  The key's list
\* is dropped and the checkout parks itself.
CheckoutPark(r) ==
    LET k == key[r] IN
    /\ pc[r] = "checkout"
    /\ \A c \in idle[k] : ~Usable(c)
    /\ cached' = cached \ {k}
    /\ usedBefore' = Without(usedBefore, {k})
    /\ idle' = [idle EXCEPT ![k] = {}]
    /\ pushed' = Without(pushed, idle[k])
    /\ age' = [d \in Conns |-> IF d \in idle[k] THEN 0 ELSE age[d]]
    /\ waiters' = [waiters EXCEPT ![k] = @ \cup {r}]
    /\ parked' = parked \cup (waiters[k] \X {r})
    /\ pc' = [pc EXCEPT ![r] = "connect"]
    /\ UNCHANGED <<connecting, idleTask, key, chan, held, reused, conn, attempt,
                   draining>>

\* connect_to's lazy closure: an HTTP/2 attempt needs the connecting lock of
\* its key, and is canceled when another attempt has it.
StartConnect(r) ==
    LET k == key[r] IN
    /\ pc[r] = "connect"
    /\ \/ /\ IsVerH2(k) /\ k \in connecting
          /\ pc' = [pc EXCEPT ![r] = "waitCheckout"]
          /\ UNCHANGED <<connecting, conn, attempt>>
       \/ /\ ~(IsVerH2(k) /\ k \in connecting)
          /\ \E c \in Conns :
                /\ Unreferenced(c)
                /\ conn' = [conn EXCEPT ![c] = "dialing"]
                /\ h2' = [h2 EXCEPT ![c] = IsVerH2(k)]
                /\ of' = [of EXCEPT ![c] = k]
                /\ owner' = [owner EXCEPT ![c] = r]
                /\ lock' = [lock EXCEPT ![c] = IsVerH2(k)]
          /\ connecting' = IF IsVerH2(k) THEN connecting \cup {k} ELSE connecting
          /\ pc' = [pc EXCEPT ![r] = "race"]
    /\ UNCHANGED <<lists, waiters, parked, key, chan, held, reused, draining>>

\* The receiver of a parked checkout is ready (Checkout::poll_waiter): an
\* open connection is used, and the connect that was started goes on in the
\* background.
WaiterServed(r) ==
    /\ pc[r] \in {"race", "waitCheckout"}
    /\ chan[r] \in Conns /\ IsOpen(chan[r])
    /\ held' = [held EXCEPT ![r] = chan[r]]
    /\ reused' = [reused EXCEPT ![r] = TRUE]
    /\ chan' = [chan EXCEPT ![r] = Empty]
    /\ conn' = [conn EXCEPT ![chan[r]] = InUse(chan[r])]
    /\ owner' = [c \in Conns |-> IF owner[c] = r THEN Background ELSE owner[c]]
    /\ pc' = [pc EXCEPT ![r] = "sending"]
    /\ UNCHANGED <<pool, key, h2, of, lock, draining>>

\* ... a connection that closed on its way is CheckedOutClosedValue: the own
\* connect is awaited if it runs; otherwise only an http2_only client that
\* retries canceled requests starts over.
WaiterGotClosed(r) ==
    /\ pc[r] \in {"race", "waitCheckout"}
    /\ chan[r] \in Conns /\ ~IsOpen(chan[r])
    /\ chan' = [chan EXCEPT ![r] = Empty]
    /\ pc' = [pc EXCEPT ![r] = IF @ = "race" THEN "waitConnect"
                               ELSE IF ConfigH2 /\ RetryCanceled THEN "checkout"
                               ELSE "idle"]
    /\ UNCHANGED <<pool, key, held, reused, conn, attempt, draining>>

\* ... a canceled channel is CheckoutNoLongerWanted, for which is_canceled is
\* false: the request fails and drops the connect it started.
WaiterCanceled(r) ==
    /\ pc[r] \in {"race", "waitCheckout"}
    /\ chan[r] = Canceled
    /\ chan' = [chan EXCEPT ![r] = Empty]
    /\ pc' = [pc EXCEPT ![r] = IF @ = "race" THEN "dropConnect" ELSE "idle"]
    /\ UNCHANGED <<pool, key, held, reused, conn, attempt, draining>>

\* Drop for Checkout after its receiver is gone: clean_waiters.
CleanWaiters(r) ==
    LET k    == key[r]
        dead == {w \in waiters[k] : ~Live(w)}
    IN
    /\ pc[r] \in Dropping
    /\ waiters' = [waiters EXCEPT ![k] = @ \ dead]
    /\ parked' = Without(parked, dead)
    /\ \/ /\ pc[r] = "dropToSend"
          /\ pc' = [pc EXCEPT ![r] = "sending"]
          /\ conn' = [conn EXCEPT ![held[r]] = InUse(held[r])]
       \/ /\ pc[r] = "dropToIdle"
          /\ pc' = [pc EXCEPT ![r] = IF \E c \in Conns : owner[c] = r
                                     THEN "dropConnect" ELSE "idle"]
          /\ UNCHANGED conn
    /\ UNCHANGED <<connecting, lists, key, chan, held, reused, attempt, draining>>

\* The attempt c is over: nobody owns it and it holds no lock.
Ended(c) ==
    /\ owner' = [owner EXCEPT ![c] = Background]
    /\ lock' = [lock EXCEPT ![c] = FALSE]

\* A connect future whose drop leaks the lock.
ReleaseLeaks(c, gone) ==
    /\ chan' = [r \in Requests |-> IF r \in gone THEN Empty ELSE chan[r]]
    /\ UNCHANGED pool

\* Drop for Connecting, or for a connect future that holds no lock.
Release(c, gone) ==
    IF lock[c] THEN Connected(of[c], gone)
    ELSE /\ chan' = [r \in Requests |-> IF r \in gone THEN Empty ELSE chan[r]]
         /\ UNCHANGED pool

\* A request that ends drops its connect future.
DropConnect(r) ==
    /\ pc[r] = "dropConnect"
    /\ \E c \in Conns :
        /\ owner[c] = r
        /\ conn' = [conn EXCEPT ![c] = "down"]
        /\ Ended(c)
        /\ Release(c, {})
    /\ pc' = [pc EXCEPT ![r] = "idle"]
    /\ UNCHANGED <<key, held, reused, h2, of, draining>>

\* A request gives its Pooled up.
DropPooled(r) ==
    /\ held' = [held EXCEPT ![r] = NoConn]
    /\ reused' = [reused EXCEPT ![r] = FALSE]

\* The caller drops the response future (a timeout, a select, a closed page).
\* A busy HTTP/1 connection is not open, so Drop for Pooled lets it close.
CancelRequest(r) ==
    /\ \/ /\ pc[r] \in {"race", "waitCheckout"}
          /\ chan' = [chan EXCEPT ![r] = Empty]
          /\ pc' = [pc EXCEPT ![r] = "dropToIdle"]
          /\ UNCHANGED <<conn, held, reused>>
       \/ /\ pc[r] = "waitConnect"
          /\ pc' = [pc EXCEPT ![r] = "dropConnect"]
          /\ UNCHANGED <<chan, conn, held, reused>>
       \/ /\ pc[r] = "sending"
          /\ conn' = [conn EXCEPT ![held[r]] = IF h2[held[r]] THEN @ ELSE "down"]
          /\ DropPooled(r)
          /\ pc' = [pc EXCEPT ![r] = "idle"]
          /\ UNCHANGED chan
    /\ UNCHANGED <<pool, key, attempt, draining>>

-----------------------------------------------------------------------------
(* A connection attempt: the future connect_to returns.                    *)

\* Somebody polls the attempt: its request, or the executor.
Polled(c) ==
    /\ conn[c] \in Attempting
    /\ owner[c] \in {Background}
                     \cup {r \in Requests : pc[r] \in {"race", "waitConnect"}}

\* The requests that stop waiting for the pool when c's future resolves.
Racing(c) == {r \in Requests : owner[c] = r /\ pc[r] = "race"}

\* The connector returned a transport.  ALPN chose h2 (alpn) or not; an
\* upgrade from Auto to HTTP/2 needs the connecting lock (alpn_h2), and is
\* canceled without it: the checkout is left to wait alone.
Dialed(c, alpn) ==
    LET k       == of[c]
        upgrade == alpn /\ ~IsVerH2(k)
    IN
    /\ Polled(c) /\ conn[c] = "dialing"
    /\ \/ /\ ~(upgrade /\ k \in connecting)
          /\ conn' = [conn EXCEPT ![c] = "handshake"]
          /\ h2' = [h2 EXCEPT ![c] = @ \/ alpn]
          /\ lock' = [lock EXCEPT ![c] = @ \/ upgrade]
          /\ connecting' = IF upgrade THEN connecting \cup {k} ELSE connecting
          /\ UNCHANGED <<pc, owner>>
       \/ /\ upgrade /\ k \in connecting
          /\ conn' = [conn EXCEPT ![c] = "down"]
          /\ Ended(c)
          /\ pc' = [r \in Requests |->
                      IF owner[c] # r THEN pc[r]
                      ELSE IF pc[r] = "race" THEN "waitCheckout" ELSE "idle"]
          /\ UNCHANGED <<connecting, h2>>
    /\ UNCHANGED <<lists, waiters, parked, key, chan, held, reused, of, draining>>

\* The dial, the HTTP handshake or the first readiness failed.
AttemptFailed(c) ==
    /\ Polled(c)
    /\ conn' = [conn EXCEPT ![c] = "down"]
    /\ Ended(c)
    /\ Release(c, Racing(c))
    /\ pc' = [r \in Requests |->
                IF owner[c] # r THEN pc[r]
                ELSE IF pc[r] = "race" THEN "dropToIdle" ELSE "idle"]
    /\ UNCHANGED <<key, held, reused, h2, of, draining>>

\* The connection is ready: Pool::pooled.  A request in the race drops its
\* checkout next; an attempt in the background drops the Pooled, which puts
\* an HTTP/1 connection in the pool.
Handshaken(c) ==
    LET r == owner[c] IN
    /\ Polled(c) /\ conn[c] = "handshake"
    /\ IF h2[c] THEN PooledShared(of[c], c, Racing(c))
       ELSE IF r = Background THEN PutUnique(of[c], c)
       ELSE Release(c, Racing(c))
    /\ Ended(c)
    /\ IF r = Background
       THEN /\ conn' = [conn EXCEPT ![c] = "up"]
            /\ UNCHANGED <<pc, held, reused>>
       ELSE /\ pc' = [pc EXCEPT ![r] = IF @ = "race" THEN "dropToSend"
                                       ELSE "sending"]
            /\ conn' = [conn EXCEPT ![c] =
                          IF h2[c] \/ pc[r] = "race" THEN "up" ELSE "busy"]
            /\ held' = [held EXCEPT ![r] = c]
            /\ reused' = [reused EXCEPT ![r] = FALSE]
    /\ UNCHANGED <<key, h2, of, draining>>

-----------------------------------------------------------------------------
(* The connection in use: HttpClient::try_send_request.                    *)

\* The response head arrived.  HTTP/2: the Pooled is tossed.  HTTP/1: it
\* goes back to the pool now, or when the body has been read (on_idle).
Respond(r) ==
    LET c == held[r] IN
    /\ pc[r] = "sending" /\ conn[c] # "down"
    /\ DropPooled(r)
    /\ pc' = [pc EXCEPT ![r] = "idle"]
    /\ \/ /\ h2[c]
          /\ UNCHANGED <<pool, chan, conn, draining>>
       \/ /\ ~h2[c]
          /\ conn' = [conn EXCEPT ![c] = "up"]
          /\ PutUnique(of[c], c)
          /\ UNCHANGED draining
       \/ /\ ~h2[c]
          /\ draining' = draining \cup {c}
          /\ UNCHANGED <<pool, chan, conn>>
    /\ UNCHANGED <<key, attempt>>

\* The exchange failed.  A request handed back unsent by a reused connection
\* is tried again; any other error, and an HTTP/2 stream error, is final.
SendFailed(r) ==
    /\ pc[r] = "sending"
    /\ \/ /\ conn[held[r]] = "down" /\ reused[r] /\ RetryCanceled
          /\ pc' = [pc EXCEPT ![r] = "checkout"]
       \/ /\ conn[held[r]] = "down" \/ h2[held[r]]
          /\ pc' = [pc EXCEPT ![r] = "idle"]
    /\ DropPooled(r)
    /\ UNCHANGED <<pool, key, chan, conn, attempt, draining>>

\* A connection put back before its body has been read.
DrainedEarly(c) ==
    /\ c \in draining
    /\ draining' = draining \ {c}
    /\ PutUnique(of[c], c)
    /\ UNCHANGED <<conn, pc, key, held, reused, attempt>>

\* on_idle: poll_ready resolved and the Pooled is dropped.
Drained(c) ==
    /\ c \in draining
    /\ draining' = draining \ {c}
    /\ \/ /\ conn[c] = "busy"
          /\ conn' = [conn EXCEPT ![c] = "up"]
          /\ PutUnique(of[c], c)
       \/ /\ conn[c] = "down"
          /\ UNCHANGED <<pool, chan, conn>>
    /\ UNCHANGED <<pc, key, held, reused, attempt>>

\* The peer closes a connection, or it is poisoned.
ConnDown(c) ==
    /\ conn[c] \in {"up", "busy"} /\ ~Unreferenced(c)
    /\ conn' = [conn EXCEPT ![c] = "down"]
    /\ UNCHANGED <<pool, pc, key, chan, held, reused, attempt, draining>>

-----------------------------------------------------------------------------
(* Time and the IdleTask.                                                  *)

IdleConns == UNION {idle[k] : k \in Keys}

\* A tick of the clock.
Tick ==
    /\ \E c \in IdleConns : ~Expired(c)
    /\ age' = [c \in Conns |-> IF c \in IdleConns /\ ~Expired(c) THEN age[c] + 1
                              ELSE age[c]]
    /\ UNCHANGED <<connecting, cached, usedBefore, idle, pushed, waiters, parked,
                   idleTask, pc, key, chan, held, reused, conn, attempt, draining>>

\* PoolInner::clear_expired: what it leaves of the list of k.
Retained(k) == {c \in idle[k] : Usable(c)}

\* IdleTask::run woke up and clears every list.
ClearExpired ==
    LET kept == [k \in Keys |-> Retained(k)]
        gone == {c \in IdleConns : ~Usable(c)}
        lost == {k \in cached : kept[k] = {}}
    IN
    /\ idleTask /\ gone # {}
    /\ idle' = kept
    /\ pushed' = Without(pushed, gone)
    /\ age' = [c \in Conns |-> IF c \in gone THEN 0 ELSE age[c]]
    /\ cached' = cached \ lost
    /\ usedBefore' = Without(usedBefore, lost)
    /\ UNCHANGED <<connecting, waiters, parked, idleTask, pc, key, chan, held,
                   reused, conn, attempt, draining>>

-----------------------------------------------------------------------------

Next ==
    \/ \E r \in Requests :
        \/ \E k \in Keys : Start(r, k)
        \/ CheckoutIdle(r)
        \/ CheckoutPark(r)
        \/ StartConnect(r)
        \/ WaiterServed(r)
        \/ WaiterGotClosed(r)
        \/ WaiterCanceled(r)
        \/ CleanWaiters(r)
        \/ DropConnect(r)
        \/ CancelRequest(r)
        \/ Respond(r)
        \/ SendFailed(r)
    \/ \E c \in Conns :
        \/ \E alpn \in AlpnH2 : Dialed(c, alpn)
        \/ AttemptFailed(c)
        \/ Handshaken(c)
        \/ Drained(c)
        \/ ConnDown(c)
    \/ Tick
    \/ ClearExpired

Spec == Init /\ [][Next]_vars

-----------------------------------------------------------------------------
(* Safety.                                                                 *)

\* The places a connection can be: being made, an idle list, a channel on its
\* way to a waiter, in use by a request, or finishing its response body.
Places(c) ==
    {<<"idle", k>> : k \in {j \in Keys : c \in idle[j]}}
      \cup {<<"chan", r>> : r \in {q \in Requests : chan[q] = c}}
      \cup {<<"held", r>> : r \in {q \in Requests : held[q] = c}}
      \cup (IF c \in draining THEN {<<"draining", Background>>} ELSE {})
      \cup (IF conn[c] \in Attempting THEN {<<"attempt", Background>>} ELSE {})

\* An HTTP/1 connection (Reservation::Unique) is never in two places: it is
\* not idle while a request uses it, nor given to two waiters.
UniqueOwner == \A c \in Conns : ~h2[c] => \A p, q \in Places(c) : p = q

\* A connection in the middle of an exchange is never offered to another
\* request: Drop for Pooled and on_idle only put back what is ready.
BusyNotOffered ==
    \A c \in Conns : conn[c] = "busy" =>
        /\ c \notin IdleConns
        /\ \A r \in Requests : chan[r] # c

\* No lost wake-up: while a key has idle connections, no checkout for it is
\* parked (put serves waiters first, checkout looks at idle before it parks).
NoIdleWhileWaiting == \A k \in cached : waiters[k] = {}

\* A key is in the LRU cache exactly while its list is not empty; neither the
\* list nor the cache outgrows its limit.
PoolBounded ==
    /\ \A k \in Keys : k \in cached <=> idle[k] # {}
    /\ \A k \in Keys : Cardinality(idle[k]) <= MaxIdlePerHost
    /\ Cardinality(cached) <= MaxPoolSize

\* The attempts that hold the connecting lock of a key.
Holders(k) == {c \in Conns : lock[c] /\ of[c] = k}

\* The connecting lock of a key is held by exactly one attempt, which is still
\* running: it is never leaked by a failed, canceled or dropped connect.
LockHeldByOne ==
    \A k \in Keys :
        /\ k \in connecting <=> Holders(k) # {}
        /\ \A c, d \in Holders(k) : c = d
        /\ \A c \in Holders(k) : conn[c] \in Attempting

\* A request that gave its own connect up for another's (Canceled) is parked,
\* and the other attempt still runs: it will be served or canceled.
NoStrandedCheckout ==
    \A r \in Requests : pc[r] = "waitCheckout" /\ chan[r] = Empty =>
        r \in waiters[key[r]] /\ key[r] \in connecting

(* What makes the above inductive.                                         *)

\* An attempt holds the lock exactly when it is for HTTP/2; before ALPN it is
\* when its key asks for it; only attempts are owned or hold locks.
AttemptInv ==
    \A c \in Conns :
        /\ lock[c] => conn[c] \in Attempting
        /\ owner[c] # Background => conn[c] \in Attempting
        /\ conn[c] \in Attempting => (lock[c] <=> h2[c])
        /\ conn[c] = "dialing" => (h2[c] <=> IsVerH2(of[c]))

\* What is idle, on its way, in use or draining has been made.
MadeInv ==
    \A c \in Conns : conn[c] \in Attempting =>
        /\ c \notin draining
        /\ \A k \in Keys : c \notin idle[k]
        /\ \A r \in Requests : chan[r] # c /\ held[r] # c

\* A checkout is in the queue of its key from the poll that parks it until it
\* is served, canceled or cleaned away; the order of a queue is total.
Parked == {"connect", "race", "waitCheckout"}

QueueInv ==
    /\ \A k \in Keys : \A r \in waiters[k] :
        key[r] = k /\ chan[r] = Empty /\ pc[r] \in Parked \cup Dropping
    /\ \A r \in Requests : pc[r] \in Parked /\ chan[r] = Empty => r \in waiters[key[r]]
    /\ \A r \in Requests : pc[r] \notin Parked => chan[r] = Empty
    /\ \A k \in Keys : \A v, w \in waiters[k] :
        v # w => <<v, w>> \in parked \/ <<w, v>> \in parked

\* A connection that put took out of the pool's hands is on its way to a
\* checkout that still listens: a parked one that gives up while put walks the
\* queue (its receiver is gone, its sender not yet cleaned away) is passed over,
\* and the connection goes to the next one or to the idle list.
SentIsAwaited == \A r \in Requests : chan[r] \in Conns => pc[r] \in Parked

\* An owned attempt is for its owner's key, and the owner has not moved on.
OwnerInv ==
    \A c \in Conns : owner[c] # Background =>
        /\ of[c] = key[owner[c]]
        /\ pc[owner[c]] \in {"race", "waitConnect", "dropToIdle", "dropConnect"}

PoolInv ==
    /\ AttemptInv /\ MadeInv /\ LockHeldByOne
    /\ QueueInv /\ OwnerInv /\ NoStrandedCheckout

(* Actions.                                                                *)

\* one_connection_for: "Either checkout or connect could get canceled [...] In
\* both cases, we should just wait for the other future."  A checkout that
\* ends without a connection leaves the request waiting for its own connect.
CanceledCheckoutWaitsForConnect ==
    [][\A r \in Requests :
        pc[r] = "race" /\ chan[r] = Canceled /\ chan'[r] = Empty
            => pc'[r] # "dropConnect"]_vars

(***************************************************************************)
(* Liveness.  A task that can run is run, and the connector resolves every *)
(* attempt (the operating system and connect_timeout see to it); callers,  *)
(* servers and the clock owe nothing.                                      *)
(***************************************************************************)
Fairness ==
    /\ \A r \in Requests :
        /\ WF_vars(CheckoutIdle(r) \/ CheckoutPark(r))
        /\ WF_vars(StartConnect(r))
        /\ WF_vars(WaiterServed(r) \/ WaiterGotClosed(r) \/ WaiterCanceled(r))
        /\ WF_vars(CleanWaiters(r))
        /\ WF_vars(DropConnect(r))
    /\ \A c \in Conns :
        WF_vars((\E alpn \in AlpnH2 : Dialed(c, alpn)) \/ Handshaken(c)
                    \/ AttemptFailed(c))
    /\ WF_vars(ClearExpired)

FairSpec == Spec /\ Fairness

\* Every wait of a request ends: it gets a connection, an error or a retry.
WaitEnds ==
    \A r \in Requests : (pc[r] \in Waiting) ~> (pc[r] \notin Waiting)

\* With an idle timeout, a connection that expired or closed in the pool does
\* not stay there: the IdleTask runs whenever something is idle.
DeadIdleEvicted ==
    IdleTimeout > 0 =>
        \A c \in Conns : (c \in IdleConns /\ ~Usable(c)) ~> (c \notin IdleConns \/ Usable(c))

=============================================================================

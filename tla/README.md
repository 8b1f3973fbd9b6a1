# A TLA+ model of tlsurl

tlsurl is an HTTP client with TLS fingerprint control: a Rust library (`src/`,
derived from wreq/hyper-util), a core crate for the language bindings
(`crates/tlsurl-core`) and bindings for Python and Node. This directory models
the client from a call of the bindings down to the socket, checks the models
with TLC and proves the safety properties of all but the topmost with TLAPS.

Run a check with `tlc -config client.cfg MCClient`, the proofs of a module with,
for example, `tlapm ConnectionPoolProofs.tla`. `PROJECT.json` lists the runs, the
source lines behind each definition, the hazards and the findings.

## 1. Inventory

| Component | State | Operations | What makes it correct | Module |
| --- | --- | --- | --- | --- |
| Connection pool (`client/layer/client/pool.rs`) | one mutex: connecting locks, LRU cache of idle lists, queues of parked checkouts, the IdleTask flag | checkout, put, pooled, connecting, connected, clear_expired, drops of Pooled / Checkout / Connecting | one owner per HTTP/1 connection, nothing busy handed out, nothing sent to a checkout that has gone, no lost wake-up, no leaked lock, limits | `ConnectionPool` |
| HTTP client (`client/layer/client.rs`) | per request: the race of a Checkout and a connect, then a Pooled | connection_for, one_connection_for, connect_to, try_send_request, drop at any await | every wait ends; a canceled half of the race leaves the other | `ConnectionPool` |
| Streaming response (`tlsurl-core/stream.rs`) | async mutex around the body, a cancellation token | next_chunk, close, drop | one reader of the transport, none after close; a single consumer never takes a truncated body for a complete one; close wakes readers | `StreamResponse`, `LentBody` |
| WebSocket handle (`tlsurl-core/websocket.rs`) | two async mutexes (sender, receiver), closing and cancellation tokens | send, recv, close, abort, drop | abort ends every call and releases the socket; close interrupts calls | `WebSocketHandle` |
| TCP connect (`conn/net/tcp.rs`, `dns.rs`) | two address lists, the active attempts, timers | split_by_preference, launch_next, poll_attempts, make_room, connect_with_timeout | all addresses get their turn, a bounded number at once; the error reported, the deadline | `HappyEyeballs` |
| Timeout, config, retry, redirect layers (`client/layer/*`, `retry.rs`, `redirect.rs`) | timers; retry count and token budget; current request, body, history, pending decision | call, poll, clone_request, retry, redirect policies | method, body and headers agree; credentials stay with their origin; redirects, retries and the wait for the head are bounded | `RequestLayers` |
| Cookie jar (`cookie*`) | map of cookies under a lock | add, remove, clear, get, get_all, set_cookies, cookies | scope; Secure cookies are safe from plain http; order and expiry | `CookieJar` |
| Connector, tunnels, SOCKS, proxies (`conn/*`, `proxy*`), TLS sessions (`tls/session.rs`) | attempts; two maps of sessions under a mutex | intercept, dial, CONNECT, SOCKS, TLS, put, pop | the route configured is the one taken; sessions go home and are used once; a timeout ends an attempt | `Connector` |
| Requests, bodies, multipart, WebSocket handshake, options (`client/request.rs`, `body.rs`, `multipart.rs`, `ws.rs`, `header.rs`, core options) | a request under construction | builder calls, execute, into_websocket | declared length is sent, headers survive, handshakes are proven | `RequestBuilder` |
| Core client and bindings (`tlsurl-core/lib.rs`, `upload.rs`, `bindings/*`) | client object, calls in flight, tokens, listeners, files | request, stream, websocket, abort, cancel, close | limits are exact; an abort is honoured whenever it comes | `ClientCall` |

How they interact: a call of a binding (`ClientCall`) builds a request
(`RequestBuilder`) and runs it through the layers (`RequestLayers`) to
`HttpClient`, which asks the jar (`CookieJar`) and races the pool against the
connector (`ConnectionPool`); the connector (`Connector`) runs the TCP race
(`HappyEyeballs`), the proxy handshake and TLS. The bindings hand a body
(`StreamResponse`) or a WebSocket (`WebSocketHandle`) to Python or Node, where
several tasks and threads may use it. Each module has its neighbours as
environment: what one module promises (a response comes or fails, an attempt
ends) is what its user assumes of it.

Hard behaviours: futures dropped at any await (timeouts, asyncio cancellation,
AbortSignals), critical sections interleaved by threads, oneshot channels whose
other end has gone, connections that close while they wait, HTTP/2 upgrades
decided by ALPN after the fact, timers racing results, chains of redirects and
retries, files that change while they are sent. `PROJECT.json` lists them as
hazards, each at its line.

## 2. Modules

| Module | Models | Runs |
| --- | --- | --- |
| `ConnectionPool` | pool and HTTP client | `MCClient`: client, pool_live; `MCConnectionPool`: pool_cancel |
| `ConnectionPoolProofs` | theorems about `ConnectionPool` | (proofs) |
| `LentBody` | what a response handle promises about its body (abstract) | |
| `Callers` | the tasks that use the handles, and who closes or aborts them | |
| `StreamResponse` | streaming response and its wrappers, an implementation of `LentBody` | `MCHandles`: handles; `MCStreamResponse`: stream_eof |
| `StreamResponseProofs` | theorems about `StreamResponse`, the refinement of `LentBody` among them | (proofs) |
| `WebSocketHandle` | WebSocket handle and its wrappers | `MCHandles`: handles; `MCWebSocketHandle`: ws_abort |
| `WebSocketHandleProofs` | a theorem about `WebSocketHandle` | (proofs) |
| `HappyEyeballs` | TCP connect | `MCRequest`: request |
| `HappyEyeballsProofs` | theorems about `HappyEyeballs` | (proofs) |
| `RequestLayers` | timeout, config, retry and redirect layers | `MCRequest`: request; `MCRequestLayers`: layers_scope, layers_timeout |
| `RequestLayersProofs` | theorems about `RequestLayers` | (proofs) |
| `CookieJar` | jar, store and their use by the client | `MCClient`: client |
| `CookieJarProofs` | theorems about `CookieJar` | (proofs) |
| `Connector` | proxies, connector, tunnels, TLS sessions | `MCConnector`: connector |
| `ConnectorProofs` | theorems about `Connector` | (proofs) |
| `RequestBuilder`, `ClientCall` | request building; calls of the Rust, Python and Node APIs | `MCClientCall`: facade, facade_abort |
| `ClientCallProofs` | theorems about `ClientCall` | (proofs) |

The operators described as a mistake ("a pool that takes every parked checkout
for live", or named after the definition they precede, as `pop_keeps`) are
mutations of the definition that follows them; they are not part of any
specification and serve to show that a property can fail.

### ConnectionPool

One action is one critical section of the pool's mutex, together with what the
poll or drop around it does up to the next one. A request is a slot with a
program counter that says which future it is suspended in; `chan` is its oneshot
receiver, `held` its `Pooled`. A connection (`Conns`) is first an attempt
(`dialing`, `handshake`), then `up`, `busy` or `down`; `owner` is the request
that polls the attempt, or the executor once the checkout has won. `lock[c]`
says that attempt `c` holds a `Connecting` whose drop releases the connecting
lock. Lists are sets with the order of insertion as a relation, which keeps the
state canonical; idle time is an age that saturates one tick past the timeout.

| Code | Definition |
| --- | --- |
| `Checkout::poll`, `checkout`, `IdlePopper::pop` | `CheckoutIdle`, `CheckoutPark` |
| `connect_to` (lazy closure, ALPN, handshake) | `StartConnect`, `Dialed`, `AttemptFailed`, `Handshaken` |
| `poll_waiter`, `one_connection_for` | `WaiterServed`, `WaiterGotClosed`, `WaiterCanceled` |
| `put`, `connected`, `pooled` | `PutUnique`, `AddIdle`, `Connected`, `PooledShared` |
| drops of Checkout, Connecting, Pooled | `CleanWaiters`, `Release`, `DropConnect`, `CancelRequest` |
| `try_send_request`, `on_idle` | `Respond`, `SendFailed`, `Drained` |
| `IdleTask`, `clear_expired` | `ClearExpired`, `Retained` |

Left out: a disabled pool (`max_idle_per_host` 0), a pool without an idle
timeout, the drop of the whole pool, what is sent on a connection.

### StreamResponse, LentBody and WebSocketHandle

Calls run on different threads, so a step is what a call does between two
accesses to shared state: taking or leaving the line of a tokio mutex (`line`:
the holder, then the waiters in order), testing or setting a token, touching the
slot behind the mutex. A future can be dropped wherever it awaits; the Python
wrapper then closes or aborts. The transport may answer, fail, end or stay
silent. `out` is what a read returns, `ended` how the transport did; a read that
finds the slot empty returns None whatever the reason it is empty, and the step in
which a failed or cancelled read makes its wrapper close is one of its own, as other
threads run before it. In `WebSocketHandle` a call is a sequence of stages (`send`; `recv`, then
`flush`; `closeSend`, then `closeRecv`), each using one half of the socket.

`LentBody` says what the handle is for: one body, lent to one read at a time,
and to none once the handle is stopped. `StreamResponse` implements it under the
mapping *places* = the slot and the futures that own the stream, *stopped* = the
token. The mapping makes one step of `LentBody` out of the several a read takes.

### HappyEyeballs

An address is its position in the resolver's answer. `stage` is where
`connect_inner` is: in `launch_next`, about to poll the attempts, or between
that poll and those of the timers. The sequential path is the same machine
without stagger. Timers and attempts settle at any moment, an address may also
never answer, and a socket may fail to be set up. The order of an attempt is its
position in `tried`; `attempts` gives, for the order of each active future, what
it would poll. The deque of the code is in launch order and loses its front
(`make_room_for_next_attempt`) or what has finished, so it needs no order of its
own.

### RequestLayers

One call through `Timeout(Config(Retry(FollowRedirect(HttpClient))))`, in the
order `ClientBuilder::build` stacks them. `pc` says who is being waited for: the
exchange (`sent`), an asynchronous redirect policy (`deciding`) or the reader of
the body (`body`). `req` and `sent` are what went out last, `repr` what is left
to send again, `policy` the redirect layer's state, `kept` the copy the retry
layer holds. An answer or a failure is one action that goes through the layers
from the inside out: the redirect layer follows it or hands it to `Outcome`, the
retry layer starts again or hands it to `Deliver`, the timeout layer arms the
timers of the body.

| Code | Definition |
| --- | --- |
| `ConfigService::call`, `fetch_timeout_options` | `Execute`, `BadScheme`, `MergedCreds`, `TotalTimeout`, `ReadTimeout` |
| `redirect/future.rs` | `AnswerPassed`, `AnswerRedirects`, `Decided`, `Rewritten`, `Follow` |
| `FollowRedirectPolicy`, `Policy`, `Referrer` in `redirect.rs` | `ForRequest`, `Decisions`, `Refused`, `OnRedirect`, `Applied`, `WithoutSensitive` |
| `retry.rs`, `retry/*` | `default` .. `classify_fn`, `InScope`, `CloneRequest`, `Classify`, `Outcome` |
| `timeout/future.rs`, `timeout/body.rs` | `HeadTimeout`, `PollBody`, `BodyTimeout`, `Tick` |

301 stands for 302 and 307 for 308 (the code treats them alike). Time is counted
in ticks; a future whose timer has elapsed is polled before the next tick, while
a body is polled when its reader likes. That urgency idealises the scheduler:
without it no bound on elapsed time could hold of any program.

### CookieJar

The store is a function from (domain, path, host-only, name) to an entry with
its creation index. A call of `add` reads the clock and then waits for the write
lock, so `BeginAdd` and `FinishAdd` are two steps, between which other tasks and
the clock move. A response queues its Set-Cookie fields whole; `BeginAdd` passes
over those that do not parse, as the lazy iterator of `set_cookies` does. A
request collects its cookies once (`SendRequest`) and keeps them through a
resend. A sort gives each cookie the place that those before it leave (`Placed`);
creation indices differ, so there is one such order. Hosts are sequences of labels, paths of segments;
`domain_match`, `path_match`, `normalize_path` are translated over them.

### Connector

An attempt is a program counter through `dial`, the proxy's TLS, `connect`
(CONNECT) or `socks`, `tls`, `handshake`, `open`, with the layers of its stream
(`tcp`, `tls`, `tunnel`, each to a host). The proxy is chosen by `intercept_for`
out of matchers built by the code's constructors. The answer to CONNECT is a
sequence of units and every read returns a prefix of what is left of it, so that
every cut occurs; a head without an empty line, with another status or that is no
HTTP at all occur too. `bound` is the local address and interface a dial is bound
to (`Bound`), out of the descriptor's bind options and the client's. `perHost` and `reverse`
are the session cache; peers issue sessions at any time after a handshake, under
ids of their choice (`SessionIds`), so that an id may come again under the same key
or another while it is stored, offered or used up. `given` remembers under which
keys an id came, `spent` which TLS 1.3 sessions a handshake has taken. An open
connection serves requests whose descriptor has the same `id`, which is how the
pool would reuse it.

### RequestBuilder and ClientCall

`RequestBuilder` holds the operators: header maps as ordered entries (with the
library's swap-remove), bodies as pieces whose bytes are counted, the builder's
methods, multipart lengths, option validation, the checks of the WebSocket
handshake and the error codes. `ClientCall` is a call: `NewClient`, `Call`
(the checks of the binding), `Start`/`Poll` (the future under its token),
`Build`, the writing of the body piece by piece while files grow and shrink,
the answer, the reading of the body, and the resolution of the promise or the
return. `Abort` (AbortSignal), `CancelTask` (asyncio) and `CloseClient` come at
any moment. Calls of the Rust API make any sequence of up to `MaxOps` builder
calls first.

## 3. Runs

| Run | Instance | Shows |
| --- | --- | --- |
| client | pool: 2 requests, 3 connections, an HTTP/2 key and an ALPN key, lists of 2, cache of 1; jar: 2 tasks, 3 URIs, 8 responses, 3 calls, 1 tick | seven safety invariants of the pool; scope, Secure cookies and export of the jar |
| pool_live | 2 requests, 3 connections, 1 key, an HTTP/2 client (ALPN upgrades are in client) | every wait of a request ends; dead idle connections are removed |
| pool_cancel (violation) | 2 requests, 2 connections, 1 key | a canceled checkout drops its own running connect, against the comment in `one_connection_for` |
| handles | body: 3 readers and a closer; WebSocket: 2 tasks and an aborter | the body's handle implements `LentBody`, None comes early only behind a read that lost the body, close wakes reads; calls use their half safely, abort and close end them |
| stream_eof (violation) | 2 readers and a closer | a queued read is told None for a body that was cut off, against the documentation of `next_chunk` |
| ws_abort (violation) | 1 task and an aborter | abort can leave half a socket behind, against the comment on SocketGuard |
| request | layers: 6 clients, 5 requests, 4 URIs, 2 redirects per attempt, 4 referrer policies; race: all lists of up to 4 addresses of two families, 2 attempts at once | consistency of what is sent, bounds, end of a call; order, number, error and liveness of the race |
| layers_scope (violation) | the layers as above | a request outside the scope of its retry policy is retried once, against the documentation of `for_host` |
| layers_timeout (violation) | the layers as above | a body is read to its end at tick 3 under a total timeout of 2, against the documentation of `timeout` |
| connector | 2 tasks, 7 descriptors, 2 clients, 3 attempts, 5 answers, 2 sessions with ids out of 2, capacity 1 | routes and local addresses, sessions, tunnels, timeout |
| facade | 1 call out of 28, 6 clients, a file of up to 2 bytes, 12 answers, 2 builder calls | bodies, headers, handshake, limit, abort |
| facade_abort (violation) | the same | a signal that fires after a recv failed beside a running close is not heard, against the documentation of `signal` and `abort` |

Three runs hold two components each (client, handles, request). The two share no
state, so a product would only multiply their states: which one a behaviour follows
is chosen at its start (the constant `Followed` of `MCClient` leaves the jar out of
pool_live), the other stays in an initial state, and the actions, the fairness and the
properties are those of the components' own modules; that is why `CookieJar` and
`HappyEyeballs` have a `JarNext` and a `RaceNext`, beside the `Next` of the others.
Every behaviour of either instance is a behaviour of the run. Run by itself with
`-coverage 1` (its own specification and the constants above), every component takes
each of its actions.

Why the bounds are enough. Pool: two requests for one key are what every race
needs (one waits for what the other makes, returns or loses); the third
connection lets a background attempt, one in use and an idle one exist together;
two keys over a cache of one force eviction; a list of two has an order and can
be full; one tick of idle timeout has both a fresh and an expired age. Request
slots are reused, so sequences are unbounded. The run client uses the symmetry of
requests (the jar's tasks carry the same names) and connections and a view without
the remains of dead connections, which nothing reads; both are sound for its
properties, which are invariants and properties of single steps that treat the
elements of a set alike. Handles: a holder, a waiter and an interloper; three
readers also give a queue with an order. Race: with a limit of two, four addresses
pass the limit twice and leave one family with more addresses than the other; the
limit of six is a constant of the specification. Layers: two redirects make every
pair of statuses and a way from home to another origin and back; limits of one
and two are both reached and exceeded; a budget of one token and a limit of three
retries are each the tighter one somewhere. Jar: three calls are a Secure cookie,
an insecure one that meets it and a request that sees both, with paths longer,
shorter and equal. Connector: a session needs one connection to be issued on and
two attempts to be fought over; two sessions with ids out of two are the same id
twice, under one key or two, or two ids that meet in one list; capacity one makes
every second put into a list evict.
Facade: bytes at, below and above every limit fit into two or three; one call is
enough, as calls share only the client object, which a call reads once.

Deadlock is checked in pool_live, pool_cancel and ws_abort. The other systems stop:
a handle is dropped, a race, a call or an attempt ends, and the counters that bound
a model run out; client follows the jar, which stops, as well as the pool, which
does not.

## 4. Fairness

Only what the runtime gives: a task that was woken is polled, a thread between
two steps goes on, a timer elapses. The pool's liveness also assumes that the
connector resolves each attempt, one way or the other; `Connector` shows it does
when a timeout is set (`AttemptEnds`, which assumes only that the timer is
polled), and the operating system's connect timeout sees to it otherwise.
Callers never owe a call or a drop, peers never owe an answer, connections never
owe to close, and the WebSocket properties do not rely on the operation timeout.
In the TCP race attempts may hang for ever. `CallEnds` assumes ticks and that the
future with an elapsed timer is polled; `AbortSettles` that the runtime polls a
future whose token was cancelled and that the event loop runs the continuation
of a promise.

## 5. Proofs

Each theorem holds for every value of the constants that the named assumptions
of its module allow: any number of requests, tasks, readers and attempts, any
limits, timeouts, budgets and capacities, any lists of addresses, any URIs,
responses and proxies. The bounds that keep a model finite (`MaxAttempts`,
`MaxTime`, ...) are constants like the others, so the theorems do not depend on
their values. Every inductive invariant was checked by TLC on the run's instance
before it was proved.

**Pool** (`ConnectionPoolProofs`; from the assumptions of `ConnectionPool`: finitely
many keys, positive limits, values for "none" that are no connection).

* `TypeCorrect`: `Spec => []TypeOK`. `TypeOK` is inductive; it is split in four
  parts (lists, queues, requests, connections) so that an action is shown to
  preserve only what it touches. Its one non-trivial conjunct ties `held` to the
  steps in which a request uses a connection.
* `NoLostWakeup`: `Spec => []NoIdleWhileWaiting`. Inductive with `TypeOK`: `put`
  serves live waiters before it adds to the idle list and empties the queue when
  it finds none; a checkout parks only after it has removed its key's list.
* `ConnectingLock`: `Spec => []LockHeldByOne`. Not inductive by itself: an attempt
  that ends releases the lock only if it holds it, and a fresh attempt must not
  be something still referred to. The invariant is `LockInv`: `AttemptInv` (an
  attempt holds the lock exactly when it is for HTTP/2, and only attempts hold
  or are owned), `MadeInv` (an attempt is not yet idle, sent, held or draining)
  and `LockHeldByOne`.
* `PoolKeepsToItsLimits`: `[]PoolBounded`. Inserting into a full cache evicts its
  least recently used key, so the proof needs that there is one: `LimitInv` adds
  `LruOrder`, every non-empty set of cached keys has one that none of them was used
  before.
* `NoCheckoutStranded` and `SentConnectionsAreAwaited`: `[]NoStrandedCheckout`,
  `[]SentIsAwaited`. The invariant is `CheckoutInv`: what each request's step says
  of its place in the queue, its channel and the attempt it relies on
  (`RequestInv`), a total order on every queue, idle connections of their own key,
  and at most one attempt awaited by a request (`OneAttemptEach`). Without the last, a
  canceled request could drop two attempts, one that others rely on. For the second
  theorem `put` matters: a waiter that is giving up is still in the queue, with its
  receiver gone, until it takes the lock, so the queue alone says nothing about who
  listens; `Live` asks the channel.
* `OneOwnerEach` and `BusyIsNotOffered`: `[]UniqueOwner`, `[]BusyNotOffered`. The
  invariant `PlaceInv` says, for each connection, that two of its places exclude
  each other, and that a busy one is being drained or used by a sending request.

**Handles** (`StreamResponseProofs`, `WebSocketHandleProofs`; from: the callers are
a finite set without `App`). Both rest on lemmas about the line of a tokio mutex:
joining, unlocking and leaving it keep it free of repetitions, and change its head
only as a mutex would.

* `OnlyQueuedReadsHearNoneEarly`: the action property `NoneIsAnnounced`, from
  `BodyInv`: the line is the reads that wait or hold, the body is in one place at a
  time (`BodyHasOnePlace`), a wrapper whose read was dropped with the body still owes
  the close (`CloseIsOwed`), and while the body is lost, not ended and the handle not
  closed, some read's wrapper owes it (`LossIsOwed`). A read does not owe the close
  before it has returned, so it is another one's.
* `HandleLendsBody`: `Spec => LendsBody`, the refinement of `LentBody`. The initial
  state maps to one, and under `BodyInv` every step is a step of `LentBody` or
  leaves its variables alone.
* `HalfInUseIsThere`: `[]UsedHalfIsThere`, from `GuardInv`: a guard that is being
  dropped still has its lock, and what is in use is in its slot. Without the first
  part, a drop could unlock a half that a second call uses.

**TCP race** (`HappyEyeballsProofs`; from: the resolver's answers are lists of v4
and v6 addresses, `MaxParallel` is positive).

* `EveryAddressIsTried`: `[]TriesAll`, from `AddrInv`: the two lists and `tried`
  hold the candidates between them, every list increasing, what is queued after
  what was tried of its family. That `SplitByPreference` establishes it is shown
  for answers of any length.
* `EarliestErrorIsKept`: `[]ErrorIsEarliest`, from `ErrorInv`: `first_error` is
  the minimum of what failed, and a race that has nothing left to launch or to
  wait for has seen a failure (or no address). The latter is what makes an attempt
  cancelled by `make_room_for_next_attempt` harmless: it makes room only for one that follows.

**Layers** (`RequestLayersProofs`; from `LayersAssumption`, the types of
configurations and requests). The proofs first reduce the actions to a few kinds
of steps (`StepKinds`: retried, followed, deferred, delivered, ...), then show
each invariant for each kind.

* `RetriesAreBounded`: `RetryInv` adds that a kept copy is one `clone_request`
  would make, and that tokens and retries together never exceed the budget.
* `PayloadFollowsBody`: `PayloadInv` relates the body that is left, and the one a
  pending decision holds, to the headers of the request.
* `ChainsAreBounded`: `ChainInv` says that the policy's list is the chain without
  its end, so that the limit it tests is about the chain.
* `CredentialsNeverLeak`: `CredentialsInv`, credentials are there only while the
  whole chain was at home; hence comparing two neighbours is enough.
* `HeadsComeInTime`: `[]HeadInTime`, from `TotalInv`: until the head has come, the
  ticks since the call and what is left of the timer make up the total timeout, so no
  retry, redirect or decision has started it anew.

**Cookie jar** (`CookieJarProofs`; from `UrisAssumption` and `ResponsesAssumption`:
hosts and paths are sequences, a path is not empty, times are integers, and
`NoneAssumption`: `None` is neither a path nor a shown cookie). The
invariant is `JarInv`: the jar is finite, indices are distinct and below
`nextIndex`, every entry's setter may set it for its domain, every key says what a
snapshot shows of it; what a task is about
to store is such an entry, stamped no later than now; what it carries may go where
its request goes.

* `CookiesStayInScope`: `[]ScopeRespected`, for which `cookies_for` is shown to
  list exactly the matching cookies (`Collected`).
* `SecureCookiesAreKept`: the action property `SecureCookieKept`. A store decides
  with a clock that may be behind, under which a live cookie is live too.
* `SecureCookiesComeFirst`: the action property `SecureCookieNotShadowed`. Two
  domains that cover one host nest (`DomainsNest`), so the overlay rule applies
  and the stored path does not match the Secure cookie's; of two paths that match
  one request that makes it the shorter (`LongerPath`).
* `SnapshotsAreFaithful`: `[]SnapshotFaithful`. `get_all` gives each live cookie its
  rank in creation order (`Ranks`, `PlacedKeys`); shown and scoped again with an
  https URI of its host a cookie has the key it had (`Rescoped`); stored in order,
  none replaces another, so each gets its rank as index (`Imported`). The copy then
  has the same keys in the same order (`Mirrored`), and so collects, finds and
  counts the same.

**Connector** (`ConnectorProofs`; from `AnswersAssumption`: an answer to CONNECT has
a head, its end and the target's bytes, `CapacityAssumption`, and
`MatchersAssumption`: proxies have a scheme `parse_env_uri` accepts).

* `RoutesAreRespected`: `[]RouteRespected`, from `RouteInv`: at each step of an
  attempt its layers are those its route prescribes (`LayersOK`).
* `TunnelHeadIsConsumed`: `[]TunnelHeadConsumed`, from `HeadInv`: buffer and rest
  put together are the answer, whatever the cuts, and an attempt past the tunnel has
  a buffer that begins with 200 and holds the end of the head.
* `SessionsAreWellUsed`: `[]SessionsWellUsed`, from `SessionInv`, which is `RouteInv`
  with two parts: `CacheInv` (lists without repetition whose entries were issued by
  the TLS end of their key and given under it; the reverse map names a key its session
  was given under; a spent session is not in it unless its id is shared) and, for
  each attempt, `OfferOK` (what it offers was issued by the end of its own TLS). Only
  the reverse map's agreement needs the exception for shared ids; that a session goes
  home holds for all of them.

**Calls** (`ClientCallProofs`; from the assumptions of `ClientCall`: limits and
chunks are natural numbers, header maps name an entry once, an AbortSignal belongs
to a Node call, "none" is no error, no code and no number, bodies, forms and parts
are counted in bytes, no profile names a Content-Length). The invariant is `Inv`: a
call has its fields, its request is well formed (a header map with one entry per
name, what `config_call` and the builder methods need), and three parts hold. The proofs first
state each action as a relation between the call before and after it (`Works`,
`Resolves`, `Sends`, `Settles`, `Closes`), then keep each part.

* `AbortIsHonoured`: `[]AbortHonoured`, from `AbortInv`: while the signal has not
  fired, a call it can still reach has its listener, so that the abort of a
  handed-out handle closes it, save for a socket that was closing when a failed recv
  removed the listener (`Held`); a call whose signal had fired before has its token
  set from the start, is never polled and has no request. Without the first part an
  abort after the hand-over would go unheard; without the second nothing keeps an
  aborted call from building its request.
* `LimitIsExact`: `[]LimitExact`, from `LimitInv`: the chunks left to read are a
  suffix of the answer's, `got` is the decoded size of those before it, and a refusal
  is given with a prefix that is larger than the limit. `exceeds` compares with what
  room is left, so the proof needs that `got` never passes the limit.
* `HandshakeIsProven`: `[]HandshakeProven`, from `HandshakeInv`: from the moment it
  is sent the request of a socket carries the call's own nonce as its only key with
  HTTP/1, or is a CONNECT with HTTP/2. The key is inserted after the caller's headers
  and builder calls, and the client's defaults give way to the request's headers
  (`Replaced`: what `replace_headers` leaves of both maps).

* `BodyIsAsDeclared`: `[]BodyAsDeclared`, from `BodiesInv`, which holds next to
  `Inv`: a builder that declares a length has a body of that many bytes (`Framed`,
  for each builder method, for `multipart` by `FormMeasured`: the length
  `compute_length` sums over the parts is what the pieces of `into_stream` take
  together, for forms of any length); the parts a descriptor becomes are as long as
  they say (`PartSized`); and while the body is written, the pieces left are a
  suffix of it, the bytes sent are those of the pieces before and of what was read
  of a file, and that is within the piece (`Writing`). Appending keeps it, because
  `file_body` takes what it stat'ed and no more; a file that lost bytes only leaves
  the bound. The caller's own lengths are exempt as in `BodyAsDeclared`: a
  Content-Length it set, a part of `stream_with_length` or `Part::file`, a second
  body in place of the first.

What a fold over a list of any length computes (`replace_headers`, `AddHeaders`, the
bytes of a body, the import of a snapshot) is proved without an induction rule:
`FoldSteps` in `ClientCallProofs`, `OneByOne` in `CookieJarProofs` say how the fold
over a prefix follows from the one before, and a claim about all prefixes holds
because a least one that refutes it (`LeastNumber`) would have a predecessor.

Only model-checked:

* liveness (`WaitEnds`, `DeadIdleEvicted`, `CloseWakesReads`, `AbortEndsCalls`,
  `CloseInterruptsCalls`, `HungAddressBypassed`, `DeadlineEnds`, `CallEnds`,
  `AttemptEnds`, `AbortSettles`): fairness and ENABLED are beyond this prover;
* `SocketsBounded`: a matter of counting what is active, for which the bounded run
  (every list of up to four addresses past a limit of two) says what there is to say;
* `HeadersKept`: it compares two computations over lists, the lines `call_sorted` and
  `call_visit` write and the header map. The library's induction theorems cannot be
  instantiated here, and the argument by least counterexample has to be made anew
  for each of the nested folds.

## 6. Where the code and its documents disagree

Six disagreements are runs, with the quotations in `PROJECT.json`: `pool_cancel`,
`stream_eof`, `ws_abort`, `layers_scope`, `layers_timeout`, `facade_abort`. Others that
came up while modelling:

* Credentials in a URL become an Authorization line ahead of one the caller gave, and
  both are sent (`request.rs:196`, `tlsurl-core/lib.rs:384`), while
  `docs/native-bindings.md:77` forbids mixing the options for credentials with that
  header; `HeadersKept` says where the extra line goes.
* Sessions are equal when their ids are, and ids are chosen by peers
  (`tls/session.rs:113`). One that comes under two keys is in two lists but once in
  the reverse map, so a pop of one leaves the other listed; and putting a session that
  is there, at capacity, evicts another one for it. `SessionsWellUsed` excepts such ids.
* A SOCKS proxy is dialed by the client's connector, without the bind options of the
  request, which are nevertheless part of the id its connection is pooled under.
* A signal that fires during a close whose listener is gone (`facade_abort`) is why
  `AbortHonoured` has an exception.
* A redirect that an asynchronous policy decides on skips the scheme and
  `https_only` checks of `FollowRedirectPolicy::redirect`, and is not recorded in
  the history; `ChainBounded` is therefore stated for limits only.
* The pool keeps no copy of a second HTTP/2 connection for a key
  (`pool.rs:304`), though the comment at `pool.rs:197` says it always does.
* A read that has passed its last test of the token puts the body back although
  `close` has come in between (`stream.rs:53` against the comment at `stream.rs:28`);
  the body stays until the next read or the drop, which `LendsBody` shows to be
  the worst of it: nobody is lent it again.
* Bytes that follow the head of a CONNECT answer in the same read are dropped with
  the buffer (`tunnel.rs:183`). An HTTP/2 request forwarded through an https proxy
  still offers h2, though the comment at `connector.rs:338` says ALPN is disabled.
* A proxy whose URI has an unusable scheme is passed over, and so is one whose
  `no_proxy` applies: the next one is asked.
* Failures of a TLS handshake carry the code CONNECT, errors of the proxy REQUEST;
  the code TLS is for configuration only.
* `Part::file` declares the length of a file without limiting what is read, unlike
  `upload::file_body`; the bindings use the latter.
* Replacing a multipart body leaves its Content-Length and Content-Type behind.
* Names that the header order does not mention are written in the order
  swap-removal leaves them in.

## 7. Not modelled

TLS, HTTP/1 and HTTP/2 engines, decompression, SOCKS messages, the parsers of
URIs, cookies and headers (external crates: modelled by what the code does with
their results); the lookups of the DNS resolvers, system proxy settings, trust
stores and the key log (platform I/O); the accessors of responses (text, JSON,
charsets), `Debug` and `Display` texts, builder setters that only store a value
for an engine; how the hash of a ConnectionId is cached.

## 8. Plan

1. `ConnectionPool`, its runs and first theorems (done).
2. `StreamResponse`, `WebSocketHandle`, `HappyEyeballs` (done).
3. `RequestLayers`, `CookieJar`, `Connector`, `RequestBuilder` and `ClientCall`; the
   refinement of `LentBody` (done).
4. Theorems about the pool, the handles, the TCP race, the layers, the jar, the
   connector and the calls (done, section 5).
5. Still to prove: `HeadersKept`, `SocketsBounded`. Still to model: the frames of a
   WebSocket (order of a send and the Close frame), and with them what an interrupted
   call leaves of the closing handshake.

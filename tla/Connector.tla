------------------------------ MODULE Connector ------------------------------
(***************************************************************************)
(* How a connection comes to be (src/src/conn/connector.rs, conn.rs,       *)
(* conn/http.rs, conn/proxy/*, proxy.rs, proxy/matcher.rs, tls/conn.rs,    *)
(* tls/session.rs): a proxy is chosen for the descriptor, the socket is    *)
(* dialed, a CONNECT or SOCKS tunnel opened, TLS started with a cached     *)
(* session, and requests of the same connection id are then sent on it.    *)
(* Several attempts run at once and share the session cache.               *)
(*                                                                         *)
(* A stream is the sequence of its layers: "tcp", "tls" or "tunnel" to a   *)
(* host.  The answer of a proxy to CONNECT is a sequence of units: status  *)
(* lines "200", "407", "503", header lines "h", the empty line "end",      *)
(* bytes that do not parse "bad" and bytes after the head "x".             *)
(***************************************************************************)
EXTENDS Integers, Sequences, FiniteSets, SequencesExt

CONSTANTS
    None,           \* Rust's Option::None
    Attempts,       \* tasks that open a connection
    Descriptors,    \* [uri, version, proxy, emulate, bind]: what is asked for
    Configs,        \* [proxies, nodelay, timeout, layers, alpn, tls, bind]
    Profiles,       \* emulate -> TlsOptions [psk, alpn]
    Answers,        \* what proxies may answer to CONNECT
    Capacity,       \* per_host_session_capacity
    MaxHeaders,     \* headers httparse is given room for (64 in the code)
    SessionIds,     \* ids servers choose for the TLS sessions they issue
    MaxSessions,    \* bound: TLS sessions servers issue
    MaxAttempts     \* bound: connections opened

\* The empty line ends a head: what follows are the target's bytes.
ASSUME AnswersAssumption ==
    \A answer \in Answers :
        /\ answer \in Seq(STRING)
        /\ \A i, j \in DOMAIN answer : i < j /\ answer[i] = "end" => answer[j] = "x"
ASSUME CapacityAssumption == Capacity \in Nat

VARIABLES
    config,         \* the connector, built once
    attempt,        \* each task's attempt and then its connection
    perHost,        \* per_host_sessions: key -> sessions, least recent first
    reverse,        \* reverse: session id -> key
    given,          \* auxiliary: id -> keys of the connections it was issued on
    spent,          \* auxiliary: ids of TLS 1.3 taken and not issued since
    issued,         \* sessions issued so far (bounds the model only)
    opened,         \* attempts made so far (bounds the model only)
    wire            \* what the step wrote to a peer (for the properties)

cache == <<perHost, reverse, given, spent, issued>>
vars == <<config, attempt, cache, opened, wire>>

-----------------------------------------------------------------------------
(***************************************************************************)
(* Proxies and their rules.                                                *)
(***************************************************************************)

NoExtra == [auth |-> None, misc |-> None]

\* Proxy::http, https, all and unix.
NewProxy(scheme, uri) == [scheme |-> scheme, uri |-> uri, extra |-> NoExtra, no |-> {}]

basic_auth(proxy, user) ==
    IF proxy.scheme = "unix" THEN proxy
    ELSE [proxy EXCEPT !.uri.user = user, !.extra.auth = user]

custom_http_headers(proxy, headers) ==
    IF proxy.scheme = "unix" THEN proxy ELSE [proxy EXCEPT !.extra.misc = headers]

custom_http_auth(proxy, auth) == [proxy EXCEPT !.extra.auth = auth]

\* NoProxy::from_string: empty entries of the list are skipped.
from_string(entries) == {entries[i] : i \in DOMAIN entries} \ {None}

no_proxy(proxy, rules) == [proxy EXCEPT !.no = rules]

IsSocks(scheme) == scheme \in {"socks4", "socks4a", "socks5", "socks5h"}
IsHttpish(scheme) == scheme \in {"http", "https"}

\* The userinfo becomes Basic credentials for an HTTP proxy, raw ones for a
\* SOCKS proxy; any other scheme is no proxy at all.
parse_env_uri(uri) ==
    IF uri = None \/ ~(IsSocks(uri.scheme) \/ IsHttpish(uri.scheme)) THEN None
    ELSE [scheme |-> uri.scheme, host |-> uri.host, extra |-> NoExtra,
          basic |-> IF IsHttpish(uri.scheme) THEN uri.user ELSE None,
          raw |-> IF IsSocks(uri.scheme) THEN uri.user ELSE None]

\* matcher::Builder::build
build_matcher(b, extra) ==
    LET With(intercept) == IF intercept = None THEN None
                           ELSE [intercept EXCEPT !.extra = extra]
        all == With(parse_env_uri(b.all))
        http == With(parse_env_uri(b.http))
        https == With(parse_env_uri(b.https))
    IN  IF b.isCgi THEN [http |-> None, https |-> None, no |-> {}, unix |-> None]
        ELSE [http |-> IF http # None THEN http ELSE all,
              https |-> IF https # None THEN https ELSE all,
              no |-> b.no, unix |-> b.unix]

\* What a matcher intercepts with is a proxy of a scheme the connector knows.
IsMatcher(m) ==
    \A intercept \in {m.http, m.https} \ {None} :
        IsSocks(intercept.scheme) \/ IsHttpish(intercept.scheme)

ASSUME MatchersAssumption ==
    /\ \A d \in Descriptors : d.proxy # None => IsMatcher(d.proxy)
    /\ \A c \in Configs : c.proxies \in Seq({m \in Range(c.proxies) : IsMatcher(m)})

into_matcher(proxy) ==
    LET For(schemes) == IF proxy.scheme \in schemes THEN proxy.uri ELSE None
    IN  build_matcher([isCgi |-> FALSE, all |-> For({"all"}), http |-> For({"http"}),
                       https |-> For({"https"}), no |-> proxy.no, unix |-> For({"unix"})],
                      proxy.extra)

\* Matcher::system: the environment; none of it for a CGI program, whose
\* HTTP_PROXY is a header of the request it serves.
system(env) ==
    build_matcher([isCgi |-> env.isCgi, all |-> env.all, http |-> env.http,
                   https |-> env.https, no |-> from_string(env.no), unix |-> None], NoExtra)

\* NoProxy::contains: an address by itself or its network, a name by itself or
\* a name above it, "*" for every name.
no_proxy_contains(rules, host) ==
    \E r \in rules :
        \/ r.kind = "ip" /\ host.kind = "ip" /\ host.n \div r.size = r.n \div r.size
        \/ r.kind = "any" /\ host.kind = "domain"
        \/ /\ r.kind = "domain" /\ host.kind = "domain"
           /\ IsSuffix(r.labels, host.labels)

matcher_intercept(m, uri) ==
    IF m.unix # None THEN [scheme |-> "unix", host |-> m.unix, extra |-> NoExtra,
                           basic |-> None, raw |-> None]
    ELSE IF no_proxy_contains(m.no, uri.host) THEN None
    ELSE IF uri.scheme = "http" THEN m.http
    ELSE IF uri.scheme = "https" THEN m.https
    ELSE None

\* Intercept::basic_auth
ProxyAuth(intercept) ==
    IF intercept.extra.auth # None THEN intercept.extra.auth ELSE intercept.basic

\* The Proxy-Authorization a proxy gets: the one among its custom headers wins.
SentAuth(intercept) ==
    IF intercept.extra.misc # None THEN intercept.extra.misc ELSE ProxyAuth(intercept)

\* connect_auto: the request's proxy, then the client's, in order.
intercept_for(d) ==
    LET matchers == (IF d.proxy = None THEN <<>> ELSE <<d.proxy>>) \o config.proxies
        hits == {i \in DOMAIN matchers : matcher_intercept(matchers[i], d.uri) # None}
    IN  IF hits = {} THEN None
        ELSE LET i == CHOOSE j \in hits : \A k \in hits : j <= k
             IN  matcher_intercept(matchers[i], d.uri)

IsHttps(uri) == uri.scheme = "https"

\* connect_via_proxy and connect_auto_proxy: the ways to go.
RouteKind(d) ==
    LET via == intercept_for(d)
    IN  CASE via = None -> "direct"
          [] via # None /\ via.scheme = "unix" -> "unix"
          [] via # None /\ IsSocks(via.scheme) -> "socks"
          [] via # None /\ IsHttpish(via.scheme) /\ IsHttps(d.uri) -> "tunnel"
          [] OTHER -> "forward"

\* ConnectionId of a descriptor: everything that makes connections differ.
id_no_bind(d) == [uri |-> d.uri, version |-> d.version, proxy |-> d.proxy,
                  emulate |-> d.emulate]

id(d) == [uri |-> d.uri, version |-> d.version, proxy |-> d.proxy, emulate |-> d.emulate,
          bind |-> d.bind]

\* build_https_connector: what the request's bind options leave of the client's.
\* The connector a SOCKS proxy is reached with is the client's.
Bound(d) ==
    IF d.bind = None \/ RouteKind(d) = "socks" THEN config.bind
    ELSE [ip |-> d.bind.ip,
          interface |-> IF d.bind.interface # None THEN d.bind.interface
                        ELSE config.bind.interface]

-----------------------------------------------------------------------------
(***************************************************************************)
(* The TLS connector and its session cache.                                *)
(***************************************************************************)

\* TlsConnectorBuilder::build, for the client's or the request's options.
TlsConnector(options) ==
    [psk |-> options.psk,
     alpn |-> IF config.alpn # None THEN {config.alpn} ELSE options.alpn]

\* build_https_connector prefers the options of the descriptor; a Unix socket
\* is always wrapped with the client's.
TlsFor(d) ==
    TlsConnector(IF d.emulate # None /\ RouteKind(d) # "unix" THEN Profiles[d.emulate]
                 ELSE config.tls)

\* setup_ssl2: a version the request insists on decides, else the connector's
\* list, which connect_auto_proxy empties for a proxy it talks TLS to.
Alpn(d) ==
    CASE d.version = "HTTP/1.1" -> {"http/1.1"}
      [] d.version = "HTTP/2" -> {"h2"}
      [] OTHER -> IF RouteKind(d) = "forward" THEN {} ELSE TlsFor(d).alpn

Sessions(key) == IF key \in DOMAIN perHost THEN perHost[key] ELSE <<>>

SetSessions(key, seq) ==
    [k \in (DOMAIN perHost \cup {key}) \ (IF seq = <<>> THEN {key} ELSE {}) |->
        IF k = key THEN seq ELSE perHost[k]]

\* Two sessions of one id are equal: what a list holds in the place of s.
Stored(seq, s) ==
    IF \E i \in DOMAIN seq : seq[i].id = s.id
    THEN seq[CHOOSE i \in DOMAIN seq : seq[i].id = s.id] ELSE s

Without(seq, s) == RemoveFirst(seq, Stored(seq, s))

\* LruCache::put, which keeps the session it has of that id.
Renew(seq, s) == Append(Without(seq, s), Stored(seq, s))

\* LruTlsSessionCache::put: it makes room before it looks whether the session
\* is there, and forgets the one it threw out, wherever else it is listed.
put(key, session) ==
    LET full == Len(Sessions(key)) >= Capacity /\ Sessions(key) # <<>>
        evicted == IF full THEN {Head(Sessions(key)).id} ELSE {}
        kept == IF full THEN Tail(Sessions(key)) ELSE Sessions(key)
    IN  /\ perHost' = SetSessions(key, Renew(kept, session))
        /\ reverse' = [s \in (DOMAIN reverse \ evicted) \cup {session.id} |->
                          IF s = session.id THEN key ELSE reverse[s]]

\* LruTlsSessionCache::pop: the least recent session; one of TLS 1.3 is
\* removed, from the list of the key the reverse map names.
pop_keeps(key) ==
    UNCHANGED <<perHost, reverse>>

pop(key) ==
    LET s == Head(Sessions(key))
        home == reverse[s.id]
    IN  IF Sessions(key) # <<>> /\ s.tls13 /\ s.id \in DOMAIN reverse
        THEN /\ perHost' = SetSessions(home, Without(Sessions(home), s))
             /\ reverse' = [r \in DOMAIN reverse \ {s.id} |-> reverse[r]]
        ELSE UNCHANGED <<perHost, reverse>>

-----------------------------------------------------------------------------
(***************************************************************************)
(* An attempt.                                                             *)
(***************************************************************************)

\* buf is what was read of the answer; once the tunnel is open it is auxiliary.
Idle == [pc |-> "idle", d |-> None, layers |-> <<>>, bound |-> None, unread |-> <<>>,
         buf |-> <<>>, offered |-> None, h2 |-> FALSE, nodelay |-> FALSE]

Nothing == [kind |-> "nothing", d |-> None, layers |-> <<>>, bound |-> None, auth |-> None]

Init ==
    /\ config \in Configs
    /\ attempt = [a \in Attempts |-> Idle]
    /\ perHost = << >>
    /\ reverse = << >>
    /\ given = [s \in SessionIds |-> {}]
    /\ spent = {}
    /\ issued = 0
    /\ opened = 0
    /\ wire = Nothing

Via(a) == intercept_for(attempt[a].d)
Kind(a) == RouteKind(attempt[a].d)

\* The URI the socket's TLS flag and Nagle handling look at.
TlsOnSocket(a) ==
    IF Kind(a) = "forward" THEN Via(a).scheme = "https" ELSE IsHttps(attempt[a].d.uri)

\* What follows once the bytes of the target flow: TLS, or nothing more.
AfterTunnel(a) == IF IsHttps(attempt[a].d.uri) THEN "tls" ELSE "open"

AfterDial(a) ==
    CASE Kind(a) = "direct" -> AfterTunnel(a)
      [] Kind(a) = "forward" -> IF Via(a).scheme = "https" THEN "tls" ELSE "open"
      [] Kind(a) = "tunnel" -> IF Via(a).scheme = "https" THEN "proxytls" ELSE "connect"
      [] Kind(a) = "socks" -> "socks"
      [] Kind(a) = "unix" -> IF IsHttps(attempt[a].d.uri) THEN "connect" ELSE "open"

\* The end of an attempt: Nagle's algorithm is turned on again.
Finish(a, r) ==
    IF r.pc = "open" /\ Kind(a) # "unix" /\ TlsOnSocket(a) /\ ~config.nodelay
    THEN [r EXCEPT !.nodelay = FALSE] ELSE r

Step(a, r) == attempt' = [attempt EXCEPT ![a] = Finish(a, r)]

Running(a) == attempt[a].pc \notin {"idle", "open"}

Start(a, d) ==
    /\ attempt[a].pc = "idle"
    /\ opened < MaxAttempts
    /\ attempt' = [attempt EXCEPT ![a] = [Idle EXCEPT !.pc = "dial", !.d = d]]
    /\ opened' = opened + 1
    /\ UNCHANGED <<config, cache>>
    /\ wire' = Nothing

\* HttpConnector: name resolution and the race of module HappyEyeballs; Nagle
\* is off for the handshake, except on the socket a SOCKS connector dials.
Dial(a) ==
    /\ attempt[a].pc = "dial"
    /\ LET host == IF Kind(a) = "direct" THEN attempt[a].d.uri.host ELSE Via(a).host
       IN  Step(a, [attempt[a] EXCEPT
                !.pc = AfterDial(a),
                !.layers = <<[kind |-> "tcp", host |-> host]>>,
                !.bound = IF Kind(a) = "unix" THEN None ELSE Bound(attempt[a].d),
                !.nodelay = \/ config.nodelay
                            \/ Kind(a) \notin {"socks", "unix"} /\ TlsOnSocket(a)])
    /\ UNCHANGED <<config, cache, opened>>
    /\ wire' = Nothing

\* Service<Uri> of the HTTPS connector, used to reach a tunneling proxy: no
\* session, no ALPN list of the connection.
ProxyTls(a) ==
    /\ attempt[a].pc = "proxytls"
    /\ Step(a, [attempt[a] EXCEPT
            !.pc = "connect",
            !.layers = Append(@, [kind |-> "tls", host |-> Via(a).host])])
    /\ UNCHANGED <<config, cache, opened>>
    /\ wire' = Nothing

\* tunnel(): the CONNECT request, with the headers of with_auth, with_headers.
WriteConnect(a, answer) ==
    /\ attempt[a].pc = "connect"
    /\ Step(a, [attempt[a] EXCEPT !.pc = "answer", !.unread = answer])
    /\ wire' = [kind |-> "connect", d |-> attempt[a].d, layers |-> attempt[a].layers,
                bound |-> attempt[a].bound, auth |-> SentAuth(Via(a))]
    /\ UNCHANGED <<config, cache, opened>>

\* httparse on what has been read so far.
Parse_status_line(buf) ==
    IF Head(buf) = "bad" THEN "malformed" ELSE Head(buf)

Parse(buf) ==
    IF \/ Head(buf) = "bad"
       \/ Cardinality({i \in DOMAIN buf : buf[i] = "h"}) > MaxHeaders THEN "malformed"
    ELSE IF \E i \in DOMAIN buf : buf[i] = "end" THEN Head(buf) ELSE "partial"

\* One read: any non-empty piece of the rest, or the end of the stream.  Bytes
\* after the head that came with it are dropped with the buffer.
ReadAnswer(a, n) ==
    /\ attempt[a].pc = "answer"
    /\ n = 0 => attempt[a].unread = <<>>
    /\ LET buf == attempt[a].buf \o SubSeq(attempt[a].unread, 1, n)
           rest == SubSeq(attempt[a].unread, n + 1, Len(attempt[a].unread))
           status == IF n = 0 THEN "eof" ELSE Parse(buf)
       IN  Step(a, CASE status = "partial" ->
                          [attempt[a] EXCEPT !.buf = buf, !.unread = rest]
                     [] status = "200" ->
                          [attempt[a] EXCEPT !.pc = AfterTunnel(a), !.buf = buf, !.unread = rest,
                              !.layers = Append(@, [kind |-> "tunnel",
                                                    host |-> attempt[a].d.uri.host])]
                     [] OTHER -> Idle)
    /\ UNCHANGED <<config, cache, opened>>
    /\ wire' = Nothing

\* SocksConnector: the raw credentials go to a SOCKS5 proxy.
SocksHandshake(a) ==
    /\ attempt[a].pc = "socks"
    /\ Step(a, [attempt[a] EXCEPT
            !.pc = AfterTunnel(a),
            !.layers = Append(@, [kind |-> "tunnel", host |-> attempt[a].d.uri.host])])
    /\ wire' = [kind |-> "socks", d |-> attempt[a].d, layers |-> attempt[a].layers,
                bound |-> attempt[a].bound,
                auth |-> IF Via(a).scheme \in {"socks5", "socks5h"} THEN Via(a).raw ELSE None]
    /\ UNCHANGED <<config, cache, opened>>

\* setup_ssl2: the session is taken from the cache before the handshake.
TlsStart(a) ==
    /\ attempt[a].pc = "tls"
    /\ LET key == id(attempt[a].d)
           use == TlsFor(attempt[a].d).psk /\ Sessions(key) # <<>>
           taken == Head(Sessions(key))
       IN  /\ IF TlsFor(attempt[a].d).psk THEN pop(key) ELSE UNCHANGED <<perHost, reverse>>
           /\ spent' = spent \cup (IF use /\ taken.tls13 THEN {taken.id} ELSE {})
           /\ Step(a, [attempt[a] EXCEPT
                   !.pc = "handshake",
                   !.offered = IF use THEN taken ELSE None])
    /\ UNCHANGED <<config, given, issued, opened>>
    /\ wire' = Nothing

TlsHost(a) == IF Kind(a) = "forward" THEN Via(a).host ELSE attempt[a].d.uri.host

TlsDone(a, protocol) ==
    /\ attempt[a].pc = "handshake"
    /\ protocol \in Alpn(attempt[a].d) \cup {None}
    /\ Step(a, [attempt[a] EXCEPT
            !.pc = "open",
            !.h2 = protocol = "h2",
            !.layers = Append(@, [kind |-> "tls", host |-> TlsHost(a)])])
    /\ UNCHANGED <<config, cache, opened>>
    /\ wire' = Nothing

\* The new-session callback: during a TLS 1.2 handshake, or with the first
\* records after a TLS 1.3 one.  The peer chooses the id, and may choose one
\* that it, or another peer, has issued before.
NewSession(a, s, tls13) ==
    /\ attempt[a].pc = IF tls13 THEN "open" ELSE "handshake"
    /\ tls13 => Last(attempt[a].layers).kind = "tls"
    /\ TlsFor(attempt[a].d).psk
    /\ issued < MaxSessions
    /\ issued' = issued + 1
    /\ put(id(attempt[a].d), [id |-> s, tls13 |-> tls13, issuer |-> TlsHost(a)])
    /\ given' = [given EXCEPT ![s] = @ \cup {id(attempt[a].d)}]
    /\ spent' = spent \ {s}
    /\ UNCHANGED <<config, attempt, opened>>
    /\ wire' = Nothing

\* Any step may fail: refused, reset, a bad certificate, a proxy that says no.
Fails(a) ==
    /\ Running(a)
    /\ attempt' = [attempt EXCEPT ![a] = Idle]
    /\ UNCHANGED <<config, cache, opened>>
    /\ wire' = Nothing

\* ConnectorBuilder::build: the connect timeout sits inside the service, or in
\* a layer around the layers the user gave.
AppliedTimeout_inner_only(c) == c.timeout /\ ~c.layers

AppliedTimeout(c) ==
    LET inner == c.timeout /\ ~c.layers
        outer == c.layers /\ c.timeout
    IN  inner \/ outer

TimesOut(a) ==
    /\ Running(a)
    /\ AppliedTimeout(config)
    /\ attempt' = [attempt EXCEPT ![a] = Idle]
    /\ UNCHANGED <<config, cache, opened>>
    /\ wire' = Nothing

\* connect_to: negotiated, or insisted on.
IsHttp2(a) == attempt[a].h2 \/ attempt[a].d.version = "HTTP/2"

\* A request of any descriptor with the connection's id, as the pool hands it
\* out: forwarded over HTTP/1 it carries the proxy's credentials.
SendRequest(a, d) ==
    /\ attempt[a].pc = "open"
    /\ id(d) = id(attempt[a].d)
    /\ wire' = [kind |-> "request", d |-> d, layers |-> attempt[a].layers,
                bound |-> attempt[a].bound,
                auth |-> IF Kind(a) = "forward" /\ ~IsHttp2(a) THEN SentAuth(Via(a))
                         ELSE None]
    /\ UNCHANGED <<config, attempt, cache, opened>>

Close(a) ==
    /\ attempt[a].pc = "open"
    /\ attempt' = [attempt EXCEPT ![a] = Idle]
    /\ UNCHANGED <<config, cache, opened>>
    /\ wire' = Nothing

\* The steps that need a peer to answer: they may stop coming at any point.
Progress(a) ==
    \/ Dial(a)
    \/ ProxyTls(a)
    \/ \E answer \in Answers : WriteConnect(a, answer)
    \/ \E n \in 0 .. Len(attempt[a].unread) : ReadAnswer(a, n)
    \/ SocksHandshake(a)
    \/ TlsStart(a)
    \/ \E protocol \in {"h2", "http/1.1", None} : TlsDone(a, protocol)

Next ==
    \E a \in Attempts :
        \/ \E d \in Descriptors : Start(a, d)
        \/ Progress(a)
        \/ \E s \in SessionIds, tls13 \in BOOLEAN : NewSession(a, s, tls13)
        \/ Fails(a)
        \/ TimesOut(a)
        \/ \E d \in Descriptors : SendRequest(a, d)
        \/ Close(a)

\* The timer of a connect timeout fires: the executor polls an elapsed timer.
Spec == Init /\ [][Next]_vars /\ \A a \in Attempts : WF_vars(TimesOut(a))

-----------------------------------------------------------------------------
(***************************************************************************)
(* Properties.                                                             *)
(***************************************************************************)

Hosts(layers) == {layers[i].host : i \in DOMAIN layers}

\* A request goes exactly where its own proxy rules send it, however its
\* connection was made and whoever made it: directly, or through the one proxy
\* that intercepts it; to an https target only inside TLS that ends there; from
\* the address and the interface it asked for, SOCKS proxies excepted; and a
\* proxy's credentials are written to that proxy and to nobody else.
RouteRespected ==
    LET via == intercept_for(wire.d)
        target == wire.d.uri.host
    IN  wire.kind # "nothing" =>
        /\ wire.kind = "request" =>
             /\ Hosts(wire.layers) \subseteq {target} \cup (IF via = None THEN {} ELSE {via.host})
             /\ via # None => via.host \in Hosts(wire.layers)
             /\ IsHttps(wire.d.uri) => Last(wire.layers) = [kind |-> "tls", host |-> target]
             /\ wire.d.bind # None /\ RouteKind(wire.d) \notin {"socks", "unix"} =>
                  /\ wire.bound.ip = wire.d.bind.ip
                  /\ wire.d.bind.interface # None => wire.bound.interface = wire.d.bind.interface
        /\ wire.auth # None => via # None /\ Last(wire.layers).host = via.host

Shared(s) == \E k, l \in given[s] : k # l

Cached(s) ==
    \/ s \in DOMAIN reverse
    \/ \E key \in DOMAIN perHost : \E i \in DOMAIN perHost[key] : perHost[key][i].id = s

\* A TLS session is offered only to the host that issued it.  One of TLS 1.3
\* that a handshake has taken is nowhere in the cache until a peer issues it
\* again, so no other handshake takes it (pop in tls/session.rs says why).  An
\* id that peers gave to connections of two keys is excepted: the reverse map
\* has room for one of them, and pop leaves the other in its list.
SessionsWellUsed ==
    /\ \A a \in Attempts :
          attempt[a].offered # None => attempt[a].offered.issuer = TlsHost(a)
    /\ \A s \in spent : ~Shared(s) => ~Cached(s)

\* However the answer to CONNECT is cut into reads, the tunnel opens only once
\* a head that starts with status 200 was read to its empty line, and no byte
\* of the head is left to be taken for the target's.
TunnelHeadConsumed ==
    \A a \in Attempts :
        LET read == attempt[a].buf
        IN  /\ attempt[a].pc \in {"tls", "handshake", "open"}
            /\ Kind(a) \in {"tunnel", "unix"} /\ IsHttps(attempt[a].d.uri)
            => /\ read # <<>> /\ read[1] = "200"
               /\ \E i \in DOMAIN read : read[i] = "end"
               /\ \A i \in DOMAIN attempt[a].unread : attempt[a].unread[i] = "x"

\* With a connect timeout, with or without layers of the user's around the
\* connector, no attempt goes on for ever, whatever the peers do.
AttemptEnds ==
    \A a \in Attempts : config.timeout /\ Running(a) ~> ~Running(a)

=============================================================================

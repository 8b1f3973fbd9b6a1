------------------------------ MODULE CookieJar ------------------------------
(***************************************************************************)
(* The cookie jar (src/src/cookie.rs, cookie/jar.rs, cookie/store.rs) and  *)
(* its use by the HTTP client (client/layer/client.rs): requests collect   *)
(* the cookies of their URI, responses store theirs, the program adds,     *)
(* removes and clears cookies, all at the same time on one jar.            *)
(*                                                                         *)
(* A host is [kind, labels]: the labels of a domain name, or an address.   *)
(* A path is the sequence of its segments: "/" is <<"">>, "/a/" is         *)
(* <<"a", "">>; every non-empty segment has the same length.               *)
(***************************************************************************)
EXTENDS Integers, Sequences, FiniteSets, SequencesExt, FiniteSetsExt

CONSTANTS
    None,         \* Rust's Option::None
    Threads,      \* tasks that send requests or call the jar
    Uris,         \* [scheme, host, path] of the requests
    Names,        \* cookie names
    Responses,    \* sequences of Set-Cookie fields of one response
    MaxCalls,     \* bound: requests sent and calls made on the jar
    MaxTime       \* bound: the clock

\* What the parsers of URIs and of Set-Cookie make; None where a field does not
\* parse or names no Domain, Path, Max-Age or Expires.
Fields == UNION {Range(fields) : fields \in Responses}

IsSeq(s) == s \in Seq(Range(s))

IsHost(host) == host = [kind |-> host.kind, labels |-> host.labels] /\ IsSeq(host.labels)

IsPath(path) == IsSeq(path) /\ path # <<>>

IsCookie(c) ==
    /\ c.domain # None => IsHost(c.domain)
    /\ c.path # None => IsPath(c.path)
    /\ c.maxAge # None => c.maxAge \in Int
    /\ c.expires # None => c.expires \in Int

ASSUME UrisAssumption ==
    \A uri \in Uris : IsHost(uri.host) /\ IsPath(uri.path)
ASSUME ResponsesAssumption ==
    /\ Responses \subseteq Seq(Fields)
    /\ \A c \in Fields \ {None} : IsCookie(c)

Root == <<"">>

\* The default path: everything up to the last "/", or "/".
normalize_path(path) == IF Len(path) = 1 THEN Root ELSE Front(path)

\* None is neither a path nor what a snapshot shows of a cookie.
Exports ==
    LET given == Fields \ {None}
    IN  [name : {c.name : c \in given}, value : {c.value : c \in given},
         path : {c.path : c \in given} \cup {normalize_path(uri.path) : uri \in Uris},
         domain : {c.domain : c \in given}, secure : {c.secure : c \in given},
         maxAge : {None}, expires : Int \cup {None}]

ASSUME NoneAssumption ==
    None \notin {normalize_path(uri.path) : uri \in Uris} \cup Exports

VARIABLES
    cookies,      \* DomainMap: <<domain, path, hostOnly, name>> -> CookieEntry
    nextIndex,    \* next_creation_index
    now,          \* OffsetDateTime::now_utc
    thread,       \* what each task is doing
    calls         \* requests and calls so far (bounds the model only)

jarVars == <<cookies, nextIndex, now, thread, calls>>

Call == calls < MaxCalls /\ calls' = calls + 1

IsHttps(uri) == uri.scheme = "https"
IsHttp(uri) == uri.scheme = "http"

PathLen(path) == Len(path) + Cardinality({i \in DOMAIN path : path[i] # ""})

-----------------------------------------------------------------------------
(***************************************************************************)
(* The matching rules.                                                     *)
(***************************************************************************)

domain_match(host, domain) ==
    \/ host = domain
    \/ /\ host.kind = "domain"
       /\ domain.kind = "domain"
       /\ Len(host.labels) > Len(domain.labels)
       /\ IsSuffix(domain.labels, host.labels)

path_match(requestPath, cookiePath) ==
    \/ requestPath = cookiePath
    \/ IF Last(cookiePath) = ""
       THEN /\ Len(requestPath) >= Len(cookiePath)
            /\ IsPrefix(Front(cookiePath), requestPath)
       ELSE IsStrictPrefix(cookiePath, requestPath)

cookie_is_expired(entry, time) == entry.expires # None /\ entry.expires <= time

\* A host-only cookie sent to the names under its host.
request_matches_cookie_no_host_only(uri, key, entry, time) ==
    /\ IsHttp(uri) \/ IsHttps(uri)
    /\ domain_match(uri.host, key.domain)
    /\ path_match(uri.path, key.path)
    /\ ~(entry.secure /\ IsHttp(uri))
    /\ ~cookie_is_expired(entry, time)

request_matches_cookie(uri, key, entry, time) ==
    /\ IsHttp(uri) \/ IsHttps(uri)
    /\ domain_match(uri.host, key.domain)
    /\ key.hostOnly => uri.host = key.domain
    /\ path_match(uri.path, key.path)
    /\ ~(entry.secure /\ IsHttp(uri))
    /\ ~cookie_is_expired(entry, time)

-----------------------------------------------------------------------------
(***************************************************************************)
(* The jar's reads.                                                        *)
(***************************************************************************)

\* What a snapshot or a header field shows of a stored cookie.
Shown(jar, key) ==
    [name |-> key.name, value |-> jar[key].value, path |-> key.path,
     domain |-> IF key.hostOnly THEN None ELSE key.domain,
     secure |-> jar[key].secure, maxAge |-> None, expires |-> jar[key].expires]

Unexpired(jar, time) == {k \in DOMAIN jar : ~cookie_is_expired(jar[k], time)}

Older(jar, a, b) == jar[a].index < jar[b].index

matching_cookies(jar, uri, time) ==
    {k \in DOMAIN jar : request_matches_cookie(uri, k, jar[k], time)}

\* keys in an order, a set of pairs: each has the place that those before it leave.
Placed(keys, order) ==
    [i \in 1 .. Cardinality(keys) |->
        CHOOSE k \in keys : 1 + Cardinality({j \in keys : <<j, k>> \in order}) = i]

\* The newest first.
get_all_newest(jar, time) ==
    LET keys == Unexpired(jar, time)
    IN  Placed(keys, {p \in keys \X keys : Older(jar, p[2], p[1])})

\* Jar::get_all: creation order; with the key, whose host the caller knows.
get_all(jar, time) ==
    LET keys == Unexpired(jar, time)
    IN  Placed(keys, {p \in keys \X keys : Older(jar, p[1], p[2])})

len(jar, time) == Cardinality(Unexpired(jar, time))

\* Jar::get: the older of the two scopes of an exact host and path.
get(jar, name, uri, time) ==
    LET found == {k \in Unexpired(jar, time) : k.name = name /\ k.domain = uri.host
                                               /\ k.path = uri.path}
    IN  IF found = {} THEN None
        ELSE Shown(jar, CHOOSE k \in found : \A j \in found \ {k} : Older(jar, k, j))

contains(jar, name, uri, time) ==
    \E k \in Unexpired(jar, time) : k.name = name /\ k.domain = uri.host /\ k.path = uri.path

\* CookieStore::cookies: longest path first, then oldest.  One field of pairs
\* (HTTP/1) and one field per pair (HTTP/2) hold the same pairs in this order.
Before(jar, a, b) ==
    \/ PathLen(a.path) > PathLen(b.path)
    \/ PathLen(a.path) = PathLen(b.path) /\ Older(jar, a, b)

cookies_for(jar, uri, time) ==
    LET keys == matching_cookies(jar, uri, time)
    IN  Placed(keys, {p \in keys \X keys : Before(jar, p[1], p[2])})

\* The path test the wrong way round: a longer path escapes the rule.
would_overlay_swapped(jar, key, time) ==
    \E k \in DOMAIN jar :
        /\ domain_match(k.domain, key.domain) \/ domain_match(key.domain, k.domain)
        /\ path_match(k.path, key.path)
        /\ k.name = key.name
        /\ jar[k].secure
        /\ ~cookie_is_expired(jar[k], time)

would_overlay_secure_cookie(jar, key, time) ==
    \E k \in DOMAIN jar :
        /\ domain_match(k.domain, key.domain) \/ domain_match(key.domain, k.domain)
        /\ path_match(key.path, k.path)
        /\ k.name = key.name
        /\ jar[k].secure
        /\ ~cookie_is_expired(jar[k], time)

-----------------------------------------------------------------------------
(***************************************************************************)
(* The jar's writes.  A jar and its next index travel as one record.       *)
(***************************************************************************)

Put(jar, key, entry) ==
    [k \in DOMAIN jar \cup {key} |-> IF k = key THEN entry ELSE jar[k]]

\* Empty inner maps are pruned: the map holds its keys and nothing else.
RemoveKeys(jar, keys) == [k \in DOMAIN jar \ keys |-> jar[k]]

\* Replacing a cookie by one of the same value keeps its place in the order.
insert_stored_cookie(store, key, entry) ==
    IF key \in DOMAIN store.jar /\ store.jar[key].value = entry.value
    THEN [store EXCEPT !.jar = Put(@, key, [entry EXCEPT !.index = store.jar[key].index])]
    ELSE [jar |-> Put(store.jar, key, [entry EXCEPT !.index = store.next]),
          next |-> store.next + 1]

remove_stored_cookie(store, key) == [store EXCEPT !.jar = RemoveKeys(@, {key})]

remove_stored_cookies(jar, domain, path, name) ==
    RemoveKeys(jar, {k \in DOMAIN jar : k.domain = domain /\ k.path = path /\ k.name = name})

\* A Secure cookie from a plain-http URI, or a Domain that does not cover the host.
Ignored(cookie, uri) ==
    \/ cookie.secure /\ ~IsHttps(uri)
    \/ cookie.domain # None /\ ~domain_match(uri.host, cookie.domain)

\* The first half of Jar::add, before the lock: what is to be stored, with the
\* clock read there.  The setter is recorded for the properties only.
Scoped(cookie, uri, time) ==
    [key |-> [domain |-> IF cookie.domain = None THEN uri.host ELSE cookie.domain,
              path |-> IF cookie.path = None THEN normalize_path(uri.path) ELSE cookie.path,
              hostOnly |-> cookie.domain = None,
              name |-> cookie.name],
     entry |-> [value |-> cookie.value, secure |-> cookie.secure,
                expires |-> IF cookie.maxAge # None THEN time + cookie.maxAge
                            ELSE cookie.expires,
                index |-> 0, setter |-> uri.host],
     secureOrigin |-> IsHttps(uri),
     expired |-> IF cookie.maxAge # None THEN cookie.maxAge <= 0
                 ELSE cookie.expires # None /\ cookie.expires <= time,
     now |-> time]

\* An expired cookie removes before the overlay rule is consulted.
Stored_expiry_first(store, op) ==
    IF op.expired THEN remove_stored_cookie(store, op.key)
    ELSE IF ~op.secureOrigin /\ would_overlay_secure_cookie(store.jar, op.key, op.now)
    THEN store
    ELSE insert_stored_cookie(store, op.key, op.entry)

\* The second half of Jar::add, under the write lock.
Stored(store, op) ==
    IF ~op.secureOrigin /\ would_overlay_secure_cookie(store.jar, op.key, op.now)
    THEN store
    ELSE IF op.expired THEN remove_stored_cookie(store, op.key)
    ELSE insert_stored_cookie(store, op.key, op.entry)

add(store, cookie, uri, time) ==
    IF Ignored(cookie, uri) THEN store ELSE Stored(store, Scoped(cookie, uri, time))

-----------------------------------------------------------------------------
(***************************************************************************)
(* The tasks.                                                              *)
(***************************************************************************)

Idle == [pc |-> "idle", uri |-> None, own |-> FALSE, header |-> <<>>, queue |-> <<>>,
         op |-> None, resent |-> FALSE]

JarInit ==
    /\ cookies = << >>
    /\ nextIndex = 0
    /\ now = 0
    /\ thread = [t \in Threads |-> Idle]
    /\ calls = 0

\* A request is made; the program may have set the Cookie field itself.
StartRequest(t, uri, own) ==
    /\ Call
    /\ thread[t].pc = "idle"
    /\ thread' = [thread EXCEPT ![t] = [Idle EXCEPT !.pc = "ready", !.uri = uri, !.own = own]]
    /\ UNCHANGED <<cookies, nextIndex, now>>

\* try_send_request of the client: cookies are collected unless the request
\* already has the field, its own or the one of an earlier, canceled send.
SendRequest(t) ==
    /\ thread[t].pc = "ready"
    /\ thread' = [thread EXCEPT
            ![t].pc = "sent",
            ![t].header = IF thread[t].own \/ @ # <<>> THEN @
                          ELSE LET keys == cookies_for(cookies, thread[t].uri, now)
                               IN  [i \in DOMAIN keys |->
                                      [key |-> keys[i], entry |-> cookies[keys[i]]]]]
    /\ UNCHANGED <<cookies, nextIndex, now, calls>>

\* The reused connection was closed: the request comes back, fields included.
SendCanceled(t) ==
    /\ thread[t].pc = "sent"
    /\ ~thread[t].resent
    /\ thread' = [thread EXCEPT ![t].pc = "ready", ![t].resent = TRUE]
    /\ UNCHANGED <<cookies, nextIndex, now, calls>>

\* The answer arrives, with the Set-Cookie fields set_cookies is given.
ResponseArrives(t, fields) ==
    /\ thread[t].pc = "sent"
    /\ thread' = [thread EXCEPT ![t] =
            IF fields = <<>> THEN Idle
            ELSE [Idle EXCEPT !.pc = "storing", !.uri = thread[t].uri, !.queue = fields]]
    /\ UNCHANGED <<cookies, nextIndex, now, calls>>

\* Jar::add called by the program.
CallAdd(t, cookie, uri) ==
    /\ Call
    /\ thread[t].pc = "idle"
    /\ thread' = [thread EXCEPT ![t] = [Idle EXCEPT !.pc = "storing", !.uri = uri,
                                                    !.queue = <<cookie>>]]
    /\ UNCHANGED <<cookies, nextIndex, now>>

\* The next field, dropped if it does not parse; of add, the checks and the
\* clock.  Then the lock is waited for.
BeginAdd(t) ==
    LET call == thread[t]
        c == Head(call.queue)
        op == IF c = None \/ Ignored(c, call.uri) THEN None ELSE Scoped(c, call.uri, now)
    IN  /\ call.pc = "storing"
        /\ thread' = [thread EXCEPT ![t] =
                IF call.queue = <<>> THEN Idle
                ELSE [call EXCEPT !.queue = Tail(call.queue), !.op = op,
                                  !.pc = IF op = None THEN "storing" ELSE "locking"]]
        /\ UNCHANGED <<cookies, nextIndex, now, calls>>

FinishAdd(t) ==
    /\ thread[t].pc = "locking"
    /\ LET store == Stored([jar |-> cookies, next |-> nextIndex], thread[t].op)
       IN  cookies' = store.jar /\ nextIndex' = store.next
    /\ thread' = [thread EXCEPT ![t].pc = "storing", ![t].op = None]
    /\ UNCHANGED <<now, calls>>

remove(name, uri) ==
    /\ Call
    /\ cookies' = remove_stored_cookies(cookies, uri.host, uri.path, name)
    /\ UNCHANGED <<nextIndex, now, thread>>

clear ==
    /\ Call
    /\ cookies' = << >>
    /\ nextIndex' = 0
    /\ UNCHANGED <<now, thread>>

ClockTick ==
    /\ now < MaxTime
    /\ now' = now + 1
    /\ UNCHANGED <<cookies, nextIndex, thread, calls>>

JarNext ==
    \/ \E t \in Threads, uri \in Uris, own \in BOOLEAN : StartRequest(t, uri, own)
    \/ \E t \in Threads : SendRequest(t)
    \/ \E t \in Threads : SendCanceled(t)
    \/ \E t \in Threads, fields \in Responses : ResponseArrives(t, fields)
    \/ \E t \in Threads, fields \in Responses, uri \in Uris :
            Len(fields) = 1 /\ fields[1] # None /\ CallAdd(t, fields[1], uri)
    \/ \E t \in Threads : BeginAdd(t)
    \/ \E t \in Threads : FinishAdd(t)
    \/ \E name \in Names, uri \in Uris : remove(name, uri)
    \/ clear
    \/ ClockTick

JarSpec == JarInit /\ [][JarNext]_jarVars

-----------------------------------------------------------------------------
(***************************************************************************)
(* Properties.                                                             *)
(***************************************************************************)

\* A cookie reaches a host only if that host set it, or if it was set with a
\* Domain that covers both its setter and the host; a Secure cookie is sent
\* over https only.  It may travel in a field collected before a canceled
\* send, long after the jar has changed.
ScopeRespected ==
    \A t \in Threads : \A i \in DOMAIN thread[t].header :
        LET sent == thread[t].header[i]
            host == thread[t].uri.host
        IN  /\ sent.entry.secure => IsHttps(thread[t].uri)
            /\ \/ sent.entry.setter = host
               \/ /\ ~sent.key.hostOnly
                  /\ host.kind = "domain" /\ sent.entry.setter.kind = "domain"
                  /\ IsSuffix(sent.key.domain.labels, host.labels)
                  /\ IsSuffix(sent.key.domain.labels, sent.entry.setter.labels)

InsecureAdd(t) == FinishAdd(t) /\ ~thread[t].op.secureOrigin

\* Storing a cookie of a plain-http origin never changes, removes or expires
\* a Secure cookie that is still alive, however long the store waited for the
\* lock and whatever other tasks stored in between.
SecureCookieKept ==
    [][\A t \in Threads : InsecureAdd(t) =>
          \A k \in DOMAIN cookies :
              cookies[k].secure /\ ~cookie_is_expired(cookies[k], now)
              => k \in DOMAIN cookies' /\ cookies'[k] = cookies[k]]_jarVars

\* A cookie a plain-http origin stores never comes before a live Secure cookie
\* of the same name in the field of an https request, so that a server that
\* takes the first pair takes the Secure one.
SecureCookieNotShadowed ==
    [][\A t \in Threads : InsecureAdd(t) =>
          \A uri \in Uris : IsHttps(uri) =>
              LET new == {k \in matching_cookies(cookies', uri, now) :
                              k \notin DOMAIN cookies}
              IN  \A k \in new, s \in matching_cookies(cookies, uri, now) :
                      cookies[s].secure /\ s.name = k.name
                      => Before(cookies', s, k)]_jarVars

\* The jar that results from adding what get_all gave to an empty one, each with
\* an https URI of its host.
Import(snapshot, jar) ==
    FoldLeft(LAMBDA store, k : add(store, Shown(jar, k),
                 [scheme |-> "https", host |-> k.domain, path |-> Root], now),
             [jar |-> << >>, next |-> 0], snapshot).jar

\* get_all is a faithful export: stored again, in its order, through add with
\* an https URI of each cookie's host, a snapshot answers every lookup and
\* every request exactly as the jar it was taken from.
SnapshotFaithful ==
    LET copy == Import(get_all(cookies, now), cookies)
        Pairs(jar, keys) == [i \in DOMAIN keys |-> Shown(jar, keys[i])]
    IN  /\ len(copy, now) = len(cookies, now)
        /\ \A uri \in Uris :
              /\ Pairs(copy, cookies_for(copy, uri, now))
                     = Pairs(cookies, cookies_for(cookies, uri, now))
              /\ \A name \in Names :
                    /\ get(copy, name, uri, now) = get(cookies, name, uri, now)
                    /\ contains(copy, name, uri, now) <=> get(cookies, name, uri, now) # None

=============================================================================

--------------------------- MODULE ConnectorProofs ---------------------------
(***************************************************************************)
(* Theorems about Connector: where requests and credentials go, what is    *)
(* left of a tunnel's answer, and the TLS session cache.                   *)
(***************************************************************************)
EXTENDS Connector, WellFoundedInduction, SequenceTheorems, TLAPS

-----------------------------------------------------------------------------
(* The sessions of a host are a list without repetitions, in the order in  *)
(* which they are evicted: one joins at the end, leaves at the head, or is *)
(* taken out from wherever it is.                                          *)

LEMMA QueueJoined ==
    ASSUME NEW S, NEW s \in Seq(S), IsInjective(s), NEW e \in S, e \notin Range(s)
    PROVE  /\ Append(s, e) \in Seq(S) /\ IsInjective(Append(s, e))
           /\ Range(Append(s, e)) = Range(s) \cup {e}
           /\ Append(s, e) # <<>>
           /\ Head(Append(s, e)) = IF s = <<>> THEN e ELSE Head(s)
  <1> DEFINE t == Append(s, e)
  <1>1. /\ t \in Seq(S) /\ t # <<>> /\ Len(t) = Len(s) + 1
        /\ t[Len(s) + 1] = e /\ \A i \in 1..Len(s) : t[i] = s[i]
        /\ DOMAIN t = 1..(Len(s) + 1) /\ DOMAIN s = 1..Len(s) /\ Len(s) \in Nat
    BY AppendProperties
  <1> HIDE DEF t
  <1>2. IsInjective(t) /\ Range(t) = Range(s) \cup {e}
    BY <1>1 DEF IsInjective, Range
  <1>3. Head(t) = IF s = <<>> THEN e ELSE Head(s)
    BY <1>1
  <1> QED BY <1>1, <1>2, <1>3 DEF t

LEMMA QueueUnlocked ==
    ASSUME NEW S, NEW s \in Seq(S), IsInjective(s), s # <<>>
    PROVE  /\ Tail(s) \in Seq(S) /\ IsInjective(Tail(s))
           /\ Range(Tail(s)) = Range(s) \ {Head(s)}
  <1> DEFINE t == Tail(s)
  <1>1. /\ t \in Seq(S) /\ Len(t) = Len(s) - 1
        /\ \A i \in 1..Len(t) : t[i] = s[i + 1]
        /\ Head(s) = s[1]
    BY HeadTailProperties
  <1>2. /\ DOMAIN t = 1..(Len(s) - 1) /\ DOMAIN s = 1..Len(s)
        /\ Len(s) \in Nat \ {0}
    BY <1>1
  <1> HIDE DEF t
  <1>3. IsInjective(t)
    BY <1>1, <1>2 DEF IsInjective
  <1>4. Range(t) \subseteq Range(s) \ {Head(s)}
    BY <1>1, <1>2 DEF Range, IsInjective
  <1>5. ASSUME NEW i \in 1..Len(s), s[i] # Head(s)
        PROVE  s[i] \in Range(t)
    <2>1. i - 1 \in 1..(Len(s) - 1) /\ t[i - 1] = s[i]
      BY <1>1, <1>2, <1>5
    <2> QED BY <1>2, <2>1 DEF Range
  <1>6. Range(s) \ {Head(s)} \subseteq Range(t)
    BY <1>2, <1>5 DEF Range
  <1> QED BY <1>1, <1>3, <1>4, <1>6 DEF t

\* RemoveFirst takes out the one position a task has.
LEMMA RemovedAt ==
    ASSUME NEW S, NEW s \in Seq(S), IsInjective(s), NEW n \in 1..Len(s)
    PROVE  RemoveFirst(s, s[n]) = SubSeq(s, 1, n - 1) \o SubSeq(s, n + 1, Len(s))
  <1> DEFINE I == {i \in 1..Len(s) : s[i] = s[n]}
  <1>1. I = {n}
    BY DEF IsInjective
  <1>2. Min(I) = n
    BY <1>1 DEF Min
  <1>3. SelectInSeq(s, LAMBDA v : v = s[n]) = n
    BY <1>1, <1>2 DEF SelectInSeq
  <1> QED BY <1>3 DEF RemoveFirst, RemoveAt

LEMMA QueueLeft ==
    ASSUME NEW S, NEW s \in Seq(S), IsInjective(s), NEW e
    PROVE  /\ RemoveFirst(s, e) \in Seq(S) /\ IsInjective(RemoveFirst(s, e))
           /\ Range(RemoveFirst(s, e)) = Range(s) \ {e}
           /\ s # <<>> /\ Head(s) # e =>
                RemoveFirst(s, e) # <<>> /\ Head(RemoveFirst(s, e)) = Head(s)
           /\ Len(RemoveFirst(s, e)) <= Len(s)
           /\ e \notin Range(s) => RemoveFirst(s, e) = s
  <1>1. CASE e \notin Range(s)
    <2>1. RemoveFirst(s, e) = s
      BY <1>1 DEF RemoveFirst, Range
    <2>2. Len(s) <= Len(s)
      BY LenProperties
    <2> QED BY <1>1, <2>1, <2>2
  <1>2. CASE e \in Range(s)
    <2>1. PICK n \in 1..Len(s) : s[n] = e
      BY <1>2, LenProperties DEF Range
    <2> DEFINE a == SubSeq(s, 1, n - 1)
               b == SubSeq(s, n + 1, Len(s))
               t == a \o b
    <2>2. /\ Len(s) \in Nat \ {0} /\ n \in Nat \ {0} /\ n <= Len(s)
          /\ DOMAIN s = 1..Len(s)
      BY LenProperties
    <2>3. /\ a \in Seq(S) /\ Len(a) = n - 1
          /\ \A i \in 1..(n - 1) : a[i] = s[i]
      <3>1. 1 \in Int /\ n - 1 \in Int /\ \A i \in 1..(n - 1) : s[i] \in S
        BY <2>2
      <3>2. /\ a \in Seq(S)
            /\ Len(a) = IF 1 <= n - 1 THEN (n - 1) - 1 + 1 ELSE 0
            /\ \A i \in 1..((n - 1) - 1 + 1) : a[i] = s[1 + i - 1]
        BY <3>1, SubSeqProperties
      <3> QED BY <2>2, <3>2
    <2>4. /\ b \in Seq(S) /\ Len(b) = Len(s) - n
          /\ \A i \in 1..(Len(s) - n) : b[i] = s[n + i]
      <3>1. n + 1 \in Int /\ Len(s) \in Int /\ \A i \in (n + 1)..Len(s) : s[i] \in S
        BY <2>2
      <3>2. /\ b \in Seq(S)
            /\ Len(b) = IF n + 1 <= Len(s) THEN Len(s) - (n + 1) + 1 ELSE 0
            /\ \A i \in 1..(Len(s) - (n + 1) + 1) : b[i] = s[n + 1 + i - 1]
        BY <3>1, SubSeqProperties
      <3> HIDE DEF b
      <3>3. Len(b) = Len(s) - n
        <4>1. CASE n + 1 <= Len(s)
          BY <2>2, <3>2, <4>1
        <4>2. CASE ~(n + 1 <= Len(s))
          <5>1. Len(s) \in Nat /\ n \in Nat /\ n <= Len(s)
            BY <2>2
          <5>2. Len(s) - n = 0
            BY <4>2, <5>1
          <5> QED BY <3>2, <4>2, <5>2, Zenon
        <4> QED BY <4>1, <4>2
      <3>4. ASSUME NEW i \in 1..(Len(s) - n)
            PROVE  b[i] = s[n + i]
        <4>1. i \in 1..(Len(s) - (n + 1) + 1) /\ n + 1 + i - 1 = n + i
          BY <2>2
        <4> QED BY <3>2, <4>1
      <3> QED BY <3>2, <3>3, <3>4
    <2> HIDE DEF a, b
    <2>5. /\ t \in Seq(S) /\ Len(t) = Len(s) - 1
          /\ \A i \in 1..(Len(s) - 1) : t[i] = IF i < n THEN s[i] ELSE s[i + 1]
      <3>1. t \in Seq(S) /\ Len(t) = Len(a) + Len(b)
            /\ \A i \in 1..(Len(a) + Len(b)) :
                 t[i] = IF i <= Len(a) THEN a[i] ELSE b[i - Len(a)]
        BY <2>3, <2>4, ConcatProperties
      <3> HIDE DEF t
      <3>2. Len(t) = Len(s) - 1
        BY <2>2, <2>3, <2>4, <3>1
      <3>3. ASSUME NEW i \in 1..(Len(s) - 1)
            PROVE  t[i] = IF i < n THEN s[i] ELSE s[i + 1]
        <4>1. t[i] = IF i <= n - 1 THEN a[i] ELSE b[i - (n - 1)]
          BY <2>2, <2>3, <2>4, <3>1
        <4>2. CASE i < n
          BY <2>2, <2>3, <4>1, <4>2
        <4>3. CASE ~(i < n)
          <5>1. /\ i - (n - 1) \in 1..(Len(s) - n) /\ n + (i - (n - 1)) = i + 1
                /\ ~(i <= n - 1)
            BY <2>2, <4>3
          <5> QED BY <2>4, <4>1, <4>3, <5>1
        <4> QED BY <4>2, <4>3
      <3> QED BY <3>1, <3>2, <3>3
    <2> HIDE DEF t
    <2>6. RemoveFirst(s, e) = t /\ DOMAIN t = 1..(Len(s) - 1)
      <3>1. RemoveFirst(s, s[n]) = t
        BY RemovedAt DEF t, a, b
      <3> QED BY <2>1, <2>2, <2>5, <3>1
    <2>7. IsInjective(t)
      BY <2>2, <2>5, <2>6 DEF IsInjective
    <2>8. Range(t) \subseteq Range(s) \ {e}
      BY <2>1, <2>2, <2>5, <2>6 DEF Range, IsInjective
    <2>9. ASSUME NEW i \in 1..Len(s), s[i] # e
          PROVE  s[i] \in Range(t)
      <3>1. CASE i < n
        BY <2>2, <2>5, <2>6, <3>1 DEF Range
      <3>2. CASE i > n
        <4>1. i - 1 \in 1..(Len(s) - 1) /\ t[i - 1] = s[i]
          BY <2>2, <2>5, <3>2
        <4> QED BY <2>6, <4>1 DEF Range
      <3> QED BY <2>1, <2>2, <2>9, <3>1, <3>2
    <2>10. ASSUME Head(s) # e
           PROVE  t # <<>> /\ Head(t) = Head(s)
      <3>1. n > 1
        BY <2>1, <2>2, <2>10
      <3> QED BY <2>2, <2>5, <3>1
    <2>11. Range(s) \ {e} \subseteq Range(t)
      BY <2>2, <2>9 DEF Range
    <2>12. Len(t) <= Len(s)
      BY <2>2, <2>5
    <2> QED BY <1>2, <2>5, <2>6, <2>7, <2>8, <2>10, <2>11, <2>12
  <1> QED BY <1>1, <1>2

-----------------------------------------------------------------------------
-----------------------------------------------------------------------------
(* Proxies.                                                                *)

\* A set of natural numbers that is not empty has a least element.
LEMMA Least ==
    ASSUME NEW T, T \subseteq Nat, T # {}
    PROVE  \E i \in T : \A k \in T : i <= k
  <1>1. PICK i \in T : \A k \in T : ~(<<k, i>> \in OpToRel(<, Nat))
    BY NatLessThanWellFounded, WFMin
  <1>2. \A k \in T : ~(k < i)
    BY <1>1 DEF OpToRel
  <1> QED BY <1>2

\* Whatever the builder is given, it makes a matcher.
LEMMA BuildsMatcher ==
    ASSUME NEW b, NEW extra
    PROVE  IsMatcher(build_matcher(b, extra))
  BY DEF build_matcher, parse_env_uri, IsMatcher

\* What intercept_for finds.
LEMMA Intercepts ==
    ASSUME config \in Configs, NEW d \in Descriptors, intercept_for(d) # None
    PROVE  \/ intercept_for(d).scheme = "unix"
           \/ IsSocks(intercept_for(d).scheme) \/ IsHttpish(intercept_for(d).scheme)
  <1> DEFINE matchers == (IF d.proxy = None THEN <<>> ELSE <<d.proxy>>) \o config.proxies
             hits == {i \in DOMAIN matchers : matcher_intercept(matchers[i], d.uri) # None}
             first == CHOOSE j \in hits : \A k \in hits : j <= k
             M == {m \in Range(config.proxies) : IsMatcher(m)} \cup
                  (IF d.proxy = None THEN {} ELSE {d.proxy})
  <1>1. matchers \in Seq(M)
    <2> DEFINE A == {m \in Range(config.proxies) : IsMatcher(m)}
    <2>1. config.proxies \in Seq(A) /\ A \subseteq M
      BY MatchersAssumption
    <2> HIDE DEF A
    <2>2. CASE d.proxy = None
      <3>1. M = A
        BY <2>2 DEF A
      <3> QED BY <2>1, <2>2, <3>1
    <2>3. CASE d.proxy # None
      <3>1. d.proxy \in M
        BY <2>3
      <3> HIDE DEF M
      <3>2. config.proxies \in Seq(M) /\ <<d.proxy>> \in Seq(M)
        BY <2>1, <3>1
      <3> QED BY <2>3, <3>2, ConcatProperties
    <2> QED BY <2>2, <2>3
  <1>2. hits # {} /\ intercept_for(d) = matcher_intercept(matchers[first], d.uri)
    BY DEF intercept_for
  <1>3. \A m \in M : IsMatcher(m)
    BY MatchersAssumption
  <1> HIDE DEF M, matchers
  <1>4. first \in hits
    <2>1. hits \subseteq Nat
      BY <1>1, LenProperties
    <2> HIDE DEF hits
    <2> QED BY <1>2, <2>1, Least
  <1>5. IsMatcher(matchers[first])
    BY <1>1, <1>3, <1>4, LenProperties
  <1> HIDE DEF first, hits
  <1> QED BY <1>2, <1>5 DEF matcher_intercept, IsMatcher

\* The route of a descriptor depends on its URI and proxy, and on the client's.
LEMMA SameRoute ==
    ASSUME UNCHANGED config, NEW d
    PROVE  /\ intercept_for(d)' = intercept_for(d)
           /\ RouteKind(d)' = RouteKind(d)
  <1>1. intercept_for(d)' = intercept_for(d)
    BY DEF intercept_for
  <1> QED BY <1>1 DEF RouteKind

LEMMA RouteOfId ==
    ASSUME NEW d, NEW e, id(d) = id(e)
    PROVE  /\ d.uri = e.uri /\ d.proxy = e.proxy /\ d.bind = e.bind
           /\ intercept_for(d) = intercept_for(e) /\ RouteKind(d) = RouteKind(e)
  <1>1. d.uri = e.uri /\ d.proxy = e.proxy /\ d.bind = e.bind
    <2>1. /\ id(d).uri = d.uri /\ id(e).uri = e.uri
          /\ id(d).proxy = d.proxy /\ id(e).proxy = e.proxy
          /\ id(d).bind = d.bind /\ id(e).bind = e.bind
      BY DEF id
    <2> QED BY <2>1
  <1>2. intercept_for(d) = intercept_for(e)
    BY <1>1 DEF intercept_for
  <1> QED BY <1>1, <1>2 DEF RouteKind

LEMMA Routes ==
    ASSUME config \in Configs, NEW d \in Descriptors
    PROVE  /\ RouteKind(d) \in {"direct", "unix", "socks", "tunnel", "forward"}
           /\ RouteKind(d) = "direct" <=> intercept_for(d) = None
           /\ RouteKind(d) = "forward" => ~IsHttps(d.uri)
           /\ RouteKind(d) = "tunnel" => IsHttps(d.uri)
  BY Intercepts DEF RouteKind

-----------------------------------------------------------------------------
(* Attempts.                                                               *)

\* A record with the fields of an attempt.
Fields == {"pc", "d", "layers", "bound", "unread", "buf", "offered", "h2", "nodelay"}

Shape(r) == r = [f \in Fields |-> r[f]]

ShapesOK ==
    /\ attempt = [a \in Attempts |-> attempt[a]]
    /\ \A a \in Attempts : Shape(attempt[a])

\* Two attempts that differ in pc, layers, buffers and Nagle's algorithm only.
SameTarget(r, s) == r.d = s.d /\ r.offered = s.offered /\ r.bound = s.bound
SameBuffers(r, s) == r.unread = s.unread /\ r.buf = s.buf

USE DEF Fields

LEMMA Finished ==
    ASSUME NEW a, NEW r, Shape(r)
    PROVE  /\ Shape(Finish(a, r)) /\ Finish(a, r).pc = r.pc
           /\ Finish(a, r).layers = r.layers /\ Finish(a, r).h2 = r.h2
           /\ SameTarget(Finish(a, r), r) /\ SameBuffers(Finish(a, r), r)
  <1>1. Finish(a, r) \in {r, [r EXCEPT !.nodelay = FALSE]}
    BY DEF Finish
  <1> QED BY <1>1 DEF Shape, SameTarget, SameBuffers

\* Only the attempt a is changed, to r and with it to Finish(a, r).
LEMMA Stepped ==
    ASSUME ShapesOK, NEW a \in Attempts, NEW r, Shape(r), Step(a, r)
    PROVE  /\ ShapesOK' /\ attempt'[a].pc = r.pc
           /\ attempt'[a].layers = r.layers /\ attempt'[a].h2 = r.h2
           /\ SameTarget(attempt'[a], r) /\ SameBuffers(attempt'[a], r)
           /\ \A b \in Attempts : b # a => attempt'[b] = attempt[b]
  <1>1. /\ attempt'[a] = Finish(a, r)
        /\ \A b \in Attempts : b # a => attempt'[b] = attempt[b]
        /\ attempt' = [b \in Attempts |-> attempt'[b]]
    BY DEF Step, ShapesOK
  <1>2. ShapesOK'
    BY <1>1, Finished DEF ShapesOK
  <1> QED BY <1>1, <1>2, Finished

LEMMA IdleShape ==
    /\ Shape(Idle) /\ Idle.pc = "idle" /\ Idle.unread = <<>> /\ Idle.buf = <<>>
    /\ Idle.offered = None
  BY DEF Shape, Idle

-----------------------------------------------------------------------------
(* The layers of a connection.                                             *)

Layer(kind, host) == [kind |-> kind, host |-> host]

\* TlsOnSocket and TlsHost, of a descriptor.
Encrypted(d) ==
    IF RouteKind(d) = "forward" THEN intercept_for(d).scheme = "https" ELSE IsHttps(d.uri)
TlsEnd(d) == IF RouteKind(d) = "forward" THEN intercept_for(d).host ELSE d.uri.host

\* The layers a CONNECT is written to, those the target's bytes flow on, and
\* those of an open connection.
ToProxy(d) ==
    IF RouteKind(d) = "tunnel" /\ intercept_for(d).scheme = "https"
    THEN <<Layer("tcp", intercept_for(d).host), Layer("tls", intercept_for(d).host)>>
    ELSE <<Layer("tcp", intercept_for(d).host)>>

Reached(d) ==
    IF RouteKind(d) = "direct" THEN <<Layer("tcp", d.uri.host)>>
    ELSE IF RouteKind(d) = "forward" \/ (~IsHttps(d.uri) /\ RouteKind(d) # "socks")
    THEN <<Layer("tcp", intercept_for(d).host)>>
    ELSE Append(ToProxy(d), Layer("tunnel", d.uri.host))

Opened(d) ==
    IF Encrypted(d) THEN Append(Reached(d), Layer("tls", TlsEnd(d))) ELSE Reached(d)

DialBound(d) == IF RouteKind(d) = "unix" THEN None ELSE Bound(d)

LayersOK(r) ==
    /\ r.pc \in {"idle", "dial", "proxytls", "connect", "answer", "socks", "tls",
                 "handshake", "open"}
    /\ r.pc # "idle" => r.d \in Descriptors
    /\ r.pc = "proxytls" =>
         /\ RouteKind(r.d) = "tunnel" /\ intercept_for(r.d).scheme = "https"
         /\ r.layers = <<Layer("tcp", intercept_for(r.d).host)>>
    /\ r.pc \in {"connect", "answer"} =>
         /\ RouteKind(r.d) \in {"tunnel", "unix"} /\ IsHttps(r.d.uri)
         /\ r.layers = ToProxy(r.d)
    /\ r.pc = "socks" =>
         /\ RouteKind(r.d) = "socks"
         /\ r.layers = <<Layer("tcp", intercept_for(r.d).host)>>
    /\ r.pc \in {"tls", "handshake"} => Encrypted(r.d) /\ r.layers = Reached(r.d)
    /\ r.pc = "open" => r.layers = Opened(r.d)
    /\ r.pc \notin {"idle", "dial"} => r.bound = DialBound(r.d)

RouteInv ==
    /\ config \in Configs /\ ShapesOK
    /\ \A a \in Attempts : LayersOK(attempt[a])

\* The layers are as the route has them, whatever the step.
LEMMA LayersKept ==
    ASSUME UNCHANGED config, NEW r
    PROVE  LayersOK(r)' <=> LayersOK(r)
  <1>1. /\ intercept_for(r.d)' = intercept_for(r.d)
        /\ RouteKind(r.d)' = RouteKind(r.d)
    BY SameRoute
  <1>2. /\ ToProxy(r.d)' = ToProxy(r.d) /\ Encrypted(r.d)' = Encrypted(r.d)
        /\ TlsEnd(r.d)' = TlsEnd(r.d)
    BY <1>1 DEF ToProxy, Encrypted, TlsEnd
  <1>3. Reached(r.d)' = Reached(r.d)
    BY <1>1, <1>2 DEF Reached
  <1>4. Opened(r.d)' = Opened(r.d)
    BY <1>2, <1>3 DEF Opened
  <1>5. DialBound(r.d)' = DialBound(r.d)
    BY <1>1 DEF DialBound, Bound
  <1> QED BY <1>1, <1>2, <1>3, <1>4, <1>5 DEF LayersOK

LEMMA DialLayers ==
    ASSUME RouteInv, NEW a \in Attempts, attempt[a].pc = "dial", NEW r,
           r.pc = AfterDial(a), r.d = attempt[a].d, r.bound = DialBound(attempt[a].d),
           r.layers = <<Layer("tcp", IF Kind(a) = "direct" THEN attempt[a].d.uri.host
                                     ELSE Via(a).host)>>
    PROVE  LayersOK(r)
  <1> DEFINE d == attempt[a].d
  <1>1. d \in Descriptors
    BY DEF RouteInv, LayersOK
  <1>2. /\ RouteKind(d) \in {"direct", "unix", "socks", "tunnel", "forward"}
        /\ RouteKind(d) = "direct" <=> intercept_for(d) = None
        /\ RouteKind(d) = "forward" => ~IsHttps(d.uri)
        /\ RouteKind(d) = "tunnel" => IsHttps(d.uri)
    BY <1>1, Routes DEF RouteInv
  <1>3. Kind(a) = RouteKind(d) /\ Via(a) = intercept_for(d)
    BY DEF Kind, Via
  <1>4. /\ Kind(a) = "direct" => AfterDial(a) = AfterTunnel(a)
        /\ Kind(a) = "forward" =>
             AfterDial(a) = IF Via(a).scheme = "https" THEN "tls" ELSE "open"
        /\ Kind(a) = "tunnel" =>
             AfterDial(a) = IF Via(a).scheme = "https" THEN "proxytls" ELSE "connect"
        /\ Kind(a) = "socks" => AfterDial(a) = "socks"
        /\ Kind(a) = "unix" => AfterDial(a) = IF IsHttps(d.uri) THEN "connect" ELSE "open"
    BY DEF AfterDial
  <1>5. AfterTunnel(a) = IF IsHttps(d.uri) THEN "tls" ELSE "open"
    BY DEF AfterTunnel
  <1> HIDE DEF d
  <1>6. r.d = d /\ r.bound = DialBound(d) /\ r.layers = <<Layer("tcp", IF RouteKind(d) = "direct" THEN d.uri.host
                                           ELSE intercept_for(d).host)>>
    BY <1>3 DEF d
  <1>7. CASE RouteKind(d) = "direct"
    BY <1>1, <1>3, <1>4, <1>5, <1>6, <1>7 DEF LayersOK, Encrypted, Reached, Opened
  <1>8. CASE RouteKind(d) = "forward"
    BY <1>1, <1>3, <1>4, <1>6, <1>8 DEF LayersOK, Encrypted, Reached, Opened
  <1>9. CASE RouteKind(d) = "tunnel"
    BY <1>1, <1>2, <1>3, <1>4, <1>6, <1>9 DEF LayersOK, ToProxy
  <1>10. CASE RouteKind(d) = "socks"
    BY <1>1, <1>3, <1>4, <1>6, <1>10 DEF LayersOK
  <1>11. CASE RouteKind(d) = "unix"
    BY <1>1, <1>3, <1>4, <1>6, <1>11 DEF LayersOK, ToProxy, Encrypted, Reached, Opened
  <1> QED BY <1>2, <1>7, <1>8, <1>9, <1>10, <1>11

LEMMA TunnelLayers ==
    ASSUME RouteInv, NEW a \in Attempts, attempt[a].pc \in {"answer", "socks"}, NEW r,
           r.pc = AfterTunnel(a), r.d = attempt[a].d, r.bound = attempt[a].bound,
           r.layers = Append(attempt[a].layers, Layer("tunnel", attempt[a].d.uri.host))
    PROVE  LayersOK(r)
  <1> DEFINE d == attempt[a].d
  <1>1. /\ d \in Descriptors /\ attempt[a].layers = ToProxy(d)
        /\ RouteKind(d) \in {"tunnel", "unix", "socks"}
        /\ RouteKind(d) # "socks" => IsHttps(d.uri)
        /\ attempt[a].bound = DialBound(d)
    BY DEF RouteInv, LayersOK, ToProxy
  <1>2. AfterTunnel(a) = IF IsHttps(d.uri) THEN "tls" ELSE "open"
    BY DEF AfterTunnel
  <1>3. r.d = d /\ r.bound = DialBound(d) /\ r.layers = Append(ToProxy(d), Layer("tunnel", d.uri.host))
    BY <1>1
  <1> HIDE DEF d
  <1>4. r.layers = Reached(d) /\ Encrypted(d) = IsHttps(d.uri)
    BY <1>1, <1>3 DEF Reached, Encrypted
  <1> QED BY <1>1, <1>2, <1>3, <1>4 DEF LayersOK, Opened

\* What the actions do to the attempt they are about.
Became(a, x, layers, bound) ==
    /\ ShapesOK'
    /\ attempt'[a].pc = x /\ attempt'[a].layers = layers /\ attempt'[a].d = attempt[a].d
    /\ attempt'[a].bound = bound
    /\ \A b \in Attempts : b # a => attempt'[b] = attempt[b]

Gone(a) ==
    /\ ShapesOK' /\ attempt'[a] = Idle
    /\ \A b \in Attempts : b # a => attempt'[b] = attempt[b]

LEMMA StepGone ==
    ASSUME ShapesOK, NEW a \in Attempts, attempt' = [attempt EXCEPT ![a] = Idle]
    PROVE  Gone(a)
  BY IdleShape DEF ShapesOK, Gone

LEMMA FinishIdle ==
    ASSUME NEW a
    PROVE  Finish(a, Idle) = Idle
  BY IdleShape DEF Finish

\* Effects of the actions, field by field.
LEMMA DialEffect ==
    ASSUME ShapesOK, NEW a \in Attempts, Dial(a)
    PROVE  /\ Became(a, AfterDial(a),
                  <<Layer("tcp", IF Kind(a) = "direct" THEN attempt[a].d.uri.host
                                 ELSE Via(a).host)>>, DialBound(attempt[a].d))
           /\ attempt'[a].offered = attempt[a].offered
           /\ SameBuffers(attempt'[a], attempt[a])
  <1> DEFINE host == IF Kind(a) = "direct" THEN attempt[a].d.uri.host ELSE Via(a).host
             r == [attempt[a] EXCEPT
                    !.pc = AfterDial(a), !.layers = <<[kind |-> "tcp", host |-> host]>>,
                    !.bound = DialBound(attempt[a].d),
                    !.nodelay = \/ config.nodelay
                                \/ Kind(a) \notin {"socks", "unix"} /\ TlsOnSocket(a)]
  <1>1. Step(a, r)
    BY DEF Dial, DialBound, Kind
  <1>2. Shape(attempt[a])
    BY DEF ShapesOK
  <1>3. /\ Shape(r) /\ r.pc = AfterDial(a) /\ r.layers = <<Layer("tcp", host)>>
        /\ r.d = attempt[a].d /\ r.offered = attempt[a].offered
        /\ r.bound = DialBound(attempt[a].d) /\ SameBuffers(r, attempt[a])
    BY <1>2 DEF Shape, SameBuffers, Layer
  <1> HIDE DEF r, host
  <1>4. /\ Became(a, AfterDial(a), <<Layer("tcp", host)>>, DialBound(attempt[a].d))
        /\ SameTarget(attempt'[a], r) /\ SameBuffers(attempt'[a], r)
    BY <1>1, <1>3, Stepped DEF Became, SameTarget
  <1> QED BY <1>3, <1>4 DEF SameTarget, SameBuffers, host

LEMMA ProxyTlsEffect ==
    ASSUME ShapesOK, NEW a \in Attempts, ProxyTls(a)
    PROVE  /\ Became(a, "connect", Append(attempt[a].layers, Layer("tls", Via(a).host)),
                  attempt[a].bound)
           /\ attempt'[a].offered = attempt[a].offered
           /\ SameBuffers(attempt'[a], attempt[a])
  <1> DEFINE layers == Append(attempt[a].layers, [kind |-> "tls", host |-> Via(a).host])
             r == [attempt[a] EXCEPT !.pc = "connect", !.layers = layers]
  <1>0. Shape(attempt[a])
    BY DEF ShapesOK
  <1>1. Step(a, r)
    BY <1>0 DEF ProxyTls, Shape
  <1>2. /\ Shape(r) /\ r.pc = "connect" /\ r.layers = layers
        /\ SameTarget(r, attempt[a]) /\ SameBuffers(r, attempt[a])
    BY <1>0 DEF Shape, SameTarget, SameBuffers
  <1> HIDE DEF r
  <1>3. /\ Became(a, "connect", layers, attempt[a].bound) /\ SameTarget(attempt'[a], r)
        /\ SameBuffers(attempt'[a], r)
    BY <1>1, <1>2, Stepped DEF Became, SameTarget
  <1> QED BY <1>2, <1>3 DEF SameTarget, SameBuffers, Layer

LEMMA WriteConnectEffect ==
    ASSUME ShapesOK, NEW a \in Attempts, NEW answer, WriteConnect(a, answer)
    PROVE  /\ Became(a, "answer", attempt[a].layers, attempt[a].bound)
           /\ attempt'[a].offered = attempt[a].offered
           /\ attempt'[a].unread = answer /\ attempt'[a].buf = attempt[a].buf
  <1> DEFINE r == [attempt[a] EXCEPT !.pc = "answer", !.unread = answer]
  <1>0. Shape(attempt[a])
    BY DEF ShapesOK
  <1>1. Step(a, r)
    BY DEF WriteConnect
  <1>2. /\ Shape(r) /\ r.pc = "answer" /\ r.layers = attempt[a].layers
        /\ SameTarget(r, attempt[a]) /\ r.unread = answer /\ r.buf = attempt[a].buf
    BY <1>0 DEF Shape, SameTarget
  <1> HIDE DEF r
  <1>3. /\ Became(a, "answer", attempt[a].layers, attempt[a].bound) /\ SameTarget(attempt'[a], r)
        /\ SameBuffers(attempt'[a], r)
    BY <1>1, <1>2, Stepped DEF Became, SameTarget
  <1> QED BY <1>2, <1>3 DEF SameTarget, SameBuffers

LEMMA SocksEffect ==
    ASSUME ShapesOK, NEW a \in Attempts, SocksHandshake(a)
    PROVE  /\ Became(a, AfterTunnel(a),
                  Append(attempt[a].layers, Layer("tunnel", attempt[a].d.uri.host)),
                  attempt[a].bound)
           /\ attempt'[a].offered = attempt[a].offered
           /\ SameBuffers(attempt'[a], attempt[a])
  <1> DEFINE layers == Append(attempt[a].layers,
                              [kind |-> "tunnel", host |-> attempt[a].d.uri.host])
             r == [attempt[a] EXCEPT !.pc = AfterTunnel(a), !.layers = layers]
  <1>0. Shape(attempt[a])
    BY DEF ShapesOK
  <1>1. Step(a, r)
    BY <1>0 DEF SocksHandshake, Shape
  <1>2. /\ Shape(r) /\ r.pc = AfterTunnel(a) /\ r.layers = layers
        /\ SameTarget(r, attempt[a]) /\ SameBuffers(r, attempt[a])
    BY <1>0 DEF Shape, SameTarget, SameBuffers
  <1> HIDE DEF r
  <1>3. /\ Became(a, AfterTunnel(a), layers, attempt[a].bound) /\ SameTarget(attempt'[a], r)
        /\ SameBuffers(attempt'[a], r)
    BY <1>1, <1>2, Stepped DEF Became, SameTarget
  <1> QED BY <1>2, <1>3 DEF SameTarget, SameBuffers, Layer

LEMMA TlsStartEffect ==
    ASSUME ShapesOK, NEW a \in Attempts, TlsStart(a)
    PROVE  /\ Became(a, "handshake", attempt[a].layers, attempt[a].bound)
           /\ attempt'[a].offered =
                IF TlsFor(attempt[a].d).psk /\ Sessions(id(attempt[a].d)) # <<>>
                THEN Head(Sessions(id(attempt[a].d))) ELSE None
           /\ SameBuffers(attempt'[a], attempt[a])
  <1> DEFINE offer == IF TlsFor(attempt[a].d).psk /\ Sessions(id(attempt[a].d)) # <<>>
                      THEN Head(Sessions(id(attempt[a].d))) ELSE None
             r == [attempt[a] EXCEPT !.pc = "handshake", !.offered = offer]
  <1>0. Shape(attempt[a])
    BY DEF ShapesOK
  <1>1. Step(a, r)
    BY DEF TlsStart
  <1>2. /\ Shape(r) /\ r.pc = "handshake" /\ r.layers = attempt[a].layers
        /\ r.d = attempt[a].d /\ r.bound = attempt[a].bound /\ r.offered = offer
        /\ SameBuffers(r, attempt[a])
    <2> HIDE DEF offer
    <2> QED BY <1>0 DEF Shape, SameBuffers
  <1> HIDE DEF r, offer
  <1>3. /\ Became(a, "handshake", attempt[a].layers, attempt[a].bound) /\ SameTarget(attempt'[a], r)
        /\ SameBuffers(attempt'[a], r)
    BY <1>1, <1>2, Stepped DEF Became, SameTarget
  <1> QED BY <1>2, <1>3 DEF SameTarget, SameBuffers, offer

LEMMA TlsDoneEffect ==
    ASSUME ShapesOK, NEW a \in Attempts, NEW protocol, TlsDone(a, protocol)
    PROVE  /\ Became(a, "open", Append(attempt[a].layers, Layer("tls", TlsHost(a))),
                  attempt[a].bound)
           /\ attempt'[a].offered = attempt[a].offered
           /\ SameBuffers(attempt'[a], attempt[a])
  <1> DEFINE layers == Append(attempt[a].layers, [kind |-> "tls", host |-> TlsHost(a)])
             h2 == protocol = "h2"
             r == [attempt[a] EXCEPT !.pc = "open", !.h2 = h2, !.layers = layers]
  <1>0. Shape(attempt[a])
    BY DEF ShapesOK
  <1>1. Step(a, r)
    BY <1>0 DEF TlsDone, Shape
  <1>2. /\ Shape(r) /\ r.pc = "open" /\ r.layers = layers
        /\ SameTarget(r, attempt[a]) /\ SameBuffers(r, attempt[a])
    <2> HIDE DEF h2
    <2> QED BY <1>0 DEF Shape, SameTarget, SameBuffers
  <1> HIDE DEF r
  <1>3. /\ Became(a, "open", layers, attempt[a].bound) /\ SameTarget(attempt'[a], r)
        /\ SameBuffers(attempt'[a], r)
    BY <1>1, <1>2, Stepped DEF Became, SameTarget
  <1> QED BY <1>2, <1>3 DEF SameTarget, SameBuffers, Layer

LEMMA StartEffect ==
    ASSUME ShapesOK, NEW a \in Attempts, NEW d, Start(a, d)
    PROVE  /\ ShapesOK' /\ attempt'[a].pc = "dial" /\ attempt'[a].d = d
           /\ attempt'[a].offered = None /\ SameBuffers(attempt'[a], Idle)
           /\ \A b \in Attempts : b # a => attempt'[b] = attempt[b]
  <1> DEFINE r == [Idle EXCEPT !.pc = "dial", !.d = d]
  <1>1. /\ Shape(r) /\ r.pc = "dial" /\ r.d = d /\ r.offered = None
        /\ SameBuffers(r, Idle)
    BY IdleShape DEF Shape, SameBuffers
  <1>2. attempt' = [attempt EXCEPT ![a] = r]
    BY DEF Start
  <1> HIDE DEF r
  <1>3. attempt'[a] = r /\ \A b \in Attempts : b # a => attempt'[b] = attempt[b]
    BY <1>2 DEF ShapesOK
  <1>4. ShapesOK'
    BY <1>1, <1>2, <1>3 DEF ShapesOK
  <1> QED BY <1>1, <1>3, <1>4

\* A read either goes on, or opens the tunnel, or ends the attempt.
ReadMore(a, n) ==
    /\ Became(a, "answer", attempt[a].layers, attempt[a].bound)
    /\ attempt'[a].offered = attempt[a].offered
    /\ attempt'[a].buf = attempt[a].buf \o SubSeq(attempt[a].unread, 1, n)
    /\ attempt'[a].unread = SubSeq(attempt[a].unread, n + 1, Len(attempt[a].unread))

ReadOpens(a, n) ==
    /\ Became(a, AfterTunnel(a),
              Append(attempt[a].layers, Layer("tunnel", attempt[a].d.uri.host)),
              attempt[a].bound)
    /\ attempt'[a].offered = attempt[a].offered
    /\ attempt'[a].buf = attempt[a].buf \o SubSeq(attempt[a].unread, 1, n)
    /\ attempt'[a].unread = SubSeq(attempt[a].unread, n + 1, Len(attempt[a].unread))
    /\ Parse(attempt[a].buf \o SubSeq(attempt[a].unread, 1, n)) = "200"

LEMMA ReadEffect ==
    ASSUME ShapesOK, NEW a \in Attempts, NEW n, ReadAnswer(a, n)
    PROVE  ReadMore(a, n) \/ ReadOpens(a, n) \/ Gone(a)
  <1> DEFINE buf == attempt[a].buf \o SubSeq(attempt[a].unread, 1, n)
             rest == SubSeq(attempt[a].unread, n + 1, Len(attempt[a].unread))
             status == IF n = 0 THEN "eof" ELSE Parse(buf)
             layers == Append(attempt[a].layers,
                              [kind |-> "tunnel", host |-> attempt[a].d.uri.host])
             more == [attempt[a] EXCEPT !.buf = buf, !.unread = rest]
             opens == [attempt[a] EXCEPT !.pc = AfterTunnel(a), !.buf = buf,
                                         !.unread = rest, !.layers = layers]
  <1>0. Shape(attempt[a]) /\ attempt[a].pc = "answer"
    BY DEF ShapesOK, ReadAnswer
  <1>a. layers = Append(attempt[a].layers, Layer("tunnel", attempt[a].d.uri.host))
    BY DEF Layer
  <1>1. \/ Step(a, more)
        \/ status = "200" /\ Step(a, opens)
        \/ Step(a, Idle)
    <2> DEFINE opened0 == [attempt[a] EXCEPT
                   !.pc = AfterTunnel(a), !.buf = buf, !.unread = rest,
                   !.layers = Append(@, [kind |-> "tunnel", host |-> attempt[a].d.uri.host])]
               then == CASE status = "partial" -> more
                         [] status = "200" -> opened0
                         [] OTHER -> Idle
    <2>1. Step(a, then)
      BY DEF ReadAnswer
    <2>2. opened0 = opens
      BY <1>0 DEF Shape
    <2> HIDE DEF opened0, more, opens, status
    <2>3. \/ then = more
          \/ status = "200" /\ then = opened0
          \/ then = Idle
      OBVIOUS
    <2> HIDE DEF then
    <2> QED BY <2>1, <2>2, <2>3
  <1>2. CASE Step(a, more)
    <2>1. /\ Shape(more) /\ more.pc = "answer" /\ more.layers = attempt[a].layers
          /\ SameTarget(more, attempt[a]) /\ more.buf = buf /\ more.unread = rest
      <3> HIDE DEF buf, rest
      <3> QED BY <1>0 DEF Shape, SameTarget
    <2> HIDE DEF more
    <2> QED BY <1>2, <2>1, Stepped DEF Became, SameTarget, SameBuffers, ReadMore
  <1>3. CASE status = "200" /\ Step(a, opens)
    <2>1. /\ Shape(opens) /\ opens.pc = AfterTunnel(a) /\ opens.layers = layers
          /\ SameTarget(opens, attempt[a]) /\ opens.buf = buf /\ opens.unread = rest
      <3> HIDE DEF buf, rest, layers
      <3> QED BY <1>0 DEF Shape, SameTarget
    <2>2. Parse(buf) = "200"
      BY <1>3
    <2> HIDE DEF opens, layers
    <2> QED BY <1>3, <1>a, <2>1, <2>2, Stepped DEF Became, SameTarget, SameBuffers, ReadOpens
  <1>4. CASE Step(a, Idle)
    BY <1>4, FinishIdle, StepGone DEF Step
  <1> QED BY <1>1, <1>2, <1>3, <1>4

LEMMA RouteStep == RouteInv /\ [Next]_vars => RouteInv'
  <1> SUFFICES ASSUME RouteInv, [Next]_vars
               PROVE  RouteInv'
    OBVIOUS
  <1>0. /\ config' = config /\ ShapesOK /\ config \in Configs
        /\ \A a \in Attempts : LayersOK(attempt[a])
    BY DEF RouteInv, Next, vars, Start, Progress, Dial, ProxyTls, WriteConnect, ReadAnswer,
           SocksHandshake, TlsStart, TlsDone, NewSession, Fails, TimesOut, SendRequest, Close
  \* A step of the attempt a.
  <1>a. ASSUME NEW a \in Attempts, ShapesOK', LayersOK(attempt'[a]),
               \A b \in Attempts : b # a => attempt'[b] = attempt[b]
        PROVE  RouteInv'
    <2>1. \A b \in Attempts : LayersOK(attempt'[b])
      BY <1>0, <1>a
    <2>2. \A b \in Attempts : LayersOK(attempt[b])'
      <3> SUFFICES ASSUME NEW b \in Attempts
                   PROVE  LayersOK(attempt[b])'
        OBVIOUS
      <3>1. PICK r : r = attempt'[b]
        OBVIOUS
      <3>2. LayersOK(r)
        BY <2>1, <3>1
      <3>3. LayersOK(r)'
        BY <1>0, <3>2, LayersKept
      <3> QED BY <3>1, <3>3
    <2> QED BY <1>0, <1>a, <2>2 DEF RouteInv
  <1>1. ASSUME NEW a \in Attempts, NEW d \in Descriptors, Start(a, d)
        PROVE  RouteInv'
    <2>1. LayersOK(attempt'[a])
      BY <1>0, <1>1, StartEffect DEF LayersOK
    <2> QED BY <1>0, <1>1, <1>a, <2>1, StartEffect
  <1>2. ASSUME NEW a \in Attempts, Dial(a)
        PROVE  RouteInv'
    <2>1. attempt[a].pc = "dial"
      BY <1>2 DEF Dial
    <2>2. LayersOK(attempt'[a])
      BY <1>0, <1>2, <2>1, DialEffect, DialLayers DEF Became
    <2> QED BY <1>0, <1>2, <1>a, <2>2, DialEffect DEF Became
  <1>3. ASSUME NEW a \in Attempts, ProxyTls(a)
        PROVE  RouteInv'
    <2>1. attempt[a].pc = "proxytls" /\ LayersOK(attempt[a]) /\ Via(a) = intercept_for(attempt[a].d)
      BY <1>0, <1>3 DEF ProxyTls, Via
    <2>2. IsHttps(attempt[a].d.uri)
      BY <1>0, <2>1, Routes DEF LayersOK
    <2>3. attempt'[a].layers = ToProxy(attempt[a].d)
      <3>1. attempt'[a].layers = Append(attempt[a].layers, Layer("tls", Via(a).host))
        BY <1>0, <1>3, ProxyTlsEffect DEF Became
      <3> QED BY <2>1, <3>1 DEF LayersOK, ToProxy
    <2>4. LayersOK(attempt'[a])
      BY <1>0, <1>3, <2>1, <2>2, <2>3, ProxyTlsEffect DEF Became, LayersOK
    <2> QED BY <1>0, <1>3, <1>a, <2>4, ProxyTlsEffect DEF Became
  <1>4. ASSUME NEW a \in Attempts, NEW answer \in Answers, WriteConnect(a, answer)
        PROVE  RouteInv'
    <2>1. attempt[a].pc = "connect" /\ LayersOK(attempt[a])
      BY <1>0, <1>4 DEF WriteConnect
    <2>2. LayersOK(attempt'[a])
      BY <1>0, <1>4, <2>1, WriteConnectEffect DEF Became, LayersOK
    <2> QED BY <1>0, <1>4, <1>a, <2>2, WriteConnectEffect DEF Became
  <1>g. ASSUME NEW a \in Attempts, Gone(a)
        PROVE  RouteInv'
    <2>1. LayersOK(attempt'[a])
      BY <1>g, IdleShape DEF Gone, LayersOK
    <2> QED BY <1>a, <1>g, <2>1 DEF Gone
  <1>5. ASSUME NEW a \in Attempts, NEW n, ReadAnswer(a, n)
        PROVE  RouteInv'
    <2>1. attempt[a].pc = "answer" /\ LayersOK(attempt[a])
      BY <1>0, <1>5 DEF ReadAnswer
    <2>2. CASE ReadMore(a, n)
      <3>1. LayersOK(attempt'[a])
        BY <2>1, <2>2 DEF ReadMore, Became, LayersOK
      <3> QED BY <1>a, <2>2, <3>1 DEF ReadMore, Became
    <2>3. CASE ReadOpens(a, n)
      <3>1. LayersOK(attempt'[a])
        BY <2>1, <2>3, TunnelLayers DEF ReadOpens, Became
      <3> QED BY <1>a, <2>3, <3>1 DEF ReadOpens, Became
    <2> QED BY <1>0, <1>5, <1>g, <2>2, <2>3, ReadEffect
  <1>6. ASSUME NEW a \in Attempts, SocksHandshake(a)
        PROVE  RouteInv'
    <2>1. attempt[a].pc = "socks"
      BY <1>6 DEF SocksHandshake
    <2>2. LayersOK(attempt'[a])
      BY <1>0, <1>6, <2>1, SocksEffect, TunnelLayers DEF Became
    <2> QED BY <1>0, <1>6, <1>a, <2>2, SocksEffect DEF Became
  <1>7. ASSUME NEW a \in Attempts, TlsStart(a)
        PROVE  RouteInv'
    <2>1. attempt[a].pc = "tls" /\ LayersOK(attempt[a])
      BY <1>0, <1>7 DEF TlsStart
    <2>2. LayersOK(attempt'[a])
      BY <1>0, <1>7, <2>1, TlsStartEffect DEF Became, LayersOK
    <2> QED BY <1>0, <1>7, <1>a, <2>2, TlsStartEffect DEF Became
  <1>8. ASSUME NEW a \in Attempts, NEW protocol, TlsDone(a, protocol)
        PROVE  RouteInv'
    <2>1. attempt[a].pc = "handshake" /\ LayersOK(attempt[a])
      BY <1>0, <1>8 DEF TlsDone
    <2>2. TlsHost(a) = TlsEnd(attempt[a].d)
      BY DEF TlsHost, TlsEnd, Kind, Via
    <2>3. LayersOK(attempt'[a])
      BY <1>0, <1>8, <2>1, <2>2, TlsDoneEffect DEF Became, LayersOK, Opened
    <2> QED BY <1>0, <1>8, <1>a, <2>3, TlsDoneEffect DEF Became
  <1>9. ASSUME NEW a \in Attempts, Fails(a) \/ TimesOut(a) \/ Close(a)
        PROVE  RouteInv'
    <2>1. attempt' = [attempt EXCEPT ![a] = Idle]
      BY <1>9 DEF Fails, TimesOut, Close
    <2> QED BY <1>0, <1>g, <2>1, StepGone
  <1>10. CASE UNCHANGED attempt
    <2>1. ShapesOK' /\ \A b \in Attempts : LayersOK(attempt[b])'
      <3>1. \A b \in Attempts : LayersOK(attempt'[b])
        BY <1>0, <1>10
      <3>2. ShapesOK'
        BY <1>0, <1>10 DEF ShapesOK
      <3> SUFFICES ASSUME NEW b \in Attempts
                   PROVE  LayersOK(attempt[b])'
        BY <3>2
      <3>3. PICK r : r = attempt'[b]
        OBVIOUS
      <3>4. LayersOK(r)'
        BY <1>0, <3>1, <3>3, LayersKept
      <3> QED BY <3>3, <3>4
    <2> QED BY <1>0, <2>1 DEF RouteInv
  <1>11. CASE \E a \in Attempts : \/ \E s \in SessionIds, tls13 \in BOOLEAN :
                                         NewSession(a, s, tls13)
                                  \/ \E d \in Descriptors : SendRequest(a, d)
    BY <1>10, <1>11 DEF NewSession, SendRequest
  <1>12. CASE UNCHANGED vars
    BY <1>10, <1>12 DEF vars
  <1> QED
    BY <1>1, <1>2, <1>3, <1>4, <1>5, <1>6, <1>7, <1>8, <1>9, <1>11, <1>12 DEF Next, Progress

\* RouteRespected, of what a step writes.
WireOK(kind, d, layers, bound, auth) ==
    /\ kind = "request" =>
         /\ Hosts(layers) \subseteq {d.uri.host} \cup
              (IF intercept_for(d) = None THEN {} ELSE {intercept_for(d).host})
         /\ intercept_for(d) # None => intercept_for(d).host \in Hosts(layers)
         /\ IsHttps(d.uri) => Last(layers) = Layer("tls", d.uri.host)
         /\ d.bind # None /\ RouteKind(d) \notin {"socks", "unix"} =>
              /\ bound.ip = d.bind.ip
              /\ d.bind.interface # None => bound.interface = d.bind.interface
    /\ auth # None => intercept_for(d) # None /\ Last(layers).host = intercept_for(d).host

LEMMA AppendIs ==
    ASSUME NEW S, NEW s \in Seq(S), NEW e \in S, NEW t \in Seq(S), Len(t) = Len(s) + 1,
           t[Len(s) + 1] = e, \A i \in 1..Len(s) : t[i] = s[i]
    PROVE  Append(s, e) = t
  <1> DEFINE u == Append(s, e)
  <1>1. /\ u \in Seq(S) /\ Len(u) = Len(s) + 1 /\ u[Len(s) + 1] = e
        /\ \A i \in 1..Len(s) : u[i] = s[i]
    BY AppendProperties
  <1> HIDE DEF u
  <1>2. Len(s) \in Nat
    BY LenProperties
  <1>3. \A i \in 1..Len(u) : u[i] = t[i]
    BY <1>1, <1>2
  <1>4. u = t
    BY <1>1, <1>3, SeqEqual
  <1> QED BY <1>4 DEF u

LEMMA AppendTuple ==
    /\ \A x, y : Append(<<x>>, y) = <<x, y>>
    /\ \A x, y, z : Append(<<x, y>>, z) = <<x, y, z>>
    /\ \A x, y, z, w : Append(<<x, y, z>>, w) = <<x, y, z, w>>
  <1>1. ASSUME NEW x, NEW y
        PROVE  Append(<<x>>, y) = <<x, y>>
    <2> DEFINE S == {x, y}
               s == <<x>>
               t == <<x, y>>
    <2>1. /\ s \in Seq(S) /\ y \in S /\ t \in Seq(S) /\ Len(t) = Len(s) + 1
          /\ t[Len(s) + 1] = y /\ \A i \in 1..Len(s) : t[i] = s[i]
      OBVIOUS
    <2> HIDE DEF S, s, t
    <2>2. Append(s, y) = t
      BY <2>1, AppendIs
    <2> QED BY <2>2 DEF s, t
  <1>2. ASSUME NEW x, NEW y, NEW z
        PROVE  Append(<<x, y>>, z) = <<x, y, z>>
    <2> DEFINE S == {x, y, z}
               s == <<x, y>>
               t == <<x, y, z>>
    <2>1. /\ s \in Seq(S) /\ z \in S /\ t \in Seq(S) /\ Len(t) = Len(s) + 1
          /\ t[Len(s) + 1] = z /\ \A i \in 1..Len(s) : t[i] = s[i]
      OBVIOUS
    <2> HIDE DEF S, s, t
    <2>2. Append(s, z) = t
      BY <2>1, AppendIs
    <2> QED BY <2>2 DEF s, t
  <1>3. ASSUME NEW x, NEW y, NEW z, NEW w
        PROVE  Append(<<x, y, z>>, w) = <<x, y, z, w>>
    <2> DEFINE S == {x, y, z, w}
               s == <<x, y, z>>
               t == <<x, y, z, w>>
    <2>1. /\ s \in Seq(S) /\ w \in S /\ t \in Seq(S) /\ Len(t) = Len(s) + 1
          /\ t[Len(s) + 1] = w /\ \A i \in 1..Len(s) : t[i] = s[i]
      OBVIOUS
    <2> HIDE DEF S, s, t
    <2>2. Append(s, w) = t
      BY <2>1, AppendIs
    <2> QED BY <2>2 DEF s, t
  <1> QED BY <1>1, <1>2, <1>3

LEMMA OpenedRoute ==
    ASSUME config \in Configs, NEW d \in Descriptors
    PROVE  /\ Hosts(Opened(d)) \subseteq {d.uri.host} \cup
                (IF intercept_for(d) = None THEN {} ELSE {intercept_for(d).host})
           /\ intercept_for(d) # None => intercept_for(d).host \in Hosts(Opened(d))
           /\ IsHttps(d.uri) => Last(Opened(d)) = Layer("tls", d.uri.host)
           /\ RouteKind(d) = "forward" =>
                intercept_for(d) # None /\ Last(Opened(d)).host = intercept_for(d).host
  <1> DEFINE t == d.uri.host
             v == intercept_for(d).host
             https == IsHttps(d.uri)
  <1>0. /\ RouteKind(d) \in {"direct", "unix", "socks", "tunnel", "forward"}
        /\ RouteKind(d) = "direct" <=> intercept_for(d) = None
        /\ RouteKind(d) = "forward" => ~IsHttps(d.uri)
        /\ RouteKind(d) = "tunnel" => IsHttps(d.uri)
    BY Routes
  <1>h. ASSUME NEW k, NEW h
        PROVE  Layer(k, h).kind = k /\ Layer(k, h).host = h
    BY DEF Layer
  <1>1. CASE RouteKind(d) = "direct"
    <2>1. Opened(d) = IF https THEN <<Layer("tcp", t), Layer("tls", t)>> ELSE <<Layer("tcp", t)>>
      <3>1. Reached(d) = <<Layer("tcp", t)>>
        BY <1>1 DEF Reached
      <3>2. Encrypted(d) = https /\ TlsEnd(d) = t
        BY <1>1 DEF Encrypted, TlsEnd
      <3> HIDE DEF t, https
      <3> QED BY <3>1, <3>2, AppendTuple DEF Opened
    <2> HIDE DEF t, https
    <2>2. CASE https
      <3>1. Opened(d) = <<Layer("tcp", t), Layer("tls", t)>>
        BY <2>1, <2>2
      <3>2. Hosts(Opened(d)) = {t} /\ Last(Opened(d)) = Layer("tls", t)
        BY <1>h, <3>1 DEF Hosts, Last
      <3> QED BY <1>0, <1>1, <3>2 DEF t
    <2>3. CASE ~https
      <3>1. Opened(d) = <<Layer("tcp", t)>>
        BY <2>1, <2>3
      <3>2. Hosts(Opened(d)) = {t}
        BY <1>h, <3>1 DEF Hosts
      <3> QED BY <1>0, <1>1, <2>3, <3>2 DEF t, https
    <2> QED BY <2>2, <2>3
  <1>2. CASE RouteKind(d) = "forward"
    <2>1. \/ Opened(d) = <<Layer("tcp", v), Layer("tls", v)>>
          \/ Opened(d) = <<Layer("tcp", v)>>
      <3>1. Reached(d) = <<Layer("tcp", v)>> /\ TlsEnd(d) = v
        BY <1>2 DEF Reached, TlsEnd
      <3> HIDE DEF v
      <3> QED BY <3>1, AppendTuple DEF Opened
    <2> HIDE DEF v
    <2>2. Hosts(Opened(d)) = {v} /\ Last(Opened(d)).host = v
      <3>1. CASE Opened(d) = <<Layer("tcp", v), Layer("tls", v)>>
        BY <1>h, <3>1 DEF Hosts, Last
      <3>2. CASE Opened(d) = <<Layer("tcp", v)>>
        BY <1>h, <3>2 DEF Hosts, Last
      <3> QED BY <2>1, <3>1, <3>2
    <2> QED BY <1>0, <1>2, <2>2 DEF v
  <1>3. CASE RouteKind(d) \in {"tunnel", "socks", "unix"}
    <2>1. \/ https /\ Opened(d) = <<Layer("tcp", v), Layer("tls", v), Layer("tunnel", t),
                                    Layer("tls", t)>>
          \/ https /\ Opened(d) = <<Layer("tcp", v), Layer("tunnel", t), Layer("tls", t)>>
          \/ ~https /\ Opened(d) = <<Layer("tcp", v), Layer("tunnel", t)>>
          \/ ~https /\ Opened(d) = <<Layer("tcp", v)>>
      <3>1. Encrypted(d) = https /\ TlsEnd(d) = t
        BY <1>3 DEF Encrypted, TlsEnd
      <3>2. \/ ToProxy(d) = <<Layer("tcp", v), Layer("tls", v)>> /\ RouteKind(d) = "tunnel"
            \/ ToProxy(d) = <<Layer("tcp", v)>>
        BY DEF ToProxy
      <3>3. Reached(d) = IF ~https /\ RouteKind(d) # "socks" THEN <<Layer("tcp", v)>>
                         ELSE Append(ToProxy(d), Layer("tunnel", t))
        BY <1>3 DEF Reached
      <3>4. RouteKind(d) = "tunnel" => https
        BY <1>0
      <3> HIDE DEF v, t, https
      <3>5. \/ /\ https
               /\ Reached(d) = <<Layer("tcp", v), Layer("tls", v), Layer("tunnel", t)>>
            \/ Reached(d) = <<Layer("tcp", v), Layer("tunnel", t)>>
            \/ ~https /\ Reached(d) = <<Layer("tcp", v)>>
        BY <3>2, <3>3, <3>4, AppendTuple
      <3>6. Opened(d) = IF https THEN Append(Reached(d), Layer("tls", t)) ELSE Reached(d)
        BY <3>1 DEF Opened
      <3> QED BY <3>5, <3>6, AppendTuple
    <2> HIDE DEF v, t, https
    <2>2. /\ Hosts(Opened(d)) \subseteq {v, t} /\ v \in Hosts(Opened(d))
          /\ https => Last(Opened(d)) = Layer("tls", t)
      <3>1. CASE Opened(d) = <<Layer("tcp", v), Layer("tls", v), Layer("tunnel", t),
                               Layer("tls", t)>>
        BY <1>h, <3>1 DEF Hosts, Last
      <3>2. CASE Opened(d) = <<Layer("tcp", v), Layer("tunnel", t), Layer("tls", t)>>
        BY <1>h, <3>2 DEF Hosts, Last
      <3>3. CASE ~https /\ Opened(d) = <<Layer("tcp", v), Layer("tunnel", t)>>
        BY <1>h, <3>3 DEF Hosts
      <3>4. CASE ~https /\ Opened(d) = <<Layer("tcp", v)>>
        BY <1>h, <3>4 DEF Hosts
      <3> QED BY <2>1, <3>1, <3>2, <3>3, <3>4
    <2> QED BY <1>0, <1>3, <2>2 DEF v, t, https
  <1> QED BY <1>0, <1>1, <1>2, <1>3

LEMMA WireStep == RouteInv /\ RouteRespected /\ [Next]_vars => RouteRespected'
  <1> SUFFICES ASSUME RouteInv, RouteRespected, [Next]_vars
               PROVE  RouteRespected'
    OBVIOUS
  <1>0. /\ config' = config /\ config \in Configs
        /\ \A a \in Attempts : LayersOK(attempt[a])
    BY DEF RouteInv, Next, vars, Start, Progress, Dial, ProxyTls, WriteConnect, ReadAnswer,
           SocksHandshake, TlsStart, TlsDone, NewSession, Fails, TimesOut, SendRequest, Close
  <1>w. ASSUME NEW kind, NEW d, NEW layers, NEW bound, NEW auth,
               WireOK(kind, d, layers, bound, auth),
               wire' = [kind |-> kind, d |-> d, layers |-> layers, bound |-> bound,
                        auth |-> auth]
        PROVE  RouteRespected'
    <2>1. /\ wire'.kind = kind /\ wire'.d = d /\ wire'.layers = layers
          /\ wire'.bound = bound /\ wire'.auth = auth
      BY <1>w
    <2>2. intercept_for(d)' = intercept_for(d)
      BY <1>0, SameRoute
    <2>3. /\ intercept_for(wire.d)' = intercept_for(d)
          /\ RouteKind(wire.d)' = RouteKind(d)
      <3>1. RouteKind(d)' = RouteKind(d)
        BY <1>0, SameRoute
      <3> QED BY <2>1, <2>2, <3>1
    <2> QED BY <1>w, <2>1, <2>3 DEF WireOK, RouteRespected, Layer
  <1>1. ASSUME NEW a \in Attempts, NEW answer \in Answers, WriteConnect(a, answer)
        PROVE  RouteRespected'
    <2>1. PICK d, layers :
            /\ d \in Descriptors
            /\ d = attempt[a].d /\ layers = attempt[a].layers /\ layers = ToProxy(d)
            /\ RouteKind(d) \in {"tunnel", "unix"}
      BY <1>0, <1>1 DEF WriteConnect, LayersOK
    <2>2. intercept_for(d) # None /\ Last(layers).host = intercept_for(d).host
      <3>1. intercept_for(d) # None
        BY <1>0, <2>1, Routes
      <3>2. Last(layers).host = intercept_for(d).host
        BY <2>1 DEF ToProxy, Last, Layer
      <3> QED BY <3>1, <3>2
    <2>3. PICK bound, auth : wire' = [kind |-> "connect", d |-> d, layers |-> layers,
                                      bound |-> bound, auth |-> auth]
      BY <1>1, <2>1 DEF WriteConnect
    <2> QED BY <1>w, <2>2, <2>3 DEF WireOK
  <1>2. ASSUME NEW a \in Attempts, SocksHandshake(a)
        PROVE  RouteRespected'
    <2>1. PICK d, layers :
            /\ d \in Descriptors /\ d = attempt[a].d /\ layers = attempt[a].layers
            /\ layers = <<Layer("tcp", intercept_for(d).host)>> /\ RouteKind(d) = "socks"
      BY <1>0, <1>2 DEF SocksHandshake, LayersOK
    <2>2. intercept_for(d) # None /\ Last(layers).host = intercept_for(d).host
      <3>1. intercept_for(d) # None
        BY <1>0, <2>1, Routes
      <3>2. Last(layers).host = intercept_for(d).host
        BY <2>1 DEF Last, Layer
      <3> QED BY <3>1, <3>2
    <2>3. PICK bound, auth : wire' = [kind |-> "socks", d |-> d, layers |-> layers,
                                      bound |-> bound, auth |-> auth]
      BY <1>2, <2>1 DEF SocksHandshake
    <2> QED BY <1>w, <2>2, <2>3 DEF WireOK
  <1>3. ASSUME NEW a \in Attempts, NEW d \in Descriptors, SendRequest(a, d)
        PROVE  RouteRespected'
    <2>1. PICK e, layers :
            /\ e \in Descriptors
            /\ e = attempt[a].d /\ layers = attempt[a].layers /\ layers = Opened(e)
            /\ id(d) = id(e) /\ attempt[a].bound = DialBound(e)
      BY <1>0, <1>3 DEF SendRequest, LayersOK
    <2>2. PICK auth :
            /\ wire' = [kind |-> "request", d |-> d, layers |-> layers,
                        bound |-> DialBound(e), auth |-> auth]
            /\ auth # None => RouteKind(e) = "forward"
      BY <1>3, <2>1 DEF SendRequest, Kind
    <2>3. /\ d.uri = e.uri /\ d.bind = e.bind
          /\ intercept_for(d) = intercept_for(e) /\ RouteKind(d) = RouteKind(e)
      BY <2>1, RouteOfId
    <2>b. d.bind # None /\ RouteKind(d) \notin {"socks", "unix"} =>
            /\ DialBound(e).ip = d.bind.ip
            /\ d.bind.interface # None => DialBound(e).interface = d.bind.interface
      BY <2>3 DEF DialBound, Bound
    <2>4. WireOK("request", d, layers, DialBound(e), auth)
      BY <1>0, <2>1, <2>2, <2>3, <2>b, OpenedRoute DEF WireOK
    <2> QED BY <1>w, <2>2, <2>4
  <1>4. CASE wire' = Nothing
    BY <1>4 DEF RouteRespected, Nothing
  <1>5. CASE UNCHANGED vars
    <2>1. UNCHANGED <<config, wire>>
      BY <1>5 DEF vars
    <2>2. /\ intercept_for(wire.d)' = intercept_for(wire.d)
          /\ RouteKind(wire.d)' = RouteKind(wire.d)
      BY <2>1 DEF RouteKind, intercept_for
    <2> QED BY <2>1, <2>2 DEF RouteRespected, Hosts, Last, IsHttps
  <1>6. CASE Next
    <2>1. \/ wire' = Nothing
          \/ \E a \in Attempts : \/ \E answer \in Answers : WriteConnect(a, answer)
                                 \/ SocksHandshake(a)
                                 \/ \E d \in Descriptors : SendRequest(a, d)
      BY <1>6 DEF Next, Start, Progress, Dial, ProxyTls, ReadAnswer, TlsStart, TlsDone,
                  NewSession, Fails, TimesOut, Close
    <2> QED BY <1>1, <1>2, <1>3, <1>4, <2>1
  <1> QED BY <1>5, <1>6

LEMMA RouteInit == Init => RouteInv /\ RouteRespected
  <1> SUFFICES ASSUME Init
               PROVE  RouteInv /\ RouteRespected
    OBVIOUS
  <1>1. ShapesOK /\ \A a \in Attempts : attempt[a] = Idle
    BY IdleShape DEF Init, ShapesOK
  <1>2. \A a \in Attempts : LayersOK(attempt[a])
    BY <1>1, IdleShape DEF LayersOK
  <1>3. RouteRespected
    BY DEF Init, Nothing, RouteRespected
  <1> QED BY <1>1, <1>2, <1>3 DEF Init, RouteInv

\* For every set of proxies and every interleaving of attempts: what is written
\* goes where the request's own rules send it, an https target is reached inside
\* TLS that ends there, and credentials reach the proxy they are for.
THEOREM RoutesAreRespected == Spec => []RouteRespected
  <1>1. RouteInv /\ RouteRespected /\ [Next]_vars => RouteInv' /\ RouteRespected'
    BY RouteStep, WireStep
  <1> QED BY <1>1, RouteInit, PTL DEF Spec
-----------------------------------------------------------------------------
(* The answer to CONNECT: however it is cut, what was read and what is to  *)
(* be read are the answer, and only the target's bytes follow its head.    *)

HeadFirst(s) == \A i, j \in DOMAIN s : i < j /\ s[i] = "end" => s[j] = "x"

Tunnels(d) == RouteKind(d) \in {"tunnel", "unix"} /\ IsHttps(d.uri)

HeadOK(r) ==
    /\ r.pc \in {"idle", "dial", "proxytls", "connect", "socks"} =>
         r.unread = <<>> /\ r.buf = <<>>
    /\ r.pc = "answer" =>
         /\ r.buf \in Seq(STRING) /\ r.unread \in Seq(STRING)
         /\ HeadFirst(r.buf \o r.unread)
    /\ r.pc \in {"tls", "handshake", "open"} /\ Tunnels(r.d) =>
         /\ r.buf # <<>> /\ r.buf[1] = "200"
         /\ \E i \in DOMAIN r.buf : r.buf[i] = "end"
         /\ \A i \in DOMAIN r.unread : r.unread[i] = "x"

HeadInv == RouteInv /\ \A a \in Attempts : HeadOK(attempt[a])

LEMMA Cut ==
    ASSUME NEW b \in Seq(STRING), NEW u \in Seq(STRING), NEW n \in 0 .. Len(u)
    PROVE  /\ b \o SubSeq(u, 1, n) \in Seq(STRING)
           /\ SubSeq(u, n + 1, Len(u)) \in Seq(STRING)
           /\ (b \o SubSeq(u, 1, n)) \o SubSeq(u, n + 1, Len(u)) = b \o u
  <1> DEFINE read == SubSeq(u, 1, n)
             rest == SubSeq(u, n + 1, Len(u))
  <1>1. Len(u) \in Nat /\ \A i \in 1..Len(u) : u[i] \in STRING
    BY LenProperties, ElementOfSeq
  <1>2. read \in Seq(STRING)
    BY <1>1, SubSeqProperties
  <1>3. rest \in Seq(STRING)
    BY <1>1, SubSeqProperties
  <1>4. read \o rest = u
    <2>1. 1 \in 1 .. Len(u) + 1 /\ n \in 1 - 1 .. Len(u) /\ Len(u) \in n .. Len(u)
      BY <1>1
    <2>2. read \o rest = SubSeq(u, 1, Len(u))
      BY <2>1, ConcatAdjacentSubSeq, Zenon
    <2> QED BY <2>2, SubSeqFull
  <1> HIDE DEF read, rest
  <1>5. b \o read \in Seq(STRING)
    BY <1>2, ConcatProperties
  <1>6. (b \o read) \o rest = b \o (read \o rest)
    BY <1>2, <1>3, ConcatAssociative
  <1>7. (b \o read) \o rest = b \o u
    BY <1>4, <1>6
  <1> QED BY <1>3, <1>5, <1>7 DEF read, rest

LEMMA AfterHead ==
    ASSUME NEW b \in Seq(STRING), NEW u \in Seq(STRING), HeadFirst(b \o u),
           \E i \in DOMAIN b : b[i] = "end"
    PROVE  \A j \in DOMAIN u : u[j] = "x"
  <1> DEFINE s == b \o u
  <1>1. /\ s \in Seq(STRING) /\ Len(s) = Len(b) + Len(u)
        /\ \A i \in 1 .. Len(b) + Len(u) : s[i] = IF i <= Len(b) THEN b[i] ELSE u[i - Len(b)]
    BY ConcatProperties
  <1>2. /\ DOMAIN s = 1 .. Len(b) + Len(u) /\ DOMAIN b = 1 .. Len(b) /\ DOMAIN u = 1 .. Len(u)
        /\ Len(b) \in Nat /\ Len(u) \in Nat
    BY <1>1, LenProperties
  <1>3. HeadFirst(s)
    OBVIOUS
  <1> HIDE DEF s
  <1>4. PICK i \in 1 .. Len(b) : b[i] = "end"
    BY <1>2
  <1> SUFFICES ASSUME NEW j \in 1 .. Len(u)
               PROVE  u[j] = "x"
    BY <1>2
  <1>5. s[i] = "end" /\ s[Len(b) + j] = u[j] /\ i < Len(b) + j
    BY <1>1, <1>2, <1>4
  <1>6. i \in DOMAIN s /\ Len(b) + j \in DOMAIN s
    BY <1>2
  <1> QED BY <1>3, <1>5, <1>6 DEF HeadFirst

\* The steps that leave the attempt's buffers alone.
LEMMA HeadKept ==
    ASSUME NEW r, NEW s, SameBuffers(r, s), HeadOK(s),
           \/ /\ r.pc \in {"dial", "proxytls", "connect", "socks", "tls", "open"}
              /\ s.pc \in {"dial", "proxytls", "connect", "socks"}
              /\ r.pc \in {"tls", "open"} => ~Tunnels(r.d)
           \/ /\ r.pc \in {"tls", "handshake", "open"} /\ r.d = s.d
              /\ s.pc \in {"tls", "handshake", "open"}
    PROVE  HeadOK(r)
  BY DEF HeadOK, SameBuffers

\* Whether a descriptor tunnels is settled by the client's configuration.
LEMMA HeadSame ==
    ASSUME UNCHANGED config, NEW r
    PROVE  HeadOK(r)' <=> HeadOK(r)
  <1>1. RouteKind(r.d)' = RouteKind(r.d)
    BY SameRoute
  <1>2. Tunnels(r.d)' = Tunnels(r.d)
    BY <1>1 DEF Tunnels
  <1> QED BY <1>2 DEF HeadOK

LEMMA HeadStep == HeadInv /\ [Next]_vars => HeadInv'
  <1> SUFFICES ASSUME HeadInv, [Next]_vars
               PROVE  HeadInv'
    OBVIOUS
  <1>0. /\ RouteInv /\ RouteInv' /\ ShapesOK /\ config' = config
        /\ \A a \in Attempts : HeadOK(attempt[a])
        /\ \A a \in Attempts : LayersOK(attempt[a])
    <2>1. config' = config
      BY DEF Next, vars, Start, Progress, Dial, ProxyTls, WriteConnect, ReadAnswer,
             SocksHandshake, TlsStart, TlsDone, NewSession, Fails, TimesOut, SendRequest, Close
    <2> QED BY <2>1, RouteStep DEF HeadInv, RouteInv
  <1>b. ASSUME \A b \in Attempts : HeadOK(attempt'[b])
        PROVE  HeadInv'
    <2> SUFFICES ASSUME NEW b \in Attempts
                 PROVE  HeadOK(attempt[b])'
      BY <1>0 DEF HeadInv
    <2>1. PICK r : r = attempt'[b]
      OBVIOUS
    <2>2. HeadOK(r)'
      BY <1>0, <1>b, <2>1, HeadSame
    <2> QED BY <2>1, <2>2
  <1>a. ASSUME NEW a \in Attempts, HeadOK(attempt'[a]),
               \A b \in Attempts : b # a => attempt'[b] = attempt[b]
        PROVE  HeadInv'
    BY <1>0, <1>a, <1>b
  <1>1. ASSUME NEW a \in Attempts, NEW d \in Descriptors, Start(a, d)
        PROVE  HeadInv'
    <2>1. HeadOK(attempt'[a])
      BY <1>0, <1>1, StartEffect, IdleShape DEF SameBuffers, HeadOK
    <2> QED BY <1>0, <1>1, <1>a, <2>1, StartEffect
  <1>2. ASSUME NEW a \in Attempts, Dial(a)
        PROVE  HeadInv'
    <2>1. attempt[a].pc = "dial" /\ attempt[a].d \in Descriptors
      BY <1>0, <1>2 DEF Dial, LayersOK
    <2>2. /\ AfterDial(a) \in {"proxytls", "connect", "socks", "tls", "open"}
          /\ AfterDial(a) \in {"tls", "open"} => ~Tunnels(attempt[a].d)
      <3>1. Kind(a) \in {"direct", "unix", "socks", "tunnel", "forward"}
        BY <1>0, <2>1, Routes DEF RouteInv, Kind
      <3>2. /\ Kind(a) = "tunnel" => AfterDial(a) \in {"proxytls", "connect"}
            /\ Kind(a) = "unix" =>
                 AfterDial(a) = IF IsHttps(attempt[a].d.uri) THEN "connect" ELSE "open"
            /\ Kind(a) = "socks" => AfterDial(a) = "socks"
            /\ Kind(a) \in {"direct", "forward"} => AfterDial(a) \in {"tls", "open"}
        BY DEF AfterDial, AfterTunnel
      <3> QED BY <3>1, <3>2 DEF Tunnels, Kind
    <2>3. HeadOK(attempt'[a])
      BY <1>0, <1>2, <2>1, <2>2, DialEffect, HeadKept DEF Became
    <2> QED BY <1>0, <1>2, <1>a, <2>3, DialEffect DEF Became
  <1>3. ASSUME NEW a \in Attempts, ProxyTls(a)
        PROVE  HeadInv'
    <2>1. attempt[a].pc = "proxytls"
      BY <1>3 DEF ProxyTls
    <2>2. HeadOK(attempt'[a])
      BY <1>0, <1>3, <2>1, ProxyTlsEffect, HeadKept DEF Became
    <2> QED BY <1>0, <1>3, <1>a, <2>2, ProxyTlsEffect DEF Became
  <1>4. ASSUME NEW a \in Attempts, NEW answer \in Answers, WriteConnect(a, answer)
        PROVE  HeadInv'
    <2>1. /\ attempt'[a].pc = "answer" /\ attempt'[a].unread = answer
          /\ attempt'[a].buf = <<>>
      BY <1>0, <1>4, WriteConnectEffect DEF WriteConnect, HeadOK, Became
    <2>2. answer \in Seq(STRING) /\ HeadFirst(answer)
      BY AnswersAssumption DEF HeadFirst
    <2>3. <<>> \in Seq(STRING) /\ <<>> \o answer = answer
      BY <2>2, ConcatEmptySeq
    <2>4. HeadOK(attempt'[a])
      BY <2>1, <2>2, <2>3 DEF HeadOK
    <2> QED BY <1>0, <1>4, <1>a, <2>4, WriteConnectEffect DEF Became
  <1>g. ASSUME NEW a \in Attempts, Gone(a)
        PROVE  HeadInv'
    <2>1. HeadOK(attempt'[a])
      BY <1>g, IdleShape DEF Gone, HeadOK
    <2> QED BY <1>a, <1>g, <2>1 DEF Gone
  <1>5. ASSUME NEW a \in Attempts, NEW n \in 0 .. Len(attempt[a].unread), ReadAnswer(a, n)
        PROVE  HeadInv'
    <2> DEFINE b == attempt[a].buf \o SubSeq(attempt[a].unread, 1, n)
               u == SubSeq(attempt[a].unread, n + 1, Len(attempt[a].unread))
    <2>1. b \in Seq(STRING) /\ u \in Seq(STRING) /\ HeadFirst(b \o u)
      <3>1. /\ attempt[a].buf \in Seq(STRING) /\ attempt[a].unread \in Seq(STRING)
            /\ HeadFirst(attempt[a].buf \o attempt[a].unread)
        BY <1>0, <1>5 DEF ReadAnswer, HeadOK
      <3> QED BY <1>5, <3>1, Cut
    <2>2. CASE ReadMore(a, n)
      <3>1. attempt'[a].pc = "answer" /\ attempt'[a].buf = b /\ attempt'[a].unread = u
        BY <2>2 DEF ReadMore, Became
      <3> HIDE DEF b, u
      <3>2. HeadOK(attempt'[a])
        BY <2>1, <3>1 DEF HeadOK
      <3> QED BY <1>a, <2>2, <3>2 DEF ReadMore, Became
    <2>3. CASE ReadOpens(a, n)
      <3>1. /\ attempt'[a].pc = AfterTunnel(a) /\ attempt'[a].unread = u
            /\ attempt'[a].buf = b /\ Parse(b) = "200"
        BY <2>3 DEF ReadOpens, Became
      <3>2. AfterTunnel(a) \in {"tls", "open"}
        BY DEF AfterTunnel
      <3> HIDE DEF b, u
      <3>3. b[1] = "200" /\ \E i \in DOMAIN b : b[i] = "end"
        <4>1. Head(b) = "200" /\ \E i \in DOMAIN b : b[i] = "end"
          BY <3>1 DEF Parse
        <4> QED BY <2>1, <4>1
      <3>e. b # <<>>
        BY <3>3
      <3>4. HeadOK(attempt'[a])
        <4>1. \A j \in DOMAIN u : u[j] = "x"
          BY <2>1, <3>3, AfterHead
        <4> QED BY <3>1, <3>2, <3>3, <3>e, <4>1 DEF HeadOK
      <3> QED BY <1>a, <2>3, <3>4 DEF ReadOpens, Became
    <2> QED BY <1>0, <1>5, <1>g, <2>2, <2>3, ReadEffect
  <1>6. ASSUME NEW a \in Attempts, SocksHandshake(a)
        PROVE  HeadInv'
    <2>1. /\ attempt[a].pc = "socks" /\ AfterTunnel(a) \in {"tls", "open"}
          /\ ~Tunnels(attempt[a].d)
      BY <1>0, <1>6 DEF SocksHandshake, AfterTunnel, LayersOK, Tunnels
    <2>2. HeadOK(attempt'[a])
      BY <1>0, <1>6, <2>1, SocksEffect, HeadKept DEF Became
    <2> QED BY <1>0, <1>6, <1>a, <2>2, SocksEffect DEF Became
  <1>7. ASSUME NEW a \in Attempts, TlsStart(a)
        PROVE  HeadInv'
    <2>1. attempt[a].pc = "tls"
      BY <1>7 DEF TlsStart
    <2>2. HeadOK(attempt'[a])
      BY <1>0, <1>7, <2>1, TlsStartEffect, HeadKept DEF Became
    <2> QED BY <1>0, <1>7, <1>a, <2>2, TlsStartEffect DEF Became
  <1>8. ASSUME NEW a \in Attempts, NEW protocol, TlsDone(a, protocol)
        PROVE  HeadInv'
    <2>1. attempt[a].pc = "handshake"
      BY <1>8 DEF TlsDone
    <2>2. HeadOK(attempt'[a])
      BY <1>0, <1>8, <2>1, TlsDoneEffect, HeadKept DEF Became
    <2> QED BY <1>0, <1>8, <1>a, <2>2, TlsDoneEffect DEF Became
  <1>9. ASSUME NEW a \in Attempts, Fails(a) \/ TimesOut(a) \/ Close(a)
        PROVE  HeadInv'
    <2>1. attempt' = [attempt EXCEPT ![a] = Idle]
      BY <1>9 DEF Fails, TimesOut, Close
    <2> QED BY <1>0, <1>g, <2>1, StepGone
  <1>10. CASE UNCHANGED attempt
    BY <1>0, <1>10, <1>b
  <1>11. CASE \E a \in Attempts : \/ \E s \in SessionIds, tls13 \in BOOLEAN :
                                         NewSession(a, s, tls13)
                                  \/ \E d \in Descriptors : SendRequest(a, d)
    BY <1>10, <1>11 DEF NewSession, SendRequest
  <1>12. CASE UNCHANGED vars
    BY <1>10, <1>12 DEF vars
  <1> QED
    BY <1>1, <1>2, <1>3, <1>4, <1>5, <1>6, <1>7, <1>8, <1>9, <1>11, <1>12 DEF Next, Progress

LEMMA HeadInit == Init => HeadInv
  <1> SUFFICES ASSUME Init
               PROVE  HeadInv
    OBVIOUS
  <1>1. \A a \in Attempts : attempt[a] = Idle
    BY DEF Init
  <1> QED BY <1>1, IdleShape, RouteInit DEF HeadInv, HeadOK

\* However a proxy's answer to CONNECT is cut into reads, of whatever length
\* and with whatever follows it: where a target is reached through a tunnel, a
\* head that starts with 200 was read to its empty line first, and none of it is
\* left to be read (tunnel in conn/proxy/tunnel.rs).
THEOREM TunnelHeadIsConsumed == Spec => []TunnelHeadConsumed
  <1>1. HeadInv => TunnelHeadConsumed
    BY DEF HeadInv, HeadOK, TunnelHeadConsumed, Tunnels, Kind
  <1>2. Init => HeadInv
    BY HeadInit
  <1>3. HeadInv /\ [Next]_vars => HeadInv'
    BY HeadStep
  <1> QED BY <1>1, <1>2, <1>3, PTL DEF Spec

-----------------------------------------------------------------------------
(* The TLS session cache.                                                  *)

\* A list of the cache: no two sessions of one id, each issued where the TLS of
\* the connections of that key ends.
ListOK(l, key) ==
    /\ l \in Seq(Range(l)) /\ IsInjective(l)
    /\ \A s, t \in Range(l) : s.id = t.id => s = t
    /\ \A s \in Range(l) : s.issuer = TlsEnd(key)

\* Only ids that peers gave to connections of two keys escape the reverse map.
EntryOK(s, key) ==
    /\ s.id \in SessionIds /\ key \in given[s.id]
    /\ ~Shared(s.id) => s.id \in DOMAIN reverse

CacheInv ==
    /\ given = [s \in SessionIds |-> given[s]]
    /\ \A key \in DOMAIN perHost :
          /\ ListOK(perHost[key], key)
          /\ \A s \in Range(perHost[key]) : EntryOK(s, key)
    /\ \A s \in DOMAIN reverse : s \in SessionIds /\ reverse[s] \in given[s]
    /\ \A s \in spent : ~Shared(s) => s \notin DOMAIN reverse

OfferOK(a) ==
    attempt[a].offered # None => attempt[a].offered.issuer = TlsEnd(attempt[a].d)

SessionInv == RouteInv /\ CacheInv /\ \A a \in Attempts : OfferOK(a)

LEMMA SameEnd ==
    ASSUME UNCHANGED config
    PROVE  \A d : TlsEnd(d)' = TlsEnd(d)
  BY SameRoute DEF TlsEnd

LEMMA EndOfId ==
    ASSUME NEW d
    PROVE  TlsEnd(id(d)) = TlsEnd(d)
  <1>1. id(d).uri = d.uri /\ id(d).proxy = d.proxy
    BY DEF id
  <1>2. intercept_for(id(d)) = intercept_for(d)
    BY <1>1 DEF intercept_for
  <1>3. RouteKind(id(d)) = RouteKind(d)
    BY <1>1, <1>2 DEF RouteKind
  <1> QED BY <1>1, <1>2, <1>3 DEF TlsEnd

LEMMA Listed ==
    ASSUME CacheInv, NEW key
    PROVE  ListOK(Sessions(key), key) /\ \A s \in Range(Sessions(key)) : EntryOK(s, key)
  <1>1. CASE key \in DOMAIN perHost
    <2>1. Sessions(key) = perHost[key]
      BY <1>1 DEF Sessions
    <2> QED BY <1>1, <2>1 DEF CacheInv
  <1>2. CASE key \notin DOMAIN perHost
    <2>1. Sessions(key) = <<>>
      BY <1>2 DEF Sessions
    <2>2. <<>> \in Seq({}) /\ IsInjective(<<>>) /\ Range(<<>>) = {}
      BY EmptySeq DEF IsInjective, Range
    <2> QED BY <2>1, <2>2 DEF ListOK
  <1> QED BY <1>1, <1>2

\* The list of one key is replaced.
LEMMA ListReplaced ==
    ASSUME NEW key, NEW l, perHost' = SetSessions(key, l), NEW k \in DOMAIN perHost'
    PROVE  \/ k = key /\ perHost'[k] = l
           \/ k # key /\ k \in DOMAIN perHost /\ perHost'[k] = perHost[k]
  BY DEF SetSessions

LEMMA SameList ==
    ASSUME config' = config, NEW l, NEW key
    PROVE  ListOK(l, key)' <=> ListOK(l, key)
  <1>1. TlsEnd(key)' = TlsEnd(key)
    BY SameEnd
  <1> QED BY <1>1 DEF ListOK

\* Taking s out of a list leaves nothing of its id.
LEMMA TakenOut ==
    ASSUME NEW l, NEW key, ListOK(l, key), NEW s
    PROVE  /\ ListOK(Without(l, s), key)
           /\ Range(Without(l, s)) = Range(l) \ {Stored(l, s)}
           /\ \A t \in Range(Without(l, s)) : t.id # s.id
           /\ \/ Stored(l, s) \in Range(l) /\ Stored(l, s).id = s.id
              \/ Stored(l, s) = s
  <1> DEFINE st == Stored(l, s)
             w == RemoveFirst(l, st)
  <1>1. \/ st \in Range(l) /\ st.id = s.id
        \/ st = s /\ \A t \in Range(l) : t.id # s.id
    <2>1. CASE \E i \in DOMAIN l : l[i].id = s.id
      <3>1. PICK i \in DOMAIN l : st = l[i] /\ l[i].id = s.id
        BY <2>1 DEF Stored
      <3> QED BY <3>1 DEF Range
    <2>2. CASE ~(\E i \in DOMAIN l : l[i].id = s.id)
      BY <2>2 DEF Stored, Range
    <2> QED BY <2>1, <2>2
  <1> HIDE DEF st
  <1>2. /\ w \in Seq(Range(l)) /\ IsInjective(w) /\ Range(w) = Range(l) \ {st}
    BY QueueLeft DEF ListOK
  <1> HIDE DEF w
  <1>3. w \in Seq(Range(w))
    BY <1>2, SeqOfRange
  <1>4. \A t \in Range(w) : t.id # s.id
    BY <1>1, <1>2 DEF ListOK
  <1>5. ListOK(w, key)
    BY <1>2, <1>3 DEF ListOK
  <1> QED BY <1>1, <1>2, <1>4, <1>5 DEF st, w, Without

\* Renewing s leaves one session of its id, and the others as they are.
LEMMA Renewed ==
    ASSUME NEW l, NEW key, ListOK(l, key), NEW s, s.issuer = TlsEnd(key)
    PROVE  /\ ListOK(Renew(l, s), key)
           /\ \A t \in Range(Renew(l, s)) : t.id = s.id \/ t \in Range(l)
  <1> DEFINE st == Stored(l, s)
             w == Without(l, s)
             S == Range(l) \cup {s}
             new == Append(w, st)
  <1>1. /\ ListOK(w, key) /\ Range(w) = Range(l) \ {st}
        /\ \A t \in Range(w) : t.id # s.id
        /\ \/ st \in Range(l) /\ st.id = s.id
           \/ st = s
    BY TakenOut
  <1> HIDE DEF st, w
  <1>2. st \in S /\ st.id = s.id /\ st.issuer = TlsEnd(key) /\ st \notin Range(w)
    BY <1>1 DEF ListOK
  <1>3. w \in Seq(S) /\ IsInjective(w)
    <2>1. w \in Seq(Range(w)) /\ Range(w) \subseteq S /\ IsInjective(w)
      BY <1>1 DEF ListOK
    <2> QED BY <2>1, SeqMonotonic
  <1> HIDE DEF S
  <1>4. new \in Seq(S) /\ IsInjective(new) /\ Range(new) = Range(w) \cup {st}
    BY <1>2, <1>3, QueueJoined
  <1> HIDE DEF new
  <1>5. new \in Seq(Range(new))
    BY <1>4, SeqOfRange
  <1>6. ListOK(new, key)
    BY <1>1, <1>2, <1>4, <1>5 DEF ListOK
  <1>7. \A t \in Range(new) : t.id = s.id \/ t \in Range(l)
    BY <1>1, <1>2, <1>4
  <1> QED BY <1>6, <1>7 DEF new, w, st, Renew

\* A list without its head, which LruCache throws out.
LEMMA MadeRoom ==
    ASSUME NEW l, NEW key, ListOK(l, key), l # <<>>
    PROVE  /\ ListOK(Tail(l), key) /\ Head(l) \in Range(l)
           /\ \A t \in Range(Tail(l)) : t \in Range(l) /\ t.id # Head(l).id
  <1>1. Head(l) \in Range(l)
    <2>1. l \in Seq(Range(l))
      BY DEF ListOK
    <2>2. 1 \in DOMAIN l /\ Head(l) = l[1]
      BY <2>1
    <2> QED BY <2>2 DEF Range
  <1>2. /\ Tail(l) \in Seq(Range(l)) /\ IsInjective(Tail(l))
        /\ Range(Tail(l)) = Range(l) \ {Head(l)}
    BY QueueUnlocked DEF ListOK
  <1>3. Tail(l) \in Seq(Range(Tail(l)))
    BY <1>2, SeqOfRange
  <1>4. ListOK(Tail(l), key)
    BY <1>2, <1>3 DEF ListOK
  <1> QED BY <1>1, <1>2, <1>4 DEF ListOK

\* Whatever id the peer chose, one of another key's sessions or one of this
\* key's, the session it issues is put into the cache.
LEMMA PutKeeps ==
    ASSUME CacheInv, config' = config, NEW key, NEW session, put(key, session),
           session.id \in SessionIds, session.issuer = TlsEnd(key),
           given' = [given EXCEPT ![session.id] = @ \cup {key}],
           spent' = spent \ {session.id}
    PROVE  CacheInv'
  <1> DEFINE l == Sessions(key)
             full == Len(l) >= Capacity /\ l # <<>>
             kept == IF full THEN Tail(l) ELSE l
             evicted == IF full THEN {Head(l).id} ELSE {}
             new == Renew(kept, session)
  <1>1. /\ perHost' = SetSessions(key, new)
        /\ reverse' = [s \in (DOMAIN reverse \ evicted) \cup {session.id} |->
                          IF s = session.id THEN key ELSE reverse[s]]
    BY DEF put
  <1>2. ListOK(l, key) /\ \A s \in Range(l) : EntryOK(s, key)
    BY Listed
  <1> HIDE DEF l
  <1>3. /\ ListOK(kept, key)
        /\ \A t \in Range(kept) : t \in Range(l) /\ t.id \notin evicted
        /\ \A i \in evicted : \E t \in Range(l) : t.id = i
    BY <1>2, MadeRoom
  <1> HIDE DEF kept, evicted, full
  <1>4. /\ ListOK(new, key)
        /\ \A t \in Range(new) : t.id = session.id \/ t \in Range(kept)
    BY <1>3, Renewed
  <1> HIDE DEF new
  <1>5. /\ given' = [s \in SessionIds |-> given'[s]]
        /\ given'[session.id] = given[session.id] \cup {key}
        /\ \A s \in SessionIds : given[s] \subseteq given'[s]
    BY DEF CacheInv
  <1>6. \A s \in SessionIds : Shared(s) => Shared(s)'
    BY <1>5 DEF Shared
  <1>7. /\ session.id \in DOMAIN reverse' /\ reverse'[session.id] = key
        /\ \A s : s \in DOMAIN reverse' <=>
                    s = session.id \/ (s \in DOMAIN reverse /\ s \notin evicted)
        /\ \A s \in DOMAIN reverse' : s # session.id => reverse'[s] = reverse[s]
    BY <1>1
  <1>8. ASSUME NEW k \in DOMAIN perHost'
        PROVE  ListOK(perHost'[k], k) /\ \A s \in Range(perHost'[k]) : EntryOK(s, k)'
    <2>1. CASE k = key /\ perHost'[k] = new
      <3>1. ASSUME NEW s \in Range(new)
            PROVE  EntryOK(s, key)'
        <4>1. CASE s.id = session.id
          <5>1. session.id \in SessionIds /\ key \in given'[session.id]
            BY <1>5
          <5> QED BY <1>7, <4>1, <5>1 DEF EntryOK
        <4>2. CASE s.id # session.id
          <5>1. s \in Range(l) /\ s.id \notin evicted
            BY <1>3, <1>4, <3>1, <4>2
          <5>2. EntryOK(s, key)
            BY <1>2, <5>1
          <5> QED BY <1>5, <1>6, <1>7, <5>1, <5>2 DEF EntryOK
        <4> QED BY <4>1, <4>2
      <3> QED BY <1>4, <2>1, <3>1
    <2>2. CASE k # key /\ k \in DOMAIN perHost /\ perHost'[k] = perHost[k]
      <3>1. ListOK(perHost[k], k) /\ \A s \in Range(perHost[k]) : EntryOK(s, k)
        BY <2>2 DEF CacheInv
      <3>2. ASSUME NEW s \in Range(perHost[k])
            PROVE  EntryOK(s, k)'
        <4>1. EntryOK(s, k)
          BY <3>1
        <4>2. s.id \in SessionIds /\ k \in given'[s.id]
          BY <1>5, <4>1 DEF EntryOK
        <4>3. s.id \in evicted => Shared(s.id)
          <5> SUFFICES ASSUME s.id \in evicted
                       PROVE  Shared(s.id)
            OBVIOUS
          <5>1. key \in given[s.id]
            BY <1>2, <1>3 DEF EntryOK
          <5> QED BY <2>2, <4>1, <5>1 DEF EntryOK, Shared
        <4>4. ~Shared(s.id)' => s.id \in DOMAIN reverse'
          BY <1>6, <1>7, <4>1, <4>2, <4>3 DEF EntryOK
        <4> QED BY <4>2, <4>4 DEF EntryOK
      <3> QED BY <2>2, <3>1, <3>2
    <2> QED BY <1>1, <1>8, <2>1, <2>2, ListReplaced
  <1>9. ASSUME NEW k \in DOMAIN perHost'
        PROVE  ListOK(perHost[k], k)'
    <2>1. PICK p : p = perHost'[k]
      OBVIOUS
    <2>2. ListOK(p, k)'
      BY <1>8, <1>9, <2>1, SameList
    <2> QED BY <2>1, <2>2
  <1>10. ASSUME NEW s \in DOMAIN reverse'
         PROVE  s \in SessionIds /\ reverse'[s] \in given'[s]
    <2>1. CASE s = session.id
      BY <1>5, <1>7, <2>1
    <2>2. CASE s # session.id
      BY <1>5, <1>7, <1>10, <2>2 DEF CacheInv
    <2> QED BY <2>1, <2>2
  <1>11. ASSUME NEW s \in spent', ~Shared(s)'
         PROVE  s \notin DOMAIN reverse'
    <2>1. s \in spent /\ s # session.id
      BY <1>11
    <2>2. s \in DOMAIN reverse => s \in SessionIds
      BY DEF CacheInv
    <2> QED BY <1>6, <1>7, <1>11, <2>1, <2>2 DEF CacheInv
  <1> QED BY <1>5, <1>8, <1>9, <1>10, <1>11 DEF CacheInv

\* The session pop hands out was issued where its key's connections end; of TLS
\* 1.3, it is gone from the maps, unless its id is shared.
LEMMA PopKeeps ==
    ASSUME CacheInv, config' = config, given' = given, NEW key, pop(key),
           spent' = spent \cup (IF Sessions(key) # <<>> /\ Head(Sessions(key)).tls13
                                THEN {Head(Sessions(key)).id} ELSE {})
    PROVE  CacheInv' /\ (Sessions(key) # <<>> => Head(Sessions(key)).issuer = TlsEnd(key))
  <1> DEFINE l == Sessions(key)
             s == Head(l)
             taken == l # <<>> /\ s.tls13 /\ s.id \in DOMAIN reverse
  <1>1. /\ taken => /\ perHost' = SetSessions(reverse[s.id],
                                              Without(Sessions(reverse[s.id]), s))
                    /\ reverse' = [r \in DOMAIN reverse \ {s.id} |-> reverse[r]]
        /\ ~taken => perHost' = perHost /\ reverse' = reverse
    BY DEF pop
  <1>2. spent' \subseteq spent \cup {s.id} /\ (spent' # spent => l # <<>> /\ s.tls13)
    OBVIOUS
  <1>3. ListOK(l, key) /\ \A t \in Range(l) : EntryOK(t, key)
    BY Listed
  <1> HIDE DEF l
  <1>4. l # <<>> => s.issuer = TlsEnd(key)
    BY <1>3, MadeRoom DEF ListOK
  <1> HIDE DEF s
  <1>5. \A t : Shared(t)' <=> Shared(t)
    BY DEF Shared
  <1>6. CASE ~taken
    <2>1. perHost' = perHost /\ reverse' = reverse
      BY <1>1, <1>6
    <2>2. ASSUME NEW k \in DOMAIN perHost'
          PROVE  ListOK(perHost[k], k)'
      <3>1. PICK p : p = perHost'[k]
        OBVIOUS
      <3>2. ListOK(p, k)'
        BY <2>1, <2>2, <3>1, SameList DEF CacheInv
      <3> QED BY <3>1, <3>2
    <2>3. ASSUME NEW k \in DOMAIN perHost', NEW t \in Range(perHost'[k])
          PROVE  EntryOK(t, k)'
      BY <1>5, <2>1, <2>3 DEF CacheInv, EntryOK
    <2>4. ASSUME NEW t \in spent', ~Shared(t)'
          PROVE  t \notin DOMAIN reverse'
      BY <1>2, <1>5, <1>6, <2>1, <2>4 DEF CacheInv
    <2>5. CacheInv'
      BY <2>1, <2>2, <2>3, <2>4 DEF CacheInv
    <2> QED BY <1>4, <2>5 DEF l, s
  <1>7. CASE taken
    <2>0. PICK home : home = reverse[s.id]
      OBVIOUS
    <2> DEFINE h == Sessions(home)
               new == Without(h, s)
    <2>1. /\ perHost' = SetSessions(home, new)
          /\ reverse' = [r \in DOMAIN reverse \ {s.id} |-> reverse[r]]
          /\ s.id \in DOMAIN reverse
      BY <1>1, <1>7, <2>0
    <2>2. ListOK(h, home) /\ \A t \in Range(h) : EntryOK(t, home)
      BY Listed
    <2>3. s.id \in SessionIds /\ home \in given[s.id]
      BY <2>0, <2>1 DEF CacheInv
    <2> HIDE DEF h
    <2>4. /\ ListOK(new, home)
          /\ \A t \in Range(new) : t \in Range(h) /\ t.id # s.id
      BY <2>2, TakenOut
    <2> HIDE DEF new
    <2>5. ASSUME NEW k \in DOMAIN perHost'
          PROVE  ListOK(perHost'[k], k) /\ \A t \in Range(perHost'[k]) : EntryOK(t, k)'
      <3>1. CASE k = home /\ perHost'[k] = new
        <4>1. ASSUME NEW t \in Range(new)
              PROVE  EntryOK(t, home)'
          <5>1. EntryOK(t, home) /\ t.id # s.id
            BY <2>2, <2>4, <4>1
          <5> QED BY <1>5, <2>1, <5>1 DEF EntryOK
        <4> QED BY <2>4, <3>1, <4>1
      <3>2. CASE k # home /\ k \in DOMAIN perHost /\ perHost'[k] = perHost[k]
        <4>1. ListOK(perHost[k], k) /\ \A t \in Range(perHost[k]) : EntryOK(t, k)
          BY <3>2 DEF CacheInv
        <4>2. ASSUME NEW t \in Range(perHost[k])
              PROVE  EntryOK(t, k)'
          <5>1. EntryOK(t, k)
            BY <4>1
          <5>2. t.id = s.id => Shared(t.id)
            BY <2>3, <3>2, <5>1 DEF EntryOK, Shared
          <5> QED BY <1>5, <2>1, <5>1, <5>2 DEF EntryOK
        <4> QED BY <3>2, <4>1, <4>2
      <3> QED BY <2>1, <2>5, <3>1, <3>2, ListReplaced
    <2>6. ASSUME NEW k \in DOMAIN perHost'
          PROVE  ListOK(perHost[k], k)'
      <3>1. PICK p : p = perHost'[k]
        OBVIOUS
      <3>2. ListOK(p, k)'
        BY <2>5, <2>6, <3>1, SameList
      <3> QED BY <3>1, <3>2
    <2>7. \A t \in DOMAIN reverse' : t \in SessionIds /\ reverse'[t] \in given'[t]
      BY <2>1 DEF CacheInv
    <2>8. ASSUME NEW t \in spent', ~Shared(t)'
          PROVE  t \notin DOMAIN reverse'
      BY <1>2, <1>5, <2>1, <2>8 DEF CacheInv
    <2>9. given' = [t \in SessionIds |-> given'[t]]
      BY DEF CacheInv
    <2>10. CacheInv'
      BY <2>5, <2>6, <2>7, <2>8, <2>9 DEF CacheInv
    <2> QED BY <1>4, <2>10 DEF l, s
  <1> QED BY <1>6, <1>7

LEMMA CacheSame ==
    ASSUME CacheInv, config' = config, UNCHANGED <<perHost, reverse, given, spent>>
    PROVE  CacheInv'
  <1>1. \A t : Shared(t)' <=> Shared(t)
    BY DEF Shared
  <1>2. ASSUME NEW k \in DOMAIN perHost'
        PROVE  ListOK(perHost[k], k)'
    <2>1. PICK p : p = perHost'[k]
      OBVIOUS
    <2>2. ListOK(p, k)'
      BY <1>2, <2>1, SameList DEF CacheInv
    <2> QED BY <2>1, <2>2
  <1>3. ASSUME NEW k \in DOMAIN perHost', NEW t \in Range(perHost'[k])
        PROVE  EntryOK(t, k)'
    BY <1>1, <1>3 DEF CacheInv, EntryOK
  <1> QED BY <1>1, <1>2, <1>3 DEF CacheInv

\* OfferOK of the next state, TLS ending where it did.
NextOffer(a) ==
    attempt'[a].offered # None => attempt'[a].offered.issuer = TlsEnd(attempt'[a].d)

LEMMA OfferNext ==
    ASSUME config' = config, NEW a, NextOffer(a)
    PROVE  OfferOK(a)'
  <1>1. PICK d : d = attempt'[a].d
    OBVIOUS
  <1>2. TlsEnd(d)' = TlsEnd(d)
    BY SameEnd
  <1>3. TlsEnd(attempt[a].d)' = TlsEnd(attempt'[a].d)
    BY <1>1, <1>2
  <1> QED BY <1>3 DEF NextOffer, OfferOK

LEMMA SessionStep == SessionInv /\ [Next]_vars => SessionInv'
  <1> SUFFICES ASSUME SessionInv, [Next]_vars
               PROVE  SessionInv'
    OBVIOUS
  <1>0. /\ config' = config /\ RouteInv /\ RouteInv' /\ ShapesOK /\ CacheInv
        /\ \A a \in Attempts : OfferOK(a)
    <2>1. config' = config
      BY DEF Next, vars, Start, Progress, Dial, ProxyTls, WriteConnect, ReadAnswer,
             SocksHandshake, TlsStart, TlsDone, NewSession, Fails, TimesOut, SendRequest, Close
    <2> QED BY <2>1, RouteStep DEF SessionInv, RouteInv
  \* A step that takes at most one session, for the attempt a.
  <1>a. ASSUME NEW a \in Attempts, CacheInv', NextOffer(a),
               \A b \in Attempts : b # a => attempt'[b] = attempt[b]
        PROVE  SessionInv'
    <2>1. ASSUME NEW b \in Attempts
          PROVE  OfferOK(b)'
      <3>1. NextOffer(b)
        BY <1>0, <1>a DEF OfferOK, NextOffer
      <3> QED BY <1>0, <3>1, OfferNext
    <2> QED BY <1>0, <1>a, <2>1 DEF SessionInv
  \* A step of the attempt a that leaves the cache alone.
  <1>c. ASSUME NEW a \in Attempts, UNCHANGED cache,
               \/ attempt'[a].offered = None
               \/ attempt'[a].offered = attempt[a].offered /\ attempt'[a].d = attempt[a].d,
               \A b \in Attempts : b # a => attempt'[b] = attempt[b]
        PROVE  SessionInv'
    <2>1. CacheInv'
      BY <1>0, <1>c, CacheSame DEF cache
    <2>2. NextOffer(a)
      BY <1>0, <1>c DEF OfferOK, NextOffer
    <2> QED BY <1>a, <1>c, <2>1, <2>2
  <1>1. ASSUME NEW a \in Attempts, NEW d \in Descriptors, Start(a, d)
        PROVE  SessionInv'
    <2>1. UNCHANGED cache
      BY <1>1 DEF Start
    <2> QED BY <1>0, <1>1, <1>c, <2>1, StartEffect
  <1>2. ASSUME NEW a \in Attempts, Dial(a)
        PROVE  SessionInv'
    <2>1. UNCHANGED cache
      BY <1>2 DEF Dial
    <2> QED BY <1>0, <1>2, <1>c, <2>1, DialEffect DEF Became
  <1>3. ASSUME NEW a \in Attempts, ProxyTls(a)
        PROVE  SessionInv'
    <2>1. UNCHANGED cache
      BY <1>3 DEF ProxyTls
    <2> QED BY <1>0, <1>3, <1>c, <2>1, ProxyTlsEffect DEF Became
  <1>4. ASSUME NEW a \in Attempts, NEW answer \in Answers, WriteConnect(a, answer)
        PROVE  SessionInv'
    <2>1. UNCHANGED cache
      BY <1>4 DEF WriteConnect
    <2> QED BY <1>0, <1>4, <1>c, <2>1, WriteConnectEffect DEF Became
  <1>g. ASSUME NEW a \in Attempts, Gone(a), UNCHANGED cache
        PROVE  SessionInv'
    BY <1>c, <1>g, IdleShape DEF Gone
  <1>5. ASSUME NEW a \in Attempts, NEW n, ReadAnswer(a, n)
        PROVE  SessionInv'
    <2>1. UNCHANGED cache
      BY <1>5 DEF ReadAnswer
    <2>2. CASE ReadMore(a, n)
      BY <1>c, <2>1, <2>2 DEF ReadMore, Became
    <2>3. CASE ReadOpens(a, n)
      BY <1>c, <2>1, <2>3 DEF ReadOpens, Became
    <2> QED BY <1>0, <1>5, <1>g, <2>1, <2>2, <2>3, ReadEffect
  <1>6. ASSUME NEW a \in Attempts, SocksHandshake(a)
        PROVE  SessionInv'
    <2>1. UNCHANGED cache
      BY <1>6 DEF SocksHandshake
    <2> QED BY <1>0, <1>6, <1>c, <2>1, SocksEffect DEF Became
  <1>7. ASSUME NEW a \in Attempts, TlsStart(a)
        PROVE  SessionInv'
    <2> DEFINE d == attempt[a].d
               key == id(d)
               s == Head(Sessions(key))
               use == TlsFor(d).psk /\ Sessions(key) # <<>>
    <2>1. /\ given' = given
          /\ TlsFor(d).psk => pop(key)
          /\ ~TlsFor(d).psk => UNCHANGED <<perHost, reverse>>
          /\ spent' = spent \cup (IF use /\ s.tls13 THEN {s.id} ELSE {})
      BY <1>7 DEF TlsStart
    <2>2. /\ attempt'[a].d = d /\ attempt'[a].offered = IF use THEN s ELSE None
          /\ \A b \in Attempts : b # a => attempt'[b] = attempt[b]
      BY <1>0, <1>7, TlsStartEffect DEF Became
    <2>3. CacheInv' /\ (use => s.issuer = TlsEnd(key))
      <3>1. CASE TlsFor(d).psk
        <4>1. /\ pop(key)
              /\ spent' = spent \cup (IF Sessions(key) # <<>> /\ s.tls13 THEN {s.id} ELSE {})
          BY <2>1, <3>1
        <4> HIDE DEF key
        <4> QED BY <1>0, <2>1, <4>1, PopKeeps
      <3>2. CASE ~TlsFor(d).psk
        <4>1. ~use
          BY <3>2
        <4>2. UNCHANGED <<perHost, reverse, given, spent>>
          BY <2>1, <3>2, <4>1
        <4> QED BY <1>0, <4>1, <4>2, CacheSame
      <3> QED BY <3>1, <3>2
    <2>4. TlsEnd(key) = TlsEnd(d)
      BY EndOfId
    <2> HIDE DEF s, use, key, d
    <2>5. NextOffer(a)
      BY <2>2, <2>3, <2>4 DEF NextOffer
    <2> QED BY <1>a, <2>2, <2>3, <2>5
  <1>8. ASSUME NEW a \in Attempts, NEW protocol, TlsDone(a, protocol)
        PROVE  SessionInv'
    <2>1. UNCHANGED cache
      BY <1>8 DEF TlsDone
    <2> QED BY <1>0, <1>8, <1>c, <2>1, TlsDoneEffect DEF Became
  <1>9. ASSUME NEW a \in Attempts, Fails(a) \/ TimesOut(a) \/ Close(a)
        PROVE  SessionInv'
    <2>1. attempt' = [attempt EXCEPT ![a] = Idle] /\ UNCHANGED cache
      BY <1>9 DEF Fails, TimesOut, Close
    <2> QED BY <1>0, <1>g, <2>1, StepGone
  <1>10. ASSUME NEW a \in Attempts, NEW i \in SessionIds, NEW tls13 \in BOOLEAN,
                NewSession(a, i, tls13)
         PROVE  SessionInv'
    <2> DEFINE key == id(attempt[a].d)
               s == [id |-> i, tls13 |-> tls13, issuer |-> TlsHost(a)]
    <2>1. /\ put(key, s) /\ attempt' = attempt
          /\ given' = [given EXCEPT ![i] = @ \cup {key}] /\ spent' = spent \ {i}
      BY <1>10 DEF NewSession
    <2>2. s.id = i /\ s.issuer = TlsEnd(key)
      BY EndOfId DEF TlsHost, TlsEnd, Kind, Via
    <2> HIDE DEF s, key
    <2>3. CacheInv'
      BY <1>0, <2>1, <2>2, PutKeeps
    <2>4. NextOffer(a)
      BY <1>0, <2>1 DEF OfferOK, NextOffer
    <2> QED BY <1>a, <2>1, <2>3, <2>4
  <1>11. CASE UNCHANGED <<attempt, cache>>
    <2>1. CacheInv'
      BY <1>0, <1>11, CacheSame DEF cache
    <2>2. ASSUME NEW b \in Attempts
          PROVE  OfferOK(b)'
      <3>1. NextOffer(b)
        BY <1>0, <1>11 DEF OfferOK, NextOffer
      <3> QED BY <1>0, <3>1, OfferNext
    <2> QED BY <1>0, <2>1, <2>2 DEF SessionInv
  <1>12. CASE \E a \in Attempts, d \in Descriptors : SendRequest(a, d)
    BY <1>11, <1>12 DEF SendRequest
  <1>13. CASE UNCHANGED vars
    BY <1>11, <1>13 DEF vars
  <1> QED
    BY <1>1, <1>2, <1>3, <1>4, <1>5, <1>6, <1>7, <1>8, <1>9, <1>10, <1>12, <1>13
       DEF Next, Progress

LEMMA SessionInit == Init => SessionInv
  <1> SUFFICES ASSUME Init
               PROVE  SessionInv
    OBVIOUS
  <1>1. \A a \in Attempts : attempt[a].offered = None
    BY IdleShape DEF Init
  <1>2. DOMAIN perHost = {} /\ DOMAIN reverse = {} /\ spent = {}
    BY DEF Init
  <1>3. given = [s \in SessionIds |-> given[s]]
    BY DEF Init
  <1> QED BY <1>1, <1>2, <1>3, RouteInit DEF SessionInv, CacheInv, OfferOK

LEMMA SessionCorrect == Spec => []SessionInv
  <1> QED BY SessionInit, SessionStep, PTL DEF Spec

\* Whatever ids peers choose, whatever the capacity and however attempts
\* interleave: a session is offered only where it was issued, and one of TLS 1.3
\* a handshake took is nowhere in the cache until a peer issues it again, unless
\* its id was given to connections of two keys (LruTlsSessionCache in
\* tls/session.rs).
THEOREM SessionsAreWellUsed == Spec => []SessionsWellUsed
  <1>1. SessionInv => SessionsWellUsed
    <2> SUFFICES ASSUME SessionInv
                 PROVE  SessionsWellUsed
      OBVIOUS
    <2>1. CacheInv /\ \A a \in Attempts : OfferOK(a)
      BY DEF SessionInv
    <2>2. \A a \in Attempts : TlsHost(a) = TlsEnd(attempt[a].d)
      BY DEF TlsHost, TlsEnd, Kind, Via
    <2>3. ASSUME NEW s \in spent, ~Shared(s), Cached(s)
          PROVE  FALSE
      <3>1. s \notin DOMAIN reverse
        BY <2>1, <2>3 DEF CacheInv
      <3>2. PICK key, t : key \in DOMAIN perHost /\ t \in Range(perHost[key]) /\ t.id = s
        BY <2>3, <3>1 DEF Cached, Range
      <3>3. EntryOK(t, key)
        BY <2>1, <3>2 DEF CacheInv
      <3> QED BY <2>3, <3>1, <3>2, <3>3 DEF EntryOK
    <2> QED BY <2>1, <2>2, <2>3 DEF SessionsWellUsed, OfferOK
  <1> QED BY <1>1, SessionCorrect, PTL

=============================================================================

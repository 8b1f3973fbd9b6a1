--------------------------- MODULE CookieJarProofs --------------------------
(***************************************************************************)
(* Theorems about CookieJar: where cookies travel, what a plain-http       *)
(* origin can do to a Secure cookie, and what a snapshot keeps.            *)
(***************************************************************************)
EXTENDS CookieJar, FiniteSetTheorems, SequenceTheorems, WellFoundedInduction, TLAPS

-----------------------------------------------------------------------------
(* The order of the cookies of a request.                                  *)

LEMMA PathLenType ==
    ASSUME NEW path, IsPath(path)
    PROVE  PathLen(path) \in Nat /\ Len(path) \in Nat
  <1> DEFINE named == {i \in DOMAIN path : path[i] # ""}
  <1>1. Len(path) \in Nat /\ DOMAIN path = 1 .. Len(path)
    BY LenProperties DEF IsPath, IsSeq
  <1>2. IsFiniteSet(1 .. Len(path))
    BY <1>1, FS_Interval
  <1>3. IsFiniteSet(named)
    BY <1>1, <1>2, FS_Subset
  <1>4. Cardinality(named) \in Nat
    BY <1>3, FS_CardinalityType
  <1> HIDE DEF named
  <1>5. PathLen(path) = Len(path) + Cardinality(named)
    BY DEF PathLen, named
  <1> QED BY <1>1, <1>4, <1>5

\* Cookies with places of their own in the creation order.
Ordered(jar, keys) ==
    /\ \A k \in keys : IsPath(k.path) /\ jar[k].index \in Nat
    /\ \A j, k \in keys : jar[j].index = jar[k].index => j = k

LEMMA BeforeTotal ==
    ASSUME NEW jar, NEW keys, Ordered(jar, keys)
    PROVE  /\ \A k \in keys : ~Before(jar, k, k)
           /\ \A j, k \in keys : j # k => Before(jar, j, k) \/ Before(jar, k, j)
           /\ \A i, j, k \in keys : Before(jar, i, j) /\ Before(jar, j, k) => Before(jar, i, k)
  <1>1. \A k \in keys : PathLen(k.path) \in Nat /\ jar[k].index \in Nat
    BY PathLenType DEF Ordered
  <1>2. \A j, k \in keys : jar[j].index = jar[k].index => j = k
    BY DEF Ordered
  <1> QED BY <1>1, <1>2 DEF Before, Older

\* A strict order of keys, as a set of pairs.
IsOrder(keys, R) ==
    /\ \A k \in keys : <<k, k>> \notin R
    /\ \A j, k \in keys : j # k => <<j, k>> \in R \/ <<k, j>> \in R
    /\ \A i, j, k \in keys : <<i, j>> \in R /\ <<j, k>> \in R => <<i, k>> \in R

Rank(keys, R, k) == Cardinality({j \in keys : <<j, k>> \in R})

\* Ranks follow the order, and every one up to the number of keys is taken.
LEMMA Ranks ==
    ASSUME NEW keys, IsFiniteSet(keys), NEW R, IsOrder(keys, R)
    PROVE  /\ Cardinality(keys) \in Nat
           /\ \A k \in keys : 1 + Rank(keys, R, k) \in 1 .. Cardinality(keys)
                              /\ Rank(keys, R, k) \in Nat
           /\ \A j, k \in keys : <<j, k>> \in R <=> Rank(keys, R, j) < Rank(keys, R, k)
           /\ \A j, k \in keys : j # k => Rank(keys, R, j) # Rank(keys, R, k)
           /\ \A i \in 1 .. Cardinality(keys) : \E k \in keys : 1 + Rank(keys, R, k) = i
  <1> DEFINE P(k) == {j \in keys : <<j, k>> \in R}
             n == Cardinality(keys)
             f == [k \in keys |-> 1 + Cardinality(P(k))]
  <1>1. n \in Nat /\ IsFiniteSet(1 .. n) /\ Cardinality(1 .. n) = n
    BY FS_CardinalityType, FS_Interval
  <1>2. ASSUME NEW k \in keys
        PROVE  /\ IsFiniteSet(P(k)) /\ Cardinality(P(k)) \in Nat
               /\ 1 + Cardinality(P(k)) \in 1 .. n
    <2>1. P(k) \in SUBSET (keys \ {k})
      BY DEF IsOrder
    <2>2. IsFiniteSet(keys \ {k}) /\ Cardinality(keys \ {k}) = n - 1
      BY FS_RemoveElement
    <2> HIDE DEF P
    <2>3. IsFiniteSet(P(k)) /\ Cardinality(P(k)) <= n - 1
      BY <2>1, <2>2, FS_Subset
    <2>4. Cardinality(P(k)) \in Nat
      BY <2>3, FS_CardinalityType
    <2> HIDE DEF n
    <2> QED BY <1>1, <2>3, <2>4
  <1>3. ASSUME NEW j \in keys, NEW k \in keys, <<j, k>> \in R
        PROVE  Cardinality(P(j)) < Cardinality(P(k))
    <2>1. P(j) \in SUBSET P(k) /\ j \in P(k) /\ j \notin P(j)
      BY <1>3 DEF IsOrder
    <2> HIDE DEF P
    <2>2. Cardinality(P(j)) <= Cardinality(P(k)) /\ Cardinality(P(j)) # Cardinality(P(k))
      BY <1>2, <2>1, FS_Subset
    <2> QED BY <1>2, <2>2
  <1>4. ASSUME NEW j \in keys, NEW k \in keys
        PROVE  /\ <<j, k>> \in R <=> Cardinality(P(j)) < Cardinality(P(k))
               /\ j # k => Cardinality(P(j)) # Cardinality(P(k))
    <2> HIDE DEF P
    <2>1. j = k \/ <<j, k>> \in R \/ <<k, j>> \in R
      BY DEF IsOrder
    <2>2. j = k => <<j, k>> \notin R
      BY DEF IsOrder
    <2> QED BY <1>2, <1>3, <2>1, <2>2
  <1> HIDE DEF P, n
  <1>4a. \A j, k \in keys : j # k => Cardinality(P(j)) # Cardinality(P(k))
    BY <1>4
  <1>5. f \in Injection(keys, 1 .. n)
    <2>1. f \in [keys -> 1 .. n]
      BY <1>2
    <2>2. ASSUME NEW j \in keys, NEW k \in keys, f[j] = f[k] PROVE j = k
      BY <1>2, <1>4a, <2>2
    <2> HIDE DEF f
    <2> QED BY <2>1, <2>2 DEF Injection, IsInjective
  <1> HIDE DEF f
  <1>6. f \in Surjection(keys, 1 .. n)
    BY <1>1, <1>5, FS_Injection DEF n
  <1>7. \A i \in 1 .. n : \E k \in keys : f[k] = i
    BY <1>6 DEF Surjection
  <1>8. \A k \in keys : f[k] = 1 + Cardinality(P(k)) /\ Rank(keys, R, k) = Cardinality(P(k))
    BY DEF f, Rank, P
  <1> QED BY <1>1, <1>2, <1>4, <1>7, <1>8 DEF n

\* What is placed by an order: each key once, in order.
LEMMA PlacedKeys ==
    ASSUME NEW keys, IsFiniteSet(keys), NEW R, IsOrder(keys, R),
           NEW s, s = Placed(keys, R)
    PROVE  /\ Len(s) = Cardinality(keys) /\ Len(s) \in Nat /\ DOMAIN s = 1 .. Len(s)
           /\ \A i \in DOMAIN s : s[i] \in keys /\ 1 + Rank(keys, R, s[i]) = i
           /\ \A k \in keys : \E i \in DOMAIN s : s[i] = k
  <1> DEFINE n == Cardinality(keys)
  <1>1. /\ n \in Nat
        /\ \A k \in keys : 1 + Rank(keys, R, k) \in 1 .. n /\ Rank(keys, R, k) \in Nat
        /\ \A j, k \in keys : j # k => Rank(keys, R, j) # Rank(keys, R, k)
        /\ \A i \in 1 .. n : \E k \in keys : 1 + Rank(keys, R, k) = i
    BY Ranks
  <1> HIDE DEF n
  <1>2. s = [i \in 1 .. n |-> CHOOSE k \in keys : 1 + Rank(keys, R, k) = i]
    BY DEF n, Placed, Rank
  <1>3. \A i \in 1 .. n : s[i] \in keys /\ 1 + Rank(keys, R, s[i]) = i
    BY <1>1, <1>2
  <1>4. DOMAIN s = 1 .. n /\ Len(s) = n
    <2> DEFINE chosen(i) == CHOOSE k \in keys : 1 + Rank(keys, R, k) = i
    <2>1. s = [i \in 1 .. n |-> chosen(i)]
      BY <1>2
    <2> HIDE DEF chosen
    <2>2a. \A i \in 1 .. n : s[i] = chosen(i)
      BY <2>1
    <2>2b. \A i \in 1 .. n : chosen(i) \in keys
      BY <1>3, <2>2a
    <2>2. s \in [1 .. n -> keys]
      BY <2>1, <2>2b
    <2> QED BY <1>1, <2>2
  <1>5. ASSUME NEW k \in keys PROVE \E i \in 1 .. n : s[i] = k
    <2>1. PICK i \in 1 .. n : i = 1 + Rank(keys, R, k)
      BY <1>1
    <2>2. s[i] \in keys /\ 1 + Rank(keys, R, s[i]) = i
      BY <1>3
    <2>3. Rank(keys, R, s[i]) \in Nat /\ Rank(keys, R, k) \in Nat
      BY <1>1, <2>2
    <2>4. Rank(keys, R, s[i]) = Rank(keys, R, k)
      BY <2>1, <2>2, <2>3
    <2> QED BY <1>1, <2>2, <2>4
  <1> QED BY <1>1, <1>3, <1>4, <1>5 DEF n

\* The order of a request and the order of creation.
Sent(jar, keys) == {p \in keys \X keys : Before(jar, p[1], p[2])}
Created(jar, keys) == {p \in keys \X keys : Older(jar, p[1], p[2])}

LEMMA Orders ==
    ASSUME NEW jar, NEW keys, Ordered(jar, keys)
    PROVE  IsOrder(keys, Sent(jar, keys)) /\ IsOrder(keys, Created(jar, keys))
  <1>1. \A j, k \in keys : /\ <<j, k>> \in Sent(jar, keys) <=> Before(jar, j, k)
                           /\ <<j, k>> \in Created(jar, keys) <=> Older(jar, j, k)
    BY DEF Sent, Created
  <1>2. IsOrder(keys, Sent(jar, keys))
    BY <1>1, BeforeTotal DEF IsOrder
  <1>3. IsOrder(keys, Created(jar, keys))
    BY <1>1 DEF IsOrder, Ordered, Older
  <1> QED BY <1>2, <1>3

\* What a request collects, and what a snapshot holds.
LEMMA CookiesInPlace ==
    ASSUME NEW jar, NEW uri, NEW time
    PROVE  LET keys == matching_cookies(jar, uri, time)
               live == Unexpired(jar, time)
           IN  /\ cookies_for(jar, uri, time) = Placed(keys, Sent(jar, keys))
               /\ get_all(jar, time) = Placed(live, Created(jar, live))
  BY DEF cookies_for, get_all, Sent, Created

\* What a request collects are cookies that match it.
LEMMA Collected ==
    ASSUME NEW jar, NEW uri, NEW time, IsFiniteSet(DOMAIN jar), Ordered(jar, DOMAIN jar)
    PROVE  \A i \in DOMAIN cookies_for(jar, uri, time) :
              cookies_for(jar, uri, time)[i] \in matching_cookies(jar, uri, time)
  <1> DEFINE keys == matching_cookies(jar, uri, time)
             all == cookies_for(jar, uri, time)
  <1>1. keys \subseteq DOMAIN jar
    BY DEF matching_cookies
  <1>2. IsFiniteSet(keys) /\ Ordered(jar, keys)
    BY <1>1, FS_Subset DEF Ordered
  <1>3. all = Placed(keys, Sent(jar, keys))
    BY CookiesInPlace
  <1> HIDE DEF keys, all
  <1>4. IsOrder(keys, Sent(jar, keys))
    BY <1>2, Orders
  <1> DEFINE R == Sent(jar, keys)
  <1> HIDE DEF R
  <1>5. \A i \in DOMAIN all : all[i] \in keys
    <2>1. IsOrder(keys, R) /\ all = Placed(keys, R)
      BY <1>3, <1>4 DEF R
    <2> QED BY <1>2, <2>1, PlacedKeys
  <1> QED BY <1>5 DEF keys, all

-----------------------------------------------------------------------------
(* The jar.                                                                *)

Setters == {uri.host : uri \in Uris}

\* Keys say which host or domain they are for; what a snapshot shows is there.
KeyOK(k) ==
    /\ k = [domain |-> k.domain, path |-> k.path, hostOnly |-> k.hostOnly, name |-> k.name]
    /\ k.hostOnly \in BOOLEAN /\ k.path # None
    /\ ~k.hostOnly => k.domain # None

Exported(k, e) ==
    [name |-> k.name, value |-> e.value, path |-> k.path,
     domain |-> IF k.hostOnly THEN None ELSE k.domain,
     secure |-> e.secure, maxAge |-> None, expires |-> e.expires]

\* A stored cookie and its key: who set it may set it for that domain.
EntryOK(k, e) ==
    /\ KeyOK(k) /\ Exported(k, e) # None
    /\ e = [value |-> e.value, secure |-> e.secure, expires |-> e.expires,
            index |-> e.index, setter |-> e.setter]
    /\ e.setter \in Setters
    /\ IF k.hostOnly THEN e.setter = k.domain ELSE domain_match(e.setter, k.domain)
    /\ e.expires # None => e.expires \in Int
    /\ IsPath(k.path) /\ IsHost(k.domain)

JarOK(jar, next) ==
    /\ next \in Nat /\ IsFiniteSet(DOMAIN jar) /\ Ordered(jar, DOMAIN jar)
    /\ \A k \in DOMAIN jar : EntryOK(k, jar[k]) /\ jar[k].index < next

LEMMA JarEmpty == JarOK(<< >>, 0)
  <1>1. DOMAIN << >> = {}
    OBVIOUS
  <1> QED BY <1>1, FS_EmptySet DEF JarOK, Ordered

LEMMA JarRemoved ==
    ASSUME NEW jar, NEW next, JarOK(jar, next), NEW keys
    PROVE  /\ JarOK(RemoveKeys(jar, keys), next)
           /\ DOMAIN RemoveKeys(jar, keys) = DOMAIN jar \ keys
           /\ \A k \in DOMAIN jar \ keys : RemoveKeys(jar, keys)[k] = jar[k]
  <1> DEFINE new == RemoveKeys(jar, keys)
  <1>1. DOMAIN new = DOMAIN jar \ keys /\ \A k \in DOMAIN jar \ keys : new[k] = jar[k]
    BY DEF RemoveKeys
  <1>2. IsFiniteSet(DOMAIN jar \ keys)
    BY FS_Difference DEF JarOK
  <1> HIDE DEF new
  <1>3. JarOK(new, next)
    BY <1>1, <1>2 DEF JarOK, Ordered
  <1> QED BY <1>1, <1>3 DEF new

\* A cookie is put into the jar with the index of the one it replaces or with
\* the next one.
Unused(jar, key, index) == \A k \in DOMAIN jar \ {key} : jar[k].index # index

LEMMA Reindexed ==
    ASSUME NEW key, NEW e, EntryOK(key, e), NEW index
    PROVE  EntryOK(key, [e EXCEPT !.index = index]) /\ [e EXCEPT !.index = index].index = index
  BY DEF EntryOK, Exported

LEMMA JarPut ==
    ASSUME NEW jar, NEW next, JarOK(jar, next), NEW key, NEW entry, EntryOK(key, entry),
           entry.index \in Nat, NEW after \in Nat, entry.index < after, next <= after,
           Unused(jar, key, entry.index)
    PROVE  /\ JarOK(Put(jar, key, entry), after)
           /\ DOMAIN Put(jar, key, entry) = DOMAIN jar \cup {key}
           /\ \A k \in DOMAIN jar \ {key} : Put(jar, key, entry)[k] = jar[k]
  <1> DEFINE new == Put(jar, key, entry)
  <1>2. /\ DOMAIN new = DOMAIN jar \cup {key} /\ new[key] = entry
        /\ \A k \in DOMAIN jar \ {key} : new[k] = jar[k]
    BY DEF Put
  <1> HIDE DEF new
  <1>3. IsFiniteSet(DOMAIN jar \cup {key})
    BY FS_AddElement DEF JarOK
  <1>4. /\ \A k \in DOMAIN jar : /\ EntryOK(k, jar[k]) /\ jar[k].index < next
                                 /\ jar[k].index \in Nat /\ IsPath(k.path)
        /\ \A j, k \in DOMAIN jar : jar[j].index = jar[k].index => j = k
        /\ next \in Nat
    BY DEF JarOK, Ordered
  <1>5. IsPath(key.path)
    BY DEF EntryOK
  <1>7. Ordered(new, DOMAIN new)
    <2>1. \A k \in DOMAIN new : IsPath(k.path) /\ new[k].index \in Nat
      BY <1>2, <1>4, <1>5
    <2>2. \A j, k \in DOMAIN new : new[j].index = new[k].index => j = k
      BY <1>2, <1>4 DEF Unused
    <2> QED BY <2>1, <2>2 DEF Ordered
  <1>8. \A k \in DOMAIN new : EntryOK(k, new[k]) /\ new[k].index < after
    BY <1>2, <1>4
  <1>9. JarOK(new, after)
    BY <1>2, <1>3, <1>7, <1>8 DEF JarOK
  <1> QED BY <1>2, <1>9 DEF new

\* What Stored makes of a jar.
LEMMA StoredJar ==
    ASSUME NEW jar, NEW next, JarOK(jar, next), NEW op, EntryOK(op.key, op.entry),
           NEW store, store = Stored([jar |-> jar, next |-> next], op)
    PROVE  /\ JarOK(store.jar, store.next)
           /\ \A k \in DOMAIN jar \ {op.key} : k \in DOMAIN store.jar /\ store.jar[k] = jar[k]
           /\ DOMAIN store.jar \subseteq DOMAIN jar \cup {op.key}
           /\ \/ store.jar = jar
              \/ op.secureOrigin
              \/ ~would_overlay_secure_cookie(jar, op.key, op.now)
  <1> DEFINE old == [jar |-> jar, next |-> next]
             key == op.key
             e == op.entry
  <1>1. next \in Nat /\ \A k \in DOMAIN jar : jar[k].index \in Nat
    BY DEF JarOK, Ordered
  <1>2. CASE ~op.secureOrigin /\ would_overlay_secure_cookie(jar, key, op.now)
    <2>1. store = old
      BY <1>2 DEF Stored
    <2> QED BY <2>1
  <1>3. CASE /\ ~(~op.secureOrigin /\ would_overlay_secure_cookie(jar, key, op.now))
             /\ op.expired
    <2>1. store = remove_stored_cookie(old, key)
      BY <1>3 DEF Stored
    <2>2. store.jar = RemoveKeys(jar, {key}) /\ store.next = next
      BY <2>1 DEF remove_stored_cookie
    <2> DEFINE new == RemoveKeys(jar, {key})
    <2>3. /\ JarOK(new, next) /\ DOMAIN new = DOMAIN jar \ {key}
          /\ \A k \in DOMAIN jar \ {key} : new[k] = jar[k]
      BY JarRemoved
    <2> HIDE DEF new
    <2>4. store.jar = new
      BY <2>2 DEF new
    <2> HIDE DEF key
    <2>5. /\ JarOK(store.jar, store.next)
          /\ \A k \in DOMAIN jar \ {key} : k \in DOMAIN store.jar /\ store.jar[k] = jar[k]
          /\ DOMAIN store.jar \subseteq DOMAIN jar \cup {key}
      BY <2>2, <2>3, <2>4
    <2> QED BY <1>3, <2>5 DEF key
  <1>4. CASE /\ ~(~op.secureOrigin /\ would_overlay_secure_cookie(jar, key, op.now))
             /\ ~op.expired
    <2>1. store = insert_stored_cookie(old, key, e)
      BY <1>4 DEF Stored
    <2>2. CASE key \in DOMAIN jar /\ jar[key].value = e.value
      <3> DEFINE entry == [e EXCEPT !.index = jar[key].index]
                 new == Put(jar, key, entry)
      <3>1. store = [old EXCEPT !.jar = new]
        BY <2>1, <2>2 DEF insert_stored_cookie
      <3> HIDE DEF new
      <3>2. store.jar = new /\ store.next = next
        BY <3>1
      <3>3. jar[key].index \in Nat /\ next \in Nat
        BY <1>1, <2>2
      <3>4. /\ JarOK(new, next) /\ DOMAIN new = DOMAIN jar \cup {key}
            /\ \A k \in DOMAIN jar \ {key} : new[k] = jar[k]
        <4>1. PICK i \in Nat : /\ i = jar[key].index
                              /\ i < next /\ next <= next /\ Unused(jar, key, i)
          BY <1>1, <2>2, <3>3 DEF JarOK, Ordered, Unused
        <4>2. EntryOK(key, e)
          OBVIOUS
        <4> HIDE DEF key, e
        <4>3. EntryOK(key, entry) /\ entry.index = i
          BY <4>1, <4>2, Reindexed
        <4> HIDE DEF entry
        <4>4. next \in Nat
          BY <3>3
        <4> QED BY <4>1, <4>3, <4>4, JarPut DEF new
      <3> HIDE DEF key
      <3>5. /\ JarOK(store.jar, store.next)
            /\ \A k \in DOMAIN jar \ {key} : k \in DOMAIN store.jar /\ store.jar[k] = jar[k]
            /\ DOMAIN store.jar \subseteq DOMAIN jar \cup {key}
        BY <3>2, <3>4
      <3> QED BY <1>4, <3>5 DEF key
    <2>3. CASE ~(key \in DOMAIN jar /\ jar[key].value = e.value)
      <3> DEFINE entry == [e EXCEPT !.index = next]
                 new == Put(jar, key, entry)
      <3>1. store = [jar |-> new, next |-> next + 1]
        BY <2>1, <2>3 DEF insert_stored_cookie
      <3> HIDE DEF new
      <3>2. store.jar = new /\ store.next = next + 1
        BY <3>1
      <3>3. next \in Nat /\ next + 1 \in Nat
        BY <1>1
      <3> DEFINE after == next + 1
      <3> HIDE DEF after
      <3>4. /\ JarOK(new, after) /\ DOMAIN new = DOMAIN jar \cup {key}
            /\ \A k \in DOMAIN jar \ {key} : new[k] = jar[k]
        <4>1. after \in Nat /\ next \in Nat /\ after = next + 1
          BY <3>3 DEF after
        <4>2. EntryOK(key, e)
          OBVIOUS
        <4> HIDE DEF key, e
        <4>3. next < after /\ next <= after /\ Unused(jar, key, next)
          BY <1>1, <4>1 DEF JarOK, Unused
        <4>4. EntryOK(key, entry) /\ entry.index = next
          BY <4>2, Reindexed
        <4> HIDE DEF entry
        <4> QED BY <4>1, <4>3, <4>4, JarPut DEF new
      <3> HIDE DEF key
      <3>5. /\ JarOK(store.jar, store.next)
            /\ \A k \in DOMAIN jar \ {key} : k \in DOMAIN store.jar /\ store.jar[k] = jar[k]
            /\ DOMAIN store.jar \subseteq DOMAIN jar \cup {key}
        BY <3>2, <3>4 DEF after
      <3> QED BY <1>4, <3>5 DEF key
    <2> QED BY <2>2, <2>3
  <1> QED BY <1>2, <1>3, <1>4

\* What is to be stored is a cookie of its setter.
OpOK(op, time) ==
    EntryOK(op.key, op.entry) /\ op.now \in Int /\ op.now <= time

LEMMA NormalizedPath ==
    ASSUME NEW path, IsPath(path)
    PROVE  IsPath(normalize_path(path))
  <1>1. IsPath(Root)
    <2>1. Root \in Seq({""}) /\ Len(Root) = 1
      BY DEF Root
    <2> HIDE DEF Root
    <2>2. Root \in Seq(Range(Root))
      BY <2>1, SeqOfRange
    <2>3. Len(Root) = 1
      BY DEF Root
    <2>4. Root # <<>>
      BY <2>3
    <2> QED BY <2>2, <2>4 DEF IsPath, IsSeq
  <1>2. CASE Len(path) # 1
    <2> DEFINE n == Len(path)
               front == SubSeq(path, 1, n - 1)
    <2>1. n \in Nat \ {0} /\ \A i \in 1 .. n : path[i] \in Range(path)
      BY EmptySeq, ElementOfSeq DEF IsPath, IsSeq
    <2>0. n # 1
      BY <1>2
    <2> HIDE DEF n
    <2>a. 1 \in Int /\ n - 1 \in Int /\ 1 <= n - 1 /\ \A i \in 1 .. n - 1 : path[i] \in Range(path)
      BY <2>0, <2>1
    <2>2. front \in Seq(Range(path)) /\ Len(front) = n - 1
      BY <2>1, <2>a, SubSeqProperties
    <2>3. normalize_path(path) = front
      BY <1>2 DEF normalize_path, Front, n
    <2> HIDE DEF front
    <2>4. front \in Seq(Range(front)) /\ front # <<>>
      BY <2>0, <2>1, <2>2, SeqOfRange
    <2> QED BY <2>3, <2>4 DEF IsPath, IsSeq
  <1> QED BY <1>1, <1>2 DEF normalize_path

LEMMA ScopedOp ==
    ASSUME NEW c \in Fields \ {None}, NEW uri \in Uris, NEW time \in Int,
           ~Ignored(c, uri)
    PROVE  OpOK(Scoped(c, uri, time), time)
  <1> DEFINE domain == IF c.domain = None THEN uri.host ELSE c.domain
             path == IF c.path = None THEN normalize_path(uri.path) ELSE c.path
             deadline == IF c.maxAge # None THEN time + c.maxAge ELSE c.expires
             expired == IF c.maxAge # None THEN c.maxAge <= 0
                        ELSE c.expires # None /\ c.expires <= time
             key == [domain |-> domain, path |-> path, hostOnly |-> c.domain = None,
                     name |-> c.name]
             entry == [value |-> c.value, secure |-> c.secure, expires |-> deadline,
                       index |-> 0, setter |-> uri.host]
             op == [key |-> key, entry |-> entry, secureOrigin |-> IsHttps(uri),
                    expired |-> expired, now |-> time]
  <1>1. /\ Scoped(c, uri, time) = op
        /\ c.domain # None => domain_match(uri.host, c.domain)
    BY DEF Scoped, Ignored
  <1>c. IsCookie(c)
    BY ResponsesAssumption
  <1>2. IsPath(path) /\ path # None
    <2>1. IsPath(normalize_path(uri.path)) /\ normalize_path(uri.path) # None
      BY UrisAssumption, NoneAssumption, NormalizedPath
    <2> QED BY <1>c, <2>1 DEF IsCookie
  <1>3. deadline # None => deadline \in Int
    BY <1>c DEF IsCookie
  <1>4. IsHost(domain)
    BY <1>c, UrisAssumption DEF IsCookie
  <1>5. IF c.domain = None THEN uri.host = domain ELSE domain_match(uri.host, domain)
    BY <1>1
  <1>6. uri.host \in Setters
    BY DEF Setters
  <1>k. KeyOK(key)
    <2>1. c.domain # None => domain # None
      OBVIOUS
    <2> HIDE DEF domain, path
    <2> QED BY <1>2, <2>1 DEF KeyOK
  <1>x. Exported(key, entry) # None
    <2>1. /\ path \in {g.path : g \in Fields \ {None}} \cup {normalize_path(u.path) : u \in Uris}
          /\ deadline \in Int \cup {None}
          /\ (IF c.domain = None THEN None ELSE domain) = c.domain
      BY <1>3
    <2> HIDE DEF domain, path, deadline
    <2>2. Exported(key, entry) \in Exports
      BY <2>1 DEF Exported, Exports
    <2> QED BY <2>2, NoneAssumption
  <1> HIDE DEF domain, path, deadline, expired
  <1>7. EntryOK(key, entry)
    <2> DEFINE shown == Exported(key, entry)
    <2>1. shown # None
      BY <1>x
    <2> HIDE DEF shown
    <2> QED BY <1>2, <1>3, <1>4, <1>5, <1>6, <1>k, <2>1 DEF EntryOK, shown
  <1> HIDE DEF key, entry
  <1>8. op.key = key /\ op.entry = entry /\ op.now = time
    OBVIOUS
  <1> QED BY <1>1, <1>7, <1>8 DEF OpOK


-----------------------------------------------------------------------------
(* The invariant.                                                          *)

\* A pair of a Cookie field may go where its request goes.
HeaderOK(uri, h) ==
    /\ EntryOK(h.key, h.entry)
    /\ domain_match(uri.host, h.key.domain)
    /\ h.key.hostOnly => uri.host = h.key.domain
    /\ h.entry.secure => IsHttps(uri)

Shaped(r) ==
    r = [f \in {"pc", "uri", "own", "header", "queue", "op", "resent"} |-> r[f]]

Carries(uri, header) == \A i \in DOMAIN header : HeaderOK(uri, header[i])

ThreadOK(r, time) ==
    /\ Shaped(r)
    /\ r.pc # "idle" => r.uri \in Uris
    /\ r.queue \in Seq(Fields)
    /\ r.op # None => OpOK(r.op, time)
    /\ r.pc = "locking" => r.op # None
    /\ Carries(r.uri, r.header)

JarInv ==
    /\ now \in Int /\ JarOK(cookies, nextIndex)
    /\ thread = [t \in Threads |-> thread[t]]
    /\ \A t \in Threads : ThreadOK(thread[t], now)

LEMMA NothingCarried == ASSUME NEW uri PROVE Carries(uri, <<>>)
  <1>1. DOMAIN << >> = {}
    OBVIOUS
  <1> QED BY <1>1 DEF Carries

LEMMA IdleOK == ASSUME NEW time PROVE ThreadOK(Idle, time)
  <1>1. Carries(None, <<>>) /\ <<>> \in Seq(Fields)
    BY NothingCarried
  <1> QED BY <1>1 DEF ThreadOK, Idle, Shaped

\* A thread that has just been given something to do.
LEMMA StartedOK ==
    ASSUME NEW time, NEW uri \in Uris, NEW own, NEW queue \in Seq(Fields),
           NEW pc, pc # "locking"
    PROVE  /\ ThreadOK([Idle EXCEPT !.pc = pc, !.uri = uri, !.own = own], time)
           /\ ThreadOK([Idle EXCEPT !.pc = pc, !.uri = uri, !.queue = queue], time)
  <1>1. Carries(uri, <<>>) /\ <<>> \in Seq(Fields)
    BY NothingCarried
  <1> DEFINE a == [Idle EXCEPT !.pc = pc, !.uri = uri, !.own = own]
             b == [Idle EXCEPT !.pc = pc, !.uri = uri, !.queue = queue]
  <1>2. /\ Shaped(a) /\ a.pc = pc /\ a.uri = uri /\ a.header = <<>> /\ a.queue = <<>>
        /\ a.op = None
    BY DEF Idle, Shaped
  <1>3. /\ Shaped(b) /\ b.pc = pc /\ b.uri = uri /\ b.header = <<>> /\ b.queue = queue
        /\ b.op = None
    BY DEF Idle, Shaped
  <1> HIDE DEF a, b
  <1>4. ThreadOK(a, time) /\ ThreadOK(b, time)
    BY <1>1, <1>2, <1>3 DEF ThreadOK
  <1> QED BY <1>4 DEF a, b

\* One thread moves; the clock stands.
LEMMA ThreadMoved ==
    ASSUME JarInv, NEW t \in Threads, NEW r, ThreadOK(r, now), now' = now,
           thread' = [thread EXCEPT ![t] = r], JarOK(cookies', nextIndex')
    PROVE  JarInv'
  <1>1. \A u \in Threads : thread'[u] = IF u = t THEN r ELSE thread[u]
    BY DEF JarInv
  <1>2. \A u \in Threads : ThreadOK(thread'[u], now)
    BY <1>1 DEF JarInv
  <1>3. thread' = [u \in Threads |-> thread'[u]]
    BY DEF JarInv
  <1> QED BY <1>2, <1>3 DEF JarInv

\* Time passes, or the jar changes: what the threads hold stays right.
LEMMA OpLater ==
    ASSUME NEW r, NEW time \in Int, ThreadOK(r, time)
    PROVE  ThreadOK(r, time + 1)
  BY DEF ThreadOK, OpOK

LEMMA JarInvInit == JarInit => JarInv
  <1> SUFFICES ASSUME JarInit PROVE JarInv
    OBVIOUS
  <1>1. JarOK(cookies, nextIndex) /\ now \in Int
    BY JarEmpty DEF JarInit
  <1>2. \A t \in Threads : ThreadOK(thread[t], now)
    BY IdleOK DEF JarInit
  <1>3. thread = [t \in Threads |-> thread[t]]
    BY DEF JarInit
  <1> QED BY <1>1, <1>2, <1>3 DEF JarInv

LEMMA StartRequestOK ==
    ASSUME JarInv, NEW t \in Threads, NEW uri \in Uris, NEW own, StartRequest(t, uri, own)
    PROVE  JarInv'
  <1> DEFINE r == [Idle EXCEPT !.pc = "ready", !.uri = uri, !.own = own]
  <1>1. <<>> \in Seq(Fields) /\ "ready" # "locking"
    OBVIOUS
  <1>2. ThreadOK(r, now)
    BY <1>1, StartedOK
  <1>3. thread' = [thread EXCEPT ![t] = r] /\ now' = now
    BY DEF StartRequest
  <1>4. JarOK(cookies', nextIndex')
    BY DEF JarInv, StartRequest
  <1> HIDE DEF r
  <1> QED BY <1>2, <1>3, <1>4, ThreadMoved

LEMMA SendRequestOK ==
    ASSUME JarInv, NEW t \in Threads, SendRequest(t)
    PROVE  JarInv'
  <1> DEFINE old == thread[t]
             keys == cookies_for(cookies, old.uri, now)
             found == [i \in DOMAIN keys |-> [key |-> keys[i], entry |-> cookies[keys[i]]]]
             header == IF old.own \/ old.header # <<>> THEN old.header ELSE found
             r == [old EXCEPT !.pc = "sent", !.header = header]
  <1>1. ThreadOK(old, now) /\ old.pc = "ready"
    BY DEF JarInv, SendRequest
  <1>2. thread' = [thread EXCEPT ![t] = r] /\ now' = now
    BY DEF SendRequest, JarInv
  <1>3. JarOK(cookies, nextIndex) /\ JarOK(cookies', nextIndex')
    BY DEF JarInv, SendRequest
  <1>4. \A i \in DOMAIN keys : keys[i] \in matching_cookies(cookies, old.uri, now)
    BY <1>3, Collected DEF JarOK
  <1> HIDE DEF old, keys
  <1>5. \A k \in matching_cookies(cookies, old.uri, now) :
            /\ k \in DOMAIN cookies
            /\ request_matches_cookie(old.uri, k, cookies[k], now)
    BY DEF matching_cookies
  <1>6. \A k \in matching_cookies(cookies, old.uri, now) :
            HeaderOK(old.uri, [key |-> k, entry |-> cookies[k]])
    BY <1>3, <1>5 DEF HeaderOK, JarOK, request_matches_cookie
  <1>7. Carries(old.uri, found)
    BY <1>4, <1>6 DEF Carries
  <1> HIDE DEF found
  <1>8. Carries(old.uri, header)
    BY <1>1, <1>7 DEF ThreadOK
  <1> HIDE DEF header
  <1>s. Shaped(old)
    BY <1>1 DEF ThreadOK
  <1>9. /\ Shaped(r) /\ r.pc = "sent" /\ r.uri = old.uri /\ r.header = header
        /\ r.queue = old.queue /\ r.op = old.op
    BY <1>s DEF Shaped
  <1> HIDE DEF r
  <1>10. ThreadOK(r, now)
    BY <1>1, <1>8, <1>9 DEF ThreadOK
  <1> QED BY <1>2, <1>3, <1>10, ThreadMoved

LEMMA SendCanceledOK ==
    ASSUME JarInv, NEW t \in Threads, SendCanceled(t)
    PROVE  JarInv'
  <1> DEFINE old == thread[t]
             r == [old EXCEPT !.pc = "ready", !.resent = TRUE]
  <1>1. ThreadOK(old, now) /\ old.pc = "sent"
    BY DEF JarInv, SendCanceled
  <1>2. thread' = [thread EXCEPT ![t] = r] /\ now' = now
    BY DEF SendCanceled, JarInv
  <1>3. JarOK(cookies', nextIndex')
    BY DEF JarInv, SendCanceled
  <1> HIDE DEF old
  <1>s. Shaped(old)
    BY <1>1 DEF ThreadOK
  <1>4. /\ Shaped(r) /\ r.pc = "ready" /\ r.uri = old.uri /\ r.header = old.header
        /\ r.queue = old.queue /\ r.op = old.op
    BY <1>s DEF Shaped
  <1> HIDE DEF r
  <1>5. ThreadOK(r, now)
    BY <1>1, <1>4 DEF ThreadOK
  <1> QED BY <1>2, <1>3, <1>5, ThreadMoved

LEMMA ResponseArrivesOK ==
    ASSUME JarInv, NEW t \in Threads, NEW fields \in Responses, ResponseArrives(t, fields)
    PROVE  JarInv'
  <1> DEFINE uri == thread[t].uri
             next == [Idle EXCEPT !.pc = "storing", !.uri = uri, !.queue = fields]
             r == IF fields = <<>> THEN Idle ELSE next
  <1>1. uri \in Uris /\ fields \in Seq(Fields) /\ "storing" # "locking"
    BY ResponsesAssumption DEF JarInv, ResponseArrives, ThreadOK
  <1>2. thread' = [thread EXCEPT ![t] = r] /\ now' = now
    BY DEF ResponseArrives
  <1>3. JarOK(cookies', nextIndex')
    BY DEF JarInv, ResponseArrives
  <1> HIDE DEF uri
  <1>4. ThreadOK(next, now) /\ ThreadOK(Idle, now)
    BY <1>1, StartedOK, IdleOK
  <1> HIDE DEF next
  <1>5. ThreadOK(r, now)
    BY <1>4
  <1> HIDE DEF r
  <1> QED BY <1>2, <1>3, <1>5, ThreadMoved

LEMMA CallAddOK ==
    ASSUME JarInv, NEW t \in Threads, NEW cookie \in Fields, NEW uri \in Uris,
           CallAdd(t, cookie, uri)
    PROVE  JarInv'
  <1> DEFINE r == [Idle EXCEPT !.pc = "storing", !.uri = uri, !.queue = <<cookie>>]
  <1>1. <<cookie>> \in Seq(Fields) /\ "storing" # "locking"
    OBVIOUS
  <1>2. ThreadOK(r, now)
    BY <1>1, StartedOK
  <1>3. thread' = [thread EXCEPT ![t] = r] /\ now' = now
    BY DEF CallAdd
  <1>4. JarOK(cookies', nextIndex')
    BY DEF JarInv, CallAdd
  <1> HIDE DEF r
  <1> QED BY <1>2, <1>3, <1>4, ThreadMoved

LEMMA BeginAddOK ==
    ASSUME JarInv, NEW t \in Threads, BeginAdd(t)
    PROVE  JarInv'
  <1> DEFINE old == thread[t]
             c == Head(old.queue)
             op == IF c = None \/ Ignored(c, old.uri) THEN None ELSE Scoped(c, old.uri, now)
             next == [old EXCEPT !.queue = Tail(old.queue), !.op = op,
                                 !.pc = IF op = None THEN "storing" ELSE "locking"]
             r == IF old.queue = <<>> THEN Idle ELSE next
  <1>1. ThreadOK(old, now) /\ old.pc = "storing" /\ now \in Int
    BY DEF JarInv, BeginAdd
  <1>2. thread' = [thread EXCEPT ![t] = r] /\ now' = now
    BY DEF BeginAdd
  <1>3. JarOK(cookies', nextIndex')
    BY DEF JarInv, BeginAdd
  <1> HIDE DEF old
  <1>4. Shaped(old) /\ old.uri \in Uris /\ old.queue \in Seq(Fields) /\ Carries(old.uri, old.header)
    BY <1>1 DEF ThreadOK
  <1>5. CASE old.queue # <<>>
    <2>1. c \in Fields /\ Tail(old.queue) \in Seq(Fields)
      BY <1>4, <1>5, HeadTailProperties
    <2>2. op # None => OpOK(op, now)
      <3>1. c # None => c \in Fields \ {None}
        BY <2>1
      <3> HIDE DEF c
      <3> QED BY <1>1, <1>4, <3>1, ScopedOp
    <2> HIDE DEF c, op
    <2>3. /\ Shaped(next) /\ next.pc = (IF op = None THEN "storing" ELSE "locking")
          /\ next.uri = old.uri /\ next.header = old.header
          /\ next.queue = Tail(old.queue) /\ next.op = op
      BY <1>4 DEF Shaped
    <2> HIDE DEF next
    <2>4. ThreadOK(next, now)
      BY <1>4, <2>1, <2>2, <2>3 DEF ThreadOK
    <2>5. r = next
      BY <1>5
    <2> QED BY <1>2, <1>3, <2>4, <2>5, ThreadMoved
  <1>6. CASE old.queue = <<>>
    <2>1. r = Idle
      BY <1>6
    <2> HIDE DEF r
    <2> QED BY <1>2, <1>3, <2>1, IdleOK, ThreadMoved
  <1> QED BY <1>5, <1>6

\* What FinishAdd makes of the jar.
LEMMA Finished ==
    ASSUME JarInv, NEW t \in Threads, FinishAdd(t)
    PROVE  /\ JarOK(cookies', nextIndex')
           /\ OpOK(thread[t].op, now)
           /\ \A k \in DOMAIN cookies \ {thread[t].op.key} :
                 k \in DOMAIN cookies' /\ cookies'[k] = cookies[k]
           /\ DOMAIN cookies' \subseteq DOMAIN cookies \cup {thread[t].op.key}
           /\ \/ cookies' = cookies
              \/ thread[t].op.secureOrigin
              \/ ~would_overlay_secure_cookie(cookies, thread[t].op.key, thread[t].op.now)
  <1> DEFINE op == thread[t].op
             store == Stored([jar |-> cookies, next |-> nextIndex], op)
  <1>1. cookies' = store.jar /\ nextIndex' = store.next /\ thread[t].pc = "locking"
    BY DEF FinishAdd
  <1>2. OpOK(op, now) /\ JarOK(cookies, nextIndex)
    BY <1>1 DEF JarInv, ThreadOK
  <1>3. EntryOK(op.key, op.entry)
    BY <1>2 DEF OpOK
  <1> HIDE DEF op
  <1>4. store = Stored([jar |-> cookies, next |-> nextIndex], op)
    OBVIOUS
  <1> HIDE DEF store
  <1>5. /\ JarOK(store.jar, store.next)
        /\ \A k \in DOMAIN cookies \ {op.key} : k \in DOMAIN store.jar /\ store.jar[k] = cookies[k]
        /\ DOMAIN store.jar \subseteq DOMAIN cookies \cup {op.key}
        /\ \/ store.jar = cookies
           \/ op.secureOrigin
           \/ ~would_overlay_secure_cookie(cookies, op.key, op.now)
    BY <1>2, <1>3, <1>4, StoredJar
  <1> QED BY <1>1, <1>2, <1>5 DEF op

LEMMA FinishAddOK ==
    ASSUME JarInv, NEW t \in Threads, FinishAdd(t)
    PROVE  JarInv'
  <1> DEFINE old == thread[t]
             r == [old EXCEPT !.pc = "storing", !.op = None]
  <1>1. ThreadOK(old, now) /\ old.pc = "locking"
    BY DEF JarInv, FinishAdd
  <1>2. thread' = [thread EXCEPT ![t] = r] /\ now' = now
    BY DEF FinishAdd, JarInv
  <1>3. JarOK(cookies', nextIndex')
    BY Finished
  <1> HIDE DEF old
  <1>4. Shaped(old)
    BY <1>1 DEF ThreadOK
  <1>5. /\ Shaped(r) /\ r.pc = "storing" /\ r.uri = old.uri /\ r.header = old.header
        /\ r.queue = old.queue /\ r.op = None
    BY <1>4 DEF Shaped
  <1> HIDE DEF r
  <1>6. ThreadOK(r, now)
    BY <1>1, <1>5 DEF ThreadOK
  <1> QED BY <1>2, <1>3, <1>6, ThreadMoved

LEMMA JarInvStep == JarInv /\ [JarNext]_jarVars => JarInv'
  <1> SUFFICES ASSUME JarInv, [JarNext]_jarVars PROVE JarInv'
    OBVIOUS
  <1>1. ASSUME NEW t \in Threads, NEW uri \in Uris, NEW own \in BOOLEAN, StartRequest(t, uri, own)
        PROVE  JarInv'
    BY <1>1, StartRequestOK
  <1>2. ASSUME NEW t \in Threads, SendRequest(t) PROVE JarInv'
    BY <1>2, SendRequestOK
  <1>3. ASSUME NEW t \in Threads, SendCanceled(t) PROVE JarInv'
    BY <1>3, SendCanceledOK
  <1>4. ASSUME NEW t \in Threads, NEW fields \in Responses, ResponseArrives(t, fields)
        PROVE  JarInv'
    BY <1>4, ResponseArrivesOK
  <1>5. ASSUME NEW t \in Threads, NEW fields \in Responses, NEW uri \in Uris,
               Len(fields) = 1, CallAdd(t, fields[1], uri)
        PROVE  JarInv'
    <2>1. fields \in Seq(Fields)
      BY ResponsesAssumption
    <2>2. fields[1] \in Fields
      BY <1>5, <2>1, ElementOfSeq
    <2> QED BY <1>5, <2>2, CallAddOK
  <1>6. ASSUME NEW t \in Threads, BeginAdd(t) PROVE JarInv'
    BY <1>6, BeginAddOK
  <1>7. ASSUME NEW t \in Threads, FinishAdd(t) PROVE JarInv'
    BY <1>7, FinishAddOK
  <1>8. ASSUME NEW name, NEW uri, remove(name, uri) PROVE JarInv'
    <2>1. JarOK(cookies', nextIndex')
      BY <1>8, JarRemoved DEF JarInv, remove, remove_stored_cookies
    <2> QED BY <1>8, <2>1 DEF JarInv, remove
  <1>9. CASE clear
    BY <1>9, JarEmpty DEF JarInv, clear
  <1>10. CASE ClockTick
    <2>1. \A t \in Threads : ThreadOK(thread[t], now + 1)
      BY OpLater DEF JarInv
    <2> QED BY <1>10, <2>1 DEF JarInv, ClockTick
  <1>11. CASE UNCHANGED jarVars
    BY <1>11 DEF JarInv, jarVars
  <1> QED BY <1>1, <1>2, <1>3, <1>4, <1>5, <1>6, <1>7, <1>8, <1>9, <1>10, <1>11 DEF JarNext

LEMMA JarInvHolds == JarSpec => []JarInv
  BY JarInvInit, JarInvStep, PTL DEF JarSpec

-----------------------------------------------------------------------------
(* Where cookies travel.                                                   *)

LEMMA ReversedSeq ==
    ASSUME NEW s, IsSeq(s)
    PROVE  /\ IsSeq(Reverse(s)) /\ Len(Reverse(s)) = Len(s) /\ Len(s) \in Nat
           /\ \A i \in 1 .. Len(s) : Reverse(s)[i] = s[Len(s) - i + 1]
  <1> DEFINE n == Len(s)
             r == [i \in 1 .. n |-> s[(n - i) + 1]]
  <1>1. n \in Nat /\ \A i \in 1 .. n : s[i] \in Range(s)
    BY LenProperties, ElementOfSeq DEF IsSeq
  <1>2. Reverse(s) = r
    BY DEF Reverse
  <1> HIDE DEF n
  <1>3. \A i \in 1 .. n : (n - i) + 1 \in 1 .. n
    BY <1>1
  <1>4. r \in Seq(Range(s)) /\ Len(r) = n
    BY <1>1, <1>3
  <1>5. \A i \in 1 .. n : r[i] = s[n - i + 1]
    OBVIOUS
  <1> HIDE DEF r
  <1>6. IsSeq(r)
    BY <1>4, SeqOfRange DEF IsSeq
  <1> QED BY <1>1, <1>2, <1>4, <1>5, <1>6 DEF n

LEMMA PrefixElements ==
    ASSUME NEW s, IsSeq(s), NEW t, IsSeq(t)
    PROVE  /\ Len(s) \in Nat /\ Len(t) \in Nat
           /\ IsPrefix(s, t) <=> /\ Len(s) <= Len(t)
                                 /\ \A i \in 1 .. Len(s) : s[i] = t[i]
  <1> DEFINE m == Len(s)
             n == Len(t)
  <1>1. /\ m \in Nat /\ n \in Nat
        /\ \A i \in 1 .. m : s[i] \in Range(s)
        /\ \A i \in 1 .. n : t[i] \in Range(t)
    BY LenProperties, ElementOfSeq DEF IsSeq
  <1>2. IsPrefix(s, t) <=> m <= n /\ SubSeq(s, 1, m) = SubSeq(t, 1, m)
    BY DEF IsPrefix
  <1> HIDE DEF m, n
  <1>3. CASE m <= n
    <2> DEFINE a == SubSeq(s, 1, m)
               b == SubSeq(t, 1, m)
    <2>1. \A i \in 1 .. m : i \in 1 .. n
      BY <1>1, <1>3
    <2>2. /\ a \in Seq(Range(s)) /\ Len(a) = m /\ \A i \in 1 .. m : a[i] = s[i]
          /\ b \in Seq(Range(t)) /\ Len(b) = m /\ \A i \in 1 .. m : b[i] = t[i]
      <3>1. 1 \in Int /\ m \in Int /\ m - 1 + 1 = m /\ (IF 1 <= m THEN m - 1 + 1 ELSE 0) = m
        BY <1>1
      <3>2. \A i \in 1 .. m : s[i] \in Range(s) /\ t[i] \in Range(t)
        BY <1>1, <2>1
      <3>3. /\ a \in Seq(Range(s)) /\ Len(a) = m
            /\ \A i \in 1 .. m - 1 + 1 : a[i] = s[1 + i - 1]
        BY <3>1, <3>2, SubSeqProperties
      <3>4. /\ b \in Seq(Range(t)) /\ Len(b) = m
            /\ \A i \in 1 .. m - 1 + 1 : b[i] = t[1 + i - 1]
        BY <3>1, <3>2, SubSeqProperties
      <3> HIDE DEF a, b
      <3>5. \A i \in 1 .. m : 1 + i - 1 = i /\ i \in 1 .. m - 1 + 1
        BY <1>1
      <3> QED BY <3>3, <3>4, <3>5
    <2> HIDE DEF a, b
    <2>3. a = b <=> \A i \in 1 .. m : s[i] = t[i]
      BY <2>2, SeqEqual
    <2> QED BY <1>1, <1>2, <1>3, <2>3 DEF a, b, m, n
  <1> QED BY <1>1, <1>2, <1>3 DEF m, n

LEMMA SuffixOfItself ==
    ASSUME NEW s, IsSeq(s)
    PROVE  IsSuffix(s, s)
  BY ReversedSeq, PrefixElements DEF IsSuffix

\* Theorem: a cookie is sent only where its setter allowed (request_matches_cookie
\* over what Jar::add let into the jar), in a field of an earlier, canceled send too.
THEOREM CookiesStayInScope == JarSpec => []ScopeRespected
  <1>1. JarInv => ScopeRespected
    <2> SUFFICES ASSUME JarInv, NEW t \in Threads, NEW i \in DOMAIN thread[t].header
                 PROVE  LET sent == thread[t].header[i]
                            host == thread[t].uri.host
                        IN  /\ sent.entry.secure => IsHttps(thread[t].uri)
                            /\ \/ sent.entry.setter = host
                               \/ /\ ~sent.key.hostOnly
                                  /\ host.kind = "domain" /\ sent.entry.setter.kind = "domain"
                                  /\ IsSuffix(sent.key.domain.labels, host.labels)
                                  /\ IsSuffix(sent.key.domain.labels, sent.entry.setter.labels)
      BY DEF ScopeRespected
    <2> DEFINE sent == thread[t].header[i]
               uri == thread[t].uri
               domain == sent.key.domain
               setter == sent.entry.setter
    <2>1. HeaderOK(uri, sent)
      BY DEF JarInv, ThreadOK, Carries
    <2> HIDE DEF sent, uri
    <2>2. /\ domain_match(uri.host, domain) /\ IsHost(domain)
          /\ sent.entry.secure => IsHttps(uri)
          /\ IF sent.key.hostOnly THEN setter = domain /\ uri.host = domain
             ELSE domain_match(setter, domain)
      BY <2>1 DEF HeaderOK, EntryOK
    <2> HIDE DEF domain, setter
    <2>3. IsSuffix(domain.labels, domain.labels)
      BY <2>2, SuffixOfItself DEF IsHost
    <2>4. \/ setter = uri.host
          \/ /\ ~sent.key.hostOnly
             /\ uri.host.kind = "domain" /\ setter.kind = "domain"
             /\ IsSuffix(domain.labels, uri.host.labels)
             /\ IsSuffix(domain.labels, setter.labels)
      BY <2>2, <2>3 DEF domain_match
    <2> QED BY <2>2, <2>4 DEF domain, setter, sent, uri
  <1> QED BY <1>1, JarInvHolds, PTL

-----------------------------------------------------------------------------
(* What a plain-http origin can do.                                        *)

\* A Secure cookie alive now was alive when the clock was read.
LEMMA StillAlive ==
    ASSUME NEW e, e.expires # None => e.expires \in Int, NEW time \in Int,
           NEW then \in Int, then <= time, ~cookie_is_expired(e, time)
    PROVE  ~cookie_is_expired(e, then)
  BY DEF cookie_is_expired

\* Theorem: no store of a plain-http origin disturbs a live Secure cookie
\* (would_overlay_secure_cookie under the lock of Jar::add, with the clock
\* read before it).
THEOREM SecureCookiesAreKept == JarSpec => SecureCookieKept
  <1> DEFINE Kept == \A t \in Threads : InsecureAdd(t) =>
                        \A k \in DOMAIN cookies :
                           cookies[k].secure /\ ~cookie_is_expired(cookies[k], now)
                           => k \in DOMAIN cookies' /\ cookies'[k] = cookies[k]
  <1>1. JarInv => Kept
    <2> SUFFICES ASSUME JarInv, NEW t \in Threads, InsecureAdd(t), NEW k \in DOMAIN cookies,
                        cookies[k].secure, ~cookie_is_expired(cookies[k], now)
                 PROVE  k \in DOMAIN cookies' /\ cookies'[k] = cookies[k]
      OBVIOUS
    <2> DEFINE op == thread[t].op
    <2>1. FinishAdd(t) /\ ~op.secureOrigin
      BY DEF InsecureAdd
    <2>2. /\ OpOK(op, now)
          /\ \A j \in DOMAIN cookies \ {op.key} : j \in DOMAIN cookies' /\ cookies'[j] = cookies[j]
          /\ \/ cookies' = cookies
             \/ ~would_overlay_secure_cookie(cookies, op.key, op.now)
      BY <2>1, Finished
    <2> HIDE DEF op
    <2>3. ~cookie_is_expired(cookies[k], op.now)
      <3>1. now \in Int /\ (cookies[k].expires # None => cookies[k].expires \in Int)
        BY DEF JarInv, JarOK, EntryOK
      <3>2. op.now \in Int /\ op.now <= now
        BY <2>2 DEF OpOK
      <3> QED BY <3>1, <3>2, StillAlive
    <2>4. k = op.key => would_overlay_secure_cookie(cookies, op.key, op.now)
      BY <2>3 DEF would_overlay_secure_cookie, domain_match, path_match
    <2> QED BY <2>2, <2>4
  <1> QED BY <1>1, JarInvHolds, PTL DEF SecureCookieKept

\* Two domains that cover one host: one covers the other.
LEMMA DomainsNest ==
    ASSUME NEW host, IsHost(host), NEW a, IsHost(a), NEW b, IsHost(b),
           domain_match(host, a), domain_match(host, b)
    PROVE  domain_match(a, b) \/ domain_match(b, a)
  <1>1. CASE host = a \/ host = b
    BY <1>1
  <1>2. CASE ~(host = a \/ host = b)
    <2>1. /\ a.kind = "domain" /\ b.kind = "domain"
          /\ IsSuffix(a.labels, host.labels) /\ IsSuffix(b.labels, host.labels)
      BY <1>2 DEF domain_match
    <2> DEFINE ra == Reverse(a.labels)
               rb == Reverse(b.labels)
               rh == Reverse(host.labels)
    <2>2. IsPrefix(ra, rh) /\ IsPrefix(rb, rh)
      BY <2>1 DEF IsSuffix
    <2>3. /\ IsSeq(a.labels) /\ IsSeq(b.labels)
          /\ IsSeq(ra) /\ IsSeq(rb) /\ IsSeq(rh)
          /\ Len(ra) = Len(a.labels) /\ Len(rb) = Len(b.labels)
          /\ Len(ra) \in Nat /\ Len(rb) \in Nat
      BY ReversedSeq DEF IsHost
    <2>4. /\ \A i \in 1 .. Len(a.labels) : ra[i] = a.labels[Len(a.labels) - i + 1]
          /\ \A i \in 1 .. Len(b.labels) : rb[i] = b.labels[Len(b.labels) - i + 1]
      BY ReversedSeq DEF IsHost
    <2>5. (IsSuffix(a.labels, b.labels) <=> IsPrefix(ra, rb))
          /\ (IsSuffix(b.labels, a.labels) <=> IsPrefix(rb, ra))
      BY DEF IsSuffix
    <2> HIDE DEF ra, rb, rh
    <2>6. /\ Len(ra) <= Len(rh) /\ \A i \in 1 .. Len(ra) : ra[i] = rh[i]
          /\ Len(rb) <= Len(rh) /\ \A i \in 1 .. Len(rb) : rb[i] = rh[i]
      BY <2>2, <2>3, PrefixElements
    <2>7. CASE Len(ra) < Len(rb)
      <3>1. \A i \in 1 .. Len(ra) : ra[i] = rb[i]
        BY <2>3, <2>6, <2>7
      <3>2. IsPrefix(ra, rb)
        BY <2>3, <2>7, <3>1, PrefixElements
      <3> QED BY <2>1, <2>3, <2>5, <2>7, <3>2 DEF domain_match
    <2>8. CASE Len(rb) < Len(ra)
      <3>1. \A i \in 1 .. Len(rb) : rb[i] = ra[i]
        BY <2>3, <2>6, <2>8
      <3>2. IsPrefix(rb, ra)
        BY <2>3, <2>8, <3>1, PrefixElements
      <3> QED BY <2>1, <2>3, <2>5, <2>8, <3>2 DEF domain_match
    <2>9. CASE Len(ra) = Len(rb)
      <3> DEFINE n == Len(a.labels)
      <3>1. n \in Nat /\ n = Len(b.labels)
        BY <2>3, <2>9
      <3>2. \A i \in 1 .. n : a.labels[n - i + 1] = b.labels[n - i + 1]
        BY <2>3, <2>4, <2>6, <3>1
      <3> HIDE DEF n
      <3>3. \A i \in 1 .. n : n - i + 1 \in 1 .. n /\ n - (n - i + 1) + 1 = i
        BY <3>1
      <3>4. \A i \in 1 .. n : a.labels[i] = b.labels[i]
        BY <3>2, <3>3
      <3>5. a.labels = b.labels
        <4>1. Len(a.labels) = n /\ Len(b.labels) = n
          BY <3>1 DEF n
        <4> QED BY <2>3, <3>4, <4>1, SeqEqual DEF IsSeq
      <3>6. a = b
        BY <2>1, <3>5 DEF IsHost
      <3> QED BY <3>6 DEF domain_match
    <2> QED BY <2>3, <2>7, <2>8, <2>9
  <1> QED BY <1>1, <1>2

\* path_match, segment by segment.
Covers(cookiePath, path) ==
    /\ Len(cookiePath) <= Len(path)
    /\ \A i \in 1 .. Len(cookiePath) - 1 : path[i] = cookiePath[i]
    /\ cookiePath[Len(cookiePath)] = "" \/ path[Len(cookiePath)] = cookiePath[Len(cookiePath)]

LEMMA PathMatched ==
    ASSUME NEW p, IsPath(p), NEW c, IsPath(c)
    PROVE  path_match(p, c) <=> Covers(c, p)
  <1> DEFINE n == Len(c)
             front == SubSeq(c, 1, n - 1)
  <1>1. /\ IsSeq(p) /\ IsSeq(c) /\ Len(p) \in Nat /\ n \in Nat \ {0}
        /\ \A i \in 1 .. n : c[i] \in Range(c)
    BY EmptySeq, LenProperties, ElementOfSeq DEF IsPath, IsSeq
  <1>2. p = c => Covers(c, p)
    BY <1>1 DEF Covers
  <1>3. Front(c) = front /\ Last(c) = c[n]
    BY DEF Front, Last
  <1> HIDE DEF n
  <1>4. /\ front \in Seq(Range(c)) /\ Len(front) = n - 1
        /\ \A i \in 1 .. n - 1 : front[i] = c[i]
    <2>1. 1 \in Int /\ n - 1 \in Int /\ \A i \in 1 .. n - 1 : c[i] \in Range(c)
      BY <1>1
    <2>2. /\ front \in Seq(Range(c)) /\ Len(front) = IF 1 <= n - 1 THEN n - 1 - 1 + 1 ELSE 0
          /\ \A i \in 1 .. n - 1 - 1 + 1 : front[i] = c[1 + i - 1]
      BY <2>1, SubSeqProperties
    <2> HIDE DEF front
    <2>3. n - 1 - 1 + 1 = n - 1 /\ (IF 1 <= n - 1 THEN n - 1 - 1 + 1 ELSE 0) = n - 1
      BY <1>1
    <2>4. \A i \in 1 .. n - 1 : 1 + i - 1 = i
      BY <1>1
    <2> QED BY <2>2, <2>3, <2>4
  <1> HIDE DEF front
  <1>5. IsSeq(front)
    BY <1>4, SeqOfRange DEF IsSeq
  <1>6. CASE c[n] = ""
    <2>1. IsPrefix(front, p) <=> n - 1 <= Len(p) /\ \A i \in 1 .. n - 1 : c[i] = p[i]
      BY <1>1, <1>4, <1>5, PrefixElements
    <2>2. path_match(p, c) <=> p = c \/ (Len(p) >= n /\ IsPrefix(front, p))
      BY <1>3, <1>6 DEF path_match, n
    <2>3. Covers(c, p) <=> n <= Len(p) /\ \A i \in 1 .. n - 1 : p[i] = c[i]
      BY <1>6 DEF Covers, n
    <2> QED BY <1>1, <1>2, <2>1, <2>2, <2>3
  <1>7. CASE c[n] # ""
    <2>1. IsPrefix(c, p) <=> n <= Len(p) /\ \A i \in 1 .. n : c[i] = p[i]
      BY <1>1, PrefixElements DEF n
    <2>2. path_match(p, c) <=> p = c \/ IsPrefix(c, p)
      BY <1>3, <1>7 DEF path_match, IsStrictPrefix
    <2>3. Covers(c, p) <=> n <= Len(p) /\ (\A i \in 1 .. n - 1 : p[i] = c[i]) /\ p[n] = c[n]
      BY <1>7 DEF Covers, n
    <2>4. (\A i \in 1 .. n : c[i] = p[i]) <=> (\A i \in 1 .. n - 1 : p[i] = c[i]) /\ p[n] = c[n]
      BY <1>1
    <2> QED BY <1>2, <2>1, <2>2, <2>3, <2>4
  <1> QED BY <1>6, <1>7

\* Of two paths that match one request, one that does not match the other is
\* the longer.
LEMMA LongerPath ==
    ASSUME NEW p, IsPath(p), NEW k, IsPath(k), NEW s, IsPath(s),
           path_match(p, k), path_match(p, s), ~path_match(k, s)
    PROVE  PathLen(s) > PathLen(k)
  <1>0. PICK empty : empty = ""
    OBVIOUS
  <1> DEFINE m == Len(k)
             n == Len(s)
             nk == {i \in 1 .. m : k[i] # empty}
             ns == {i \in 1 .. n : s[i] # empty}
  <1>1. m \in Nat \ {0} /\ n \in Nat \ {0} /\ Len(p) \in Nat
    BY EmptySeq, LenProperties DEF IsPath, IsSeq
  <1>2. PathLen(k) = m + Cardinality(nk) /\ PathLen(s) = n + Cardinality(ns)
    <2>1. DOMAIN k = 1 .. m /\ DOMAIN s = 1 .. n
      BY LenProperties DEF IsPath, IsSeq
    <2> QED BY <1>0, <2>1, Zenon DEF PathLen
  <1>3. Covers(k, p) /\ Covers(s, p) /\ ~Covers(s, k)
    BY PathMatched
  <1>4. /\ m <= Len(p) /\ (\A i \in 1 .. m - 1 : p[i] = k[i]) /\ (k[m] = empty \/ p[m] = k[m])
        /\ n <= Len(p) /\ (\A i \in 1 .. n - 1 : p[i] = s[i]) /\ (s[n] = empty \/ p[n] = s[n])
    BY <1>0, <1>3, Zenon DEF Covers
  <1>5. \/ ~(n <= m)
        \/ ~(\A i \in 1 .. n - 1 : k[i] = s[i])
        \/ ~(s[n] = empty \/ k[n] = s[n])
    BY <1>0, <1>3, Zenon DEF Covers
  <1> HIDE DEF m, n
  <1>6. IsFiniteSet(nk) /\ IsFiniteSet(ns)
    <2>1. IsFiniteSet(1 .. m) /\ IsFiniteSet(1 .. n)
      BY <1>1, FS_Interval
    <2> QED BY <2>1, FS_Subset
  <1>7. m <= n /\ nk \subseteq ns /\ (m < n \/ n \in ns \ nk)
    <2>1. CASE m < n
      <3>1. \A i \in 1 .. m : k[i] # empty => s[i] = k[i] /\ i \in 1 .. n
        BY <1>1, <1>4, <2>1
      <3> QED BY <1>1, <2>1, <3>1
    <2>2. CASE ~(m < n)
      <3>1. n <= m
        BY <1>1, <2>2
      <3>2. \A i \in 1 .. n - 1 : k[i] = s[i]
        BY <1>1, <1>4, <3>1
      <3>3. s[n] # empty /\ k[n] # s[n]
        BY <1>5, <3>1, <3>2
      <3>4. ~(n < m)
        BY <1>1, <1>4, <3>3
      <3>5. n = m
        BY <1>1, <3>1, <3>4
      <3>6. k[m] = empty
        BY <1>4, <3>3, <3>5
      <3>7. \A i \in 1 .. m : k[i] # empty => i \in 1 .. n - 1
        BY <1>1, <3>5, <3>6
      <3>8. nk \subseteq ns
        BY <3>2, <3>5, <3>7
      <3>9. n \in ns \ nk
        BY <1>1, <3>3, <3>5, <3>6
      <3> QED BY <1>1, <3>5, <3>8, <3>9
    <2> QED BY <2>1, <2>2
  <1> HIDE DEF nk, ns
  <1>8. /\ Cardinality(nk) \in Nat /\ Cardinality(ns) \in Nat
        /\ Cardinality(nk) <= Cardinality(ns)
        /\ nk # ns => Cardinality(nk) # Cardinality(ns)
    BY <1>6, <1>7, FS_Subset, FS_CardinalityType
  <1>9. m < n \/ Cardinality(nk) < Cardinality(ns)
    BY <1>7, <1>8
  <1> QED BY <1>1, <1>2, <1>7, <1>8, <1>9

\* Theorem: no store of a plain-http origin puts a pair before a live Secure
\* cookie of its name in the field of an https request: what the overlay rule
\* of Jar::add lets through has the shorter path.
THEOREM SecureCookiesComeFirst == JarSpec => SecureCookieNotShadowed
  <1> DEFINE First ==
          \A t \in Threads : InsecureAdd(t) =>
             \A uri \in Uris : IsHttps(uri) =>
                LET new == {k \in matching_cookies(cookies', uri, now) : k \notin DOMAIN cookies}
                IN  \A k \in new, s \in matching_cookies(cookies, uri, now) :
                       cookies[s].secure /\ s.name = k.name => Before(cookies', s, k)
  <1>1. JarInv => First
    <2> SUFFICES ASSUME JarInv, NEW t \in Threads, InsecureAdd(t), NEW uri \in Uris,
                        NEW k \in matching_cookies(cookies', uri, now), k \notin DOMAIN cookies,
                        NEW s \in matching_cookies(cookies, uri, now),
                        cookies[s].secure, s.name = k.name
                 PROVE  Before(cookies', s, k)
      OBVIOUS
    <2> DEFINE op == thread[t].op
    <2>1. FinishAdd(t) /\ ~op.secureOrigin
      BY DEF InsecureAdd
    <2>2. /\ OpOK(op, now) /\ JarOK(cookies', nextIndex')
          /\ DOMAIN cookies' \subseteq DOMAIN cookies \cup {op.key}
          /\ \/ cookies' = cookies
             \/ ~would_overlay_secure_cookie(cookies, op.key, op.now)
      BY <2>1, Finished
    <2> HIDE DEF op
    <2>3. /\ k \in DOMAIN cookies' /\ request_matches_cookie(uri, k, cookies'[k], now)
          /\ s \in DOMAIN cookies /\ request_matches_cookie(uri, s, cookies[s], now)
      BY DEF matching_cookies
    <2>4. k = op.key /\ ~would_overlay_secure_cookie(cookies, k, op.now)
      BY <2>2, <2>3
    <2>5. EntryOK(s, cookies[s]) /\ EntryOK(k, cookies'[k])
      BY <2>2, <2>3 DEF JarInv, JarOK
    <2>6. IsPath(s.path) /\ IsHost(s.domain) /\ IsPath(k.path) /\ IsHost(k.domain)
      BY <2>5 DEF EntryOK
    <2>7. IsHost(uri.host) /\ IsPath(uri.path)
      BY UrisAssumption
    <2>8. /\ domain_match(uri.host, k.domain) /\ path_match(uri.path, k.path)
          /\ domain_match(uri.host, s.domain) /\ path_match(uri.path, s.path)
          /\ ~cookie_is_expired(cookies[s], now)
      BY <2>3 DEF request_matches_cookie
    <2>9. ~cookie_is_expired(cookies[s], op.now)
      <3>1. now \in Int /\ (cookies[s].expires # None => cookies[s].expires \in Int)
        BY <2>5 DEF JarInv, EntryOK
      <3>2. op.now \in Int /\ op.now <= now
        BY <2>2 DEF OpOK
      <3> QED BY <2>8, <3>1, <3>2, StillAlive
    <2>10. domain_match(s.domain, k.domain) \/ domain_match(k.domain, s.domain)
      BY <2>6, <2>7, <2>8, DomainsNest
    <2>11. ~path_match(k.path, s.path)
      BY <2>3, <2>4, <2>9, <2>10 DEF would_overlay_secure_cookie
    <2>12. PathLen(s.path) > PathLen(k.path)
      BY <2>6, <2>7, <2>8, <2>11, LongerPath
    <2> QED BY <2>12 DEF Before
  <1> QED BY <1>1, JarInvHolds, PTL DEF SecureCookieNotShadowed

-----------------------------------------------------------------------------
(* Snapshots.                                                              *)

\* A set of numbers that is not empty has a least element.
LEMMA LeastNumber ==
    ASSUME NEW T \in SUBSET Nat, T # {}
    PROVE  \E m \in T : \A n \in T : m <= n
  <1>1. PICK m \in T : \A n \in T : ~(<<n, m>> \in OpToRel(<, Nat))
    BY NatLessThanWellFounded, WFMin
  <1>2. \A n \in T : n \in Nat
    OBVIOUS
  <1>3. \A n \in T : ~(n < m)
    BY <1>1, <1>2 DEF OpToRel
  <1> QED BY <1>2, <1>3

Home(k) == [scheme |-> "https", host |-> k.domain, path |-> Root]

NoCookies == [jar |-> << >>, next |-> 0]

\* What Import does with one cookie.
Brought(jar, time, store, k) == add(store, Shown(jar, k), Home(k), time)

\* f is the fold of Import over every subset of 1 .. n.
Folds(f, jar, time, s, n) ==
    f = [S \in SUBSET (1 .. n) |->
            IF S = {} THEN NoCookies ELSE Brought(jar, time, f[S \ {Max(S)}], s[Max(S)])]

Upto(jar, time, s, k) == (CHOOSE f : Folds(f, jar, time, s, Len(s)))[1 .. k]

LEMMA MaxUpto ==
    ASSUME NEW k \in Nat, NEW S \in SUBSET (1 .. k), k \in S
    PROVE  Max(S) = k
  <1>1. \A y \in S : y \in 1 .. k
    OBVIOUS
  <1>2. \A y \in S : k >= y
    BY <1>1
  <1>3. \A x \in S : (\A y \in S : x >= y) => x = k
    BY <1>1
  <1> QED BY <1>2, <1>3 DEF Max

LEMMA FoldGrows ==
    ASSUME NEW jar, NEW time, NEW s, NEW m \in Nat, NEW f, Folds(f, jar, time, s, m)
    PROVE  \E g : Folds(g, jar, time, s, m + 1)
  <1> DEFINE g == [S \in SUBSET (1 .. m + 1) |->
                      IF S = {} THEN NoCookies
                      ELSE IF m + 1 \in S THEN Brought(jar, time, f[S \ {m + 1}], s[m + 1])
                      ELSE f[S]]
  <1>1. \A S \in SUBSET (1 .. m) : g[S] = f[S]
    BY DEF Folds
  <1>2. ASSUME NEW S \in SUBSET (1 .. m + 1), S # {}
        PROVE  g[S] = Brought(jar, time, g[S \ {Max(S)}], s[Max(S)])
    <2>1. CASE m + 1 \in S
      <3>1. Max(S) = m + 1
        BY <2>1, MaxUpto
      <3>2. S \ {m + 1} \in SUBSET (1 .. m)
        OBVIOUS
      <3>3. g[S] = Brought(jar, time, f[S \ {m + 1}], s[m + 1])
        BY <2>1
      <3> QED BY <3>1, <3>2, <3>3, <1>1
    <2>2. CASE m + 1 \notin S
      <3>0. \A i \in S : i \in 1 .. m
        BY <2>2
      <3>1. S \in SUBSET (1 .. m) /\ S \ {Max(S)} \in SUBSET (1 .. m)
        BY <3>0
      <3>2. f[S] = Brought(jar, time, f[S \ {Max(S)}], s[Max(S)])
        BY <3>1, <1>2 DEF Folds
      <3> HIDE DEF g
      <3> QED BY <3>1, <3>2, <1>1
    <2> QED BY <2>1, <2>2
  <1>3. g = [S \in SUBSET (1 .. m + 1) |-> g[S]]
    OBVIOUS
  <1>4. g[{}] = NoCookies
    OBVIOUS
  <1> HIDE DEF g
  <1>5. Folds(g, jar, time, s, m + 1)
    BY <1>2, <1>3, <1>4 DEF Folds
  <1> QED BY <1>5

LEMMA FoldExists ==
    ASSUME NEW jar, NEW time, NEW s, NEW n \in Nat
    PROVE  \E f : Folds(f, jar, time, s, n)
  <1> DEFINE Without == {m \in Nat : ~ \E f : Folds(f, jar, time, s, m)}
  <1>1. SUFFICES Without = {}
    OBVIOUS
  <1>2. SUFFICES ASSUME Without # {} PROVE FALSE
    OBVIOUS
  <1>3. PICK m \in Without : \A k \in Without : m <= k
    BY <1>2, LeastNumber
  <1>4. CASE m = 0
    <2> DEFINE f == [S \in SUBSET (1 .. 0) |-> NoCookies]
    <2>1. Folds(f, jar, time, s, 0)
      BY DEF Folds
    <2> HIDE DEF f
    <2> QED BY <2>1, <1>4
  <1>5. CASE m # 0
    <2>1. m - 1 \in Nat /\ m - 1 \notin Without
      BY <1>5, <1>3
    <2>2. PICK f : Folds(f, jar, time, s, m - 1)
      BY <2>1
    <2>3. \E g : Folds(g, jar, time, s, m - 1 + 1)
      BY <2>1, <2>2, FoldGrows
    <2> QED BY <2>3, <1>3
  <1> QED BY <1>4, <1>5

\* Import takes the cookies of a snapshot one by one.
LEMMA OneByOne ==
    ASSUME NEW jar, NEW time, NEW s, Len(s) \in Nat
    PROVE  /\ Upto(jar, time, s, 0) = NoCookies
           /\ \A k \in 1 .. Len(s) :
                 Upto(jar, time, s, k) = Brought(jar, time, Upto(jar, time, s, k - 1), s[k])
  <1> DEFINE f == CHOOSE f : Folds(f, jar, time, s, Len(s))
  <1>1. Folds(f, jar, time, s, Len(s))
    BY FoldExists
  <1>2. \A k : Upto(jar, time, s, k) = f[1 .. k]
    BY DEF Upto
  <1> HIDE DEF f
  <1>3. f[1 .. 0] = NoCookies
    BY <1>1 DEF Folds
  <1>4. ASSUME NEW k \in 1 .. Len(s)
        PROVE  f[1 .. k] = Brought(jar, time, f[1 .. k - 1], s[k])
    <2>1. Max(1 .. k) = k
      BY MaxUpto
    <2>2. (1 .. k) \ {k} = 1 .. k - 1
      OBVIOUS
    <2>3. 1 .. k \in SUBSET (1 .. Len(s)) /\ 1 .. k # {}
      OBVIOUS
    <2> QED BY <1>1, <2>1, <2>2, <2>3 DEF Folds
  <1> QED BY <1>2, <1>3, <1>4

LEMMA ImportFold ==
    ASSUME NEW jar, NEW s, Len(s) \in Nat, DOMAIN s = 1 .. Len(s)
    PROVE  Import(s, jar) = Upto(jar, now, s, Len(s)).jar
  BY DEF Import, FoldLeft, MapThenFoldSet, Upto, Folds, Brought, Home, NoCookies

\* A cookie of the jar as it is stored again.
Again(jar, k, index) ==
    [value |-> jar[k].value, secure |-> jar[k].secure, expires |-> jar[k].expires,
     index |-> index, setter |-> k.domain]

LEMMA Rescoped ==
    ASSUME NEW jar, NEW k, EntryOK(k, jar[k]), NEW time \in Int,
           ~cookie_is_expired(jar[k], time)
    PROVE  /\ ~Ignored(Shown(jar, k), Home(k))
           /\ Scoped(Shown(jar, k), Home(k), time)
                = [key |-> k, entry |-> Again(jar, k, 0), secureOrigin |-> TRUE,
                   expired |-> FALSE, now |-> time]
  <1> DEFINE c == Shown(jar, k)
             home == Home(k)
  <1>1. /\ c.name = k.name /\ c.value = jar[k].value /\ c.path = k.path
        /\ c.domain = (IF k.hostOnly THEN None ELSE k.domain)
        /\ c.secure = jar[k].secure /\ c.maxAge = None /\ c.expires = jar[k].expires
    BY DEF Shown
  <1>2. IsHttps(home) /\ home.host = k.domain
    BY DEF Home, IsHttps
  <1>3. KeyOK(k)
    BY DEF EntryOK
  <1> HIDE DEF c, home
  <1>4. ~Ignored(c, home)
    BY <1>1, <1>2 DEF Ignored, domain_match
  <1>5. ~(c.expires # None /\ c.expires <= time)
    BY <1>1 DEF cookie_is_expired
  <1>6. (c.domain = None) = k.hostOnly
    BY <1>1, <1>3 DEF KeyOK
  <1>7. (IF c.domain = None THEN home.host ELSE c.domain) = k.domain
    BY <1>1, <1>2, <1>3 DEF KeyOK
  <1>8. (IF c.path = None THEN normalize_path(home.path) ELSE c.path) = k.path
    BY <1>1, <1>3 DEF KeyOK
  <1>9. [domain |-> IF c.domain = None THEN home.host ELSE c.domain,
         path |-> IF c.path = None THEN normalize_path(home.path) ELSE c.path,
         hostOnly |-> c.domain = None, name |-> c.name] = k
    BY <1>1, <1>3, <1>6, <1>7, <1>8 DEF KeyOK
  <1>10. [value |-> c.value, secure |-> c.secure,
          expires |-> IF c.maxAge # None THEN time + c.maxAge ELSE c.expires,
          index |-> 0, setter |-> home.host] = Again(jar, k, 0)
    BY <1>1, <1>2 DEF Again
  <1>11. (IF c.maxAge # None THEN c.maxAge <= 0 ELSE c.expires # None /\ c.expires <= time) = FALSE
    BY <1>1, <1>5
  <1>12. IsHttps(home) = TRUE
    BY <1>2 DEF IsHttps
  <1>13. Scoped(c, home, time)
           = [key |-> k, entry |-> Again(jar, k, 0), secureOrigin |-> TRUE,
              expired |-> FALSE, now |-> time]
    BY <1>9, <1>10, <1>11, <1>12 DEF Scoped
  <1> QED BY <1>4, <1>13 DEF c, home

\* A cookie that is not there yet goes to the end of the order.
LEMMA BroughtOne ==
    ASSUME NEW jar, NEW k, EntryOK(k, jar[k]), NEW time \in Int,
           ~cookie_is_expired(jar[k], time),
           NEW copy, NEW next, k \notin DOMAIN copy
    PROVE  Brought(jar, time, [jar |-> copy, next |-> next], k)
             = [jar |-> Put(copy, k, Again(jar, k, next)), next |-> next + 1]
  <1> DEFINE store == [jar |-> copy, next |-> next]
             op == [key |-> k, entry |-> Again(jar, k, 0), secureOrigin |-> TRUE,
                    expired |-> FALSE, now |-> time]
  <1>1. Brought(jar, time, store, k) = Stored(store, op)
    BY Rescoped DEF Brought, add
  <1>2. Stored(store, op) = insert_stored_cookie(store, k, Again(jar, k, 0))
    BY DEF Stored
  <1>3. insert_stored_cookie(store, k, Again(jar, k, 0))
          = [jar |-> Put(copy, k, [Again(jar, k, 0) EXCEPT !.index = next]), next |-> next + 1]
    BY DEF insert_stored_cookie
  <1>4. [Again(jar, k, 0) EXCEPT !.index = next] = Again(jar, k, next)
    BY DEF Again
  <1> QED BY <1>1, <1>2, <1>3, <1>4

\* The cookies a snapshot holds, each stored again with its place in it.
PlaceOf(jar, time, k) == Rank(Unexpired(jar, time), Created(jar, Unexpired(jar, time)), k)
FirstOf(jar, time, k) == {get_all(jar, time)[i] : i \in 1 .. k}
Part(jar, time, k) ==
    [x \in FirstOf(jar, time, k) |-> Again(jar, x, PlaceOf(jar, time, x))]

LEMMA SnapshotKeys ==
    ASSUME NEW jar, NEW next, JarOK(jar, next), NEW time
    PROVE  LET s == get_all(jar, time)
           IN  /\ Len(s) \in Nat /\ DOMAIN s = 1 .. Len(s)
               /\ \A i \in 1 .. Len(s) : /\ s[i] \in Unexpired(jar, time)
                                         /\ PlaceOf(jar, time, s[i]) = i - 1
               /\ \A k \in Unexpired(jar, time) : \E i \in 1 .. Len(s) : s[i] = k
               /\ \A k \in Unexpired(jar, time) : PlaceOf(jar, time, k) \in Nat
               /\ \A j, k \in Unexpired(jar, time) :
                     Older(jar, j, k) <=> PlaceOf(jar, time, j) < PlaceOf(jar, time, k)
  <1> DEFINE live == Unexpired(jar, time)
             R == Created(jar, live)
             s == get_all(jar, time)
  <1>1. live \subseteq DOMAIN jar
    BY DEF Unexpired
  <1>2. IsFiniteSet(live) /\ Ordered(jar, live)
    BY <1>1, FS_Subset DEF JarOK, Ordered
  <1>3. s = Placed(live, R)
    BY CookiesInPlace
  <1>4. \A j, k \in live : <<j, k>> \in R <=> Older(jar, j, k)
    BY DEF Created
  <1> HIDE DEF live, s
  <1>5. IsOrder(live, R)
    BY <1>2, Orders
  <1>6. \A k : PlaceOf(jar, time, k) = Rank(live, R, k)
    BY DEF PlaceOf, live
  <1> HIDE DEF R
  <1>7. /\ Len(s) \in Nat /\ DOMAIN s = 1 .. Len(s)
        /\ \A i \in DOMAIN s : s[i] \in live /\ 1 + Rank(live, R, s[i]) = i
        /\ \A k \in live : \E i \in DOMAIN s : s[i] = k
    BY <1>2, <1>3, <1>5, PlacedKeys
  <1>8. /\ \A k \in live : Rank(live, R, k) \in Nat
        /\ \A j, k \in live : <<j, k>> \in R <=> Rank(live, R, j) < Rank(live, R, k)
    BY <1>2, <1>5, Ranks
  <1>9. \A i \in 1 .. Len(s) : s[i] \in live /\ Rank(live, R, s[i]) = i - 1
    BY <1>7, <1>8
  <1>10. \A k \in live : \E i \in 1 .. Len(s) : s[i] = k
    BY <1>7
  <1> QED BY <1>4, <1>6, <1>7, <1>8, <1>9, <1>10 DEF live, s

LEMMA PartGrows ==
    ASSUME NEW jar, NEW next, JarOK(jar, next), NEW time \in Int,
           NEW k \in 1 .. Len(get_all(jar, time))
    PROVE  Brought(jar, time, [jar |-> Part(jar, time, k - 1), next |-> k - 1],
                   get_all(jar, time)[k])
             = [jar |-> Part(jar, time, k), next |-> k]
  <1> DEFINE s == get_all(jar, time)
             x == s[k]
             old == Part(jar, time, k - 1)
             new == Put(old, x, Again(jar, x, k - 1))
  <1>1. /\ Len(s) \in Nat
        /\ \A i \in 1 .. Len(s) : s[i] \in Unexpired(jar, time) /\ PlaceOf(jar, time, s[i]) = i - 1
    BY SnapshotKeys
  <1>2. \A m \in Nat : \A y : y \in FirstOf(jar, time, m) <=> \E i \in 1 .. m : y = s[i]
    BY DEF FirstOf
  <1>3. /\ DOMAIN old = FirstOf(jar, time, k - 1)
        /\ \A y \in FirstOf(jar, time, k - 1) : old[y] = Again(jar, y, PlaceOf(jar, time, y))
    BY DEF Part
  <1> HIDE DEF s
  <1>4. k \in Nat /\ k - 1 \in Nat /\ 1 <= k /\ k <= Len(s) /\ k \in 1 .. Len(s)
    BY <1>1 DEF s
  <1>5. x \notin FirstOf(jar, time, k - 1)
    <2> SUFFICES ASSUME x \in FirstOf(jar, time, k - 1) PROVE FALSE
      OBVIOUS
    <2>1. PICK i \in 1 .. k - 1 : x = s[i]
      BY <1>2, <1>4
    <2>2. i \in 1 .. Len(s) /\ i - 1 # k - 1
      BY <1>1, <1>4
    <2> QED BY <1>1, <1>4, <2>1, <2>2
  <1>6. FirstOf(jar, time, k) = FirstOf(jar, time, k - 1) \cup {x}
    <2>1. 1 .. k = (1 .. k - 1) \cup {k}
      BY <1>4
    <2> QED BY <1>2, <1>4, <2>1
  <1>7. PlaceOf(jar, time, x) = k - 1 /\ x \in Unexpired(jar, time)
    BY <1>1, <1>4
  <1>8. x \in DOMAIN jar /\ ~cookie_is_expired(jar[x], time)
    BY <1>7 DEF Unexpired
  <1>9. EntryOK(x, jar[x])
    BY <1>8 DEF JarOK
  <1> HIDE DEF x, old
  <1>10. Brought(jar, time, [jar |-> old, next |-> k - 1], x) = [jar |-> new, next |-> k - 1 + 1]
    BY <1>3, <1>5, <1>8, <1>9, BroughtOne
  <1>11. new = Part(jar, time, k)
    <2> DEFINE A(y) == Again(jar, y, PlaceOf(jar, time, y))
    <2>1. Again(jar, x, k - 1) = A(x)
      BY <1>7
    <2>2. Part(jar, time, k) = [y \in FirstOf(jar, time, k) |-> A(y)]
      BY DEF Part
    <2>3. \A y \in FirstOf(jar, time, k - 1) : old[y] = A(y)
      BY <1>3
    <2> HIDE DEF A
    <2> QED BY <1>3, <1>5, <1>6, <2>1, <2>2, <2>3 DEF Put
  <1> HIDE DEF new
  <1>12. k - 1 + 1 = k
    BY <1>4
  <1> QED BY <1>10, <1>11, <1>12 DEF s, x, old

\* What Import makes of a snapshot: the same keys, in the same order.
LEMMA Imported ==
    ASSUME NEW jar, NEW next, JarOK(jar, next), NEW time \in Int
    PROVE  LET s == get_all(jar, time)
           IN  Upto(jar, time, s, Len(s)).jar = Part(jar, time, Len(s))
  <1> DEFINE s == get_all(jar, time)
             n == Len(s)
             Right(k) == Upto(jar, time, s, k) = [jar |-> Part(jar, time, k), next |-> k]
             Wrong == {k \in Nat : k <= n /\ ~Right(k)}
  <1>1. n \in Nat
    BY SnapshotKeys
  <1>2. /\ Upto(jar, time, s, 0) = NoCookies
        /\ \A k \in 1 .. n :
              Upto(jar, time, s, k) = Brought(jar, time, Upto(jar, time, s, k - 1), s[k])
    BY <1>1, OneByOne
  <1>3. Right(0)
    <2>1. FirstOf(jar, time, 0) = {}
      BY DEF FirstOf
    <2>2. Part(jar, time, 0) = << >>
      BY <2>1 DEF Part
    <2> QED BY <1>2, <2>2 DEF NoCookies
  <1>4. ASSUME NEW k \in 1 .. n, Right(k - 1) PROVE Right(k)
    BY <1>2, <1>4, PartGrows
  <1>5. Wrong = {}
    <2> SUFFICES ASSUME Wrong # {} PROVE FALSE
      OBVIOUS
    <2> HIDE DEF Right, n
    <2>1. PICK m \in Wrong : \A k \in Wrong : m <= k
      BY LeastNumber
    <2>2. m \in Nat /\ m <= n /\ ~Right(m) /\ m # 0
      BY <1>3
    <2>3. m - 1 \in Nat /\ m - 1 <= n /\ m \in 1 .. n
      BY <1>1, <2>2
    <2>4. m - 1 \notin Wrong
      BY <2>1, <2>2
    <2>5. Right(m - 1)
      BY <2>3, <2>4
    <2> QED BY <1>4, <2>2, <2>3, <2>5
  <1>6. Right(n)
    <2> HIDE DEF Right, n
    <2> QED BY <1>1, <1>5
  <1> QED BY <1>6

\* The copy shows what the jar shows, and orders it in the same way.
Mirrors(copy, jar, time) ==
    /\ DOMAIN copy = Unexpired(jar, time)
    /\ \A k \in Unexpired(jar, time) :
          /\ copy[k].value = jar[k].value /\ copy[k].secure = jar[k].secure
          /\ copy[k].expires = jar[k].expires
    /\ \A j, k \in Unexpired(jar, time) : Older(copy, j, k) <=> Older(jar, j, k)

LEMMA Mirrored ==
    ASSUME JarInv
    PROVE  Mirrors(Import(get_all(cookies, now), cookies), cookies, now)
  <1> DEFINE s == get_all(cookies, now)
             n == Len(s)
             live == Unexpired(cookies, now)
             place(k) == PlaceOf(cookies, now, k)
             copy == Import(s, cookies)
  <1>1. JarOK(cookies, nextIndex) /\ now \in Int
    BY DEF JarInv
  <1>2. /\ n \in Nat /\ DOMAIN s = 1 .. n
        /\ \A i \in 1 .. n : s[i] \in live
        /\ \A k \in live : \E i \in 1 .. n : s[i] = k
        /\ \A j, k \in live : Older(cookies, j, k) <=> place(j) < place(k)
    BY <1>1, SnapshotKeys
  <1>3. copy = Part(cookies, now, n)
    BY <1>1, <1>2, ImportFold, Imported
  <1>4. FirstOf(cookies, now, n) = live
    <2>1. FirstOf(cookies, now, n) = {s[i] : i \in 1 .. n}
      BY DEF FirstOf
    <2> HIDE DEF s, n, live
    <2> QED BY <1>2, <2>1
  <1>5. DOMAIN copy = live /\ \A k \in live : copy[k] = Again(cookies, k, place(k))
    <2> HIDE DEF copy, n, live
    <2> QED BY <1>3, <1>4 DEF Part
  <1> HIDE DEF copy, live, place
  <1>6. \A k \in live : /\ copy[k].value = cookies[k].value /\ copy[k].secure = cookies[k].secure
                        /\ copy[k].expires = cookies[k].expires /\ copy[k].index = place(k)
    BY <1>5 DEF Again
  <1>7. \A j, k \in live : Older(copy, j, k) <=> Older(cookies, j, k)
    BY <1>2, <1>6 DEF Older
  <1> QED BY <1>5, <1>6, <1>7 DEF Mirrors, live, copy

\* The same requests and lookups find the same keys.
LEMMA SameKeys ==
    ASSUME NEW jar, NEW copy, NEW time, Mirrors(copy, jar, time)
    PROVE  /\ Unexpired(copy, time) = Unexpired(jar, time)
           /\ \A k \in Unexpired(jar, time) : Shown(copy, k) = Shown(jar, k)
           /\ \A uri : matching_cookies(copy, uri, time) = matching_cookies(jar, uri, time)
           /\ \A uri : matching_cookies(jar, uri, time) \subseteq Unexpired(jar, time)
  <1> DEFINE live == Unexpired(jar, time)
  <1>1. \A k \in live : k \in DOMAIN jar /\ ~cookie_is_expired(jar[k], time)
    BY DEF Unexpired
  <1>2. /\ DOMAIN copy = live
        /\ \A k \in live : /\ copy[k].value = jar[k].value /\ copy[k].secure = jar[k].secure
                           /\ copy[k].expires = jar[k].expires
    BY DEF Mirrors
  <1>3. \A uri : matching_cookies(jar, uri, time) \subseteq live
    BY DEF matching_cookies, request_matches_cookie, Unexpired
  <1>4. \A uri, k : k \in matching_cookies(jar, uri, time)
                      <=> k \in live /\ request_matches_cookie(uri, k, jar[k], time)
    BY <1>1, <1>3 DEF matching_cookies
  <1> HIDE DEF live
  <1>5. \A k \in live : cookie_is_expired(copy[k], time) <=> cookie_is_expired(jar[k], time)
    BY <1>2 DEF cookie_is_expired
  <1>6. Unexpired(copy, time) = live
    BY <1>1, <1>2, <1>5 DEF Unexpired
  <1>7. \A k \in live : Shown(copy, k) = Shown(jar, k)
    BY <1>2 DEF Shown
  <1>8. \A uri : \A k \in live : request_matches_cookie(uri, k, copy[k], time)
                                   <=> request_matches_cookie(uri, k, jar[k], time)
    BY <1>2, <1>5 DEF request_matches_cookie
  <1>9. \A uri : matching_cookies(copy, uri, time) = matching_cookies(jar, uri, time)
    <2> TAKE uri
    <2>1. \A k : k \in matching_cookies(copy, uri, time)
                   <=> k \in live /\ request_matches_cookie(uri, k, copy[k], time)
      BY <1>2 DEF matching_cookies
    <2> QED BY <1>4, <1>8, <2>1
  <1> QED BY <1>3, <1>6, <1>7, <1>9 DEF live

\* Requests collect the same cookies in the same order.
LEMMA SameField ==
    ASSUME NEW jar, NEW copy, NEW time, Mirrors(copy, jar, time), NEW uri
    PROVE  cookies_for(copy, uri, time) = cookies_for(jar, uri, time)
  <1> DEFINE keys == matching_cookies(jar, uri, time)
  <1>1. keys \subseteq Unexpired(jar, time) /\ matching_cookies(copy, uri, time) = keys
    BY SameKeys
  <1>2. /\ cookies_for(jar, uri, time) = Placed(keys, Sent(jar, keys))
        /\ cookies_for(copy, uri, time) = Placed(keys, Sent(copy, keys))
    BY <1>1, CookiesInPlace
  <1> HIDE DEF keys
  <1>3. \A j, k \in keys : Older(copy, j, k) <=> Older(jar, j, k)
    BY <1>1 DEF Mirrors
  <1>4. \A j, k \in keys : Before(copy, j, k) <=> Before(jar, j, k)
    BY <1>3 DEF Before
  <1>5. Sent(copy, keys) = Sent(jar, keys)
    <2>1. \A p \in keys \X keys : p[1] \in keys /\ p[2] \in keys
      OBVIOUS
    <2> QED BY <1>4, <2>1 DEF Sent
  <1> QED BY <1>2, <1>5

\* The oldest of some cookies.
LEMMA Oldest ==
    ASSUME NEW jar, NEW keys, Ordered(jar, keys), keys # {}
    PROVE  \E k \in keys : \A j \in keys \ {k} : Older(jar, k, j)
  <1> DEFINE T == {jar[k].index : k \in keys}
  <1>1. T \in SUBSET Nat /\ T # {}
    BY DEF Ordered
  <1>2. PICK m \in T : \A n \in T : m <= n
    BY <1>1, LeastNumber
  <1>3. PICK k \in keys : m = jar[k].index
    OBVIOUS
  <1>4. \A j \in keys : jar[j].index \in Nat /\ m <= jar[j].index
    BY <1>2 DEF Ordered
  <1>5. \A j \in keys \ {k} : jar[j].index # jar[k].index
    BY DEF Ordered
  <1>6. \A j \in keys \ {k} : Older(jar, k, j)
    BY <1>3, <1>4, <1>5 DEF Older
  <1> QED BY <1>6

\* Jar::get and Jar::contains answer the same, and agree with each other.
LEMMA SameLookup ==
    ASSUME NEW jar, NEW next, JarOK(jar, next), NEW copy, NEW time,
           Mirrors(copy, jar, time), NEW uri, NEW name
    PROVE  /\ get(copy, name, uri, time) = get(jar, name, uri, time)
           /\ contains(copy, name, uri, time) <=> get(jar, name, uri, time) # None
  <1> DEFINE found == {k \in Unexpired(jar, time) : k.name = name /\ k.domain = uri.host
                                                    /\ k.path = uri.path}
             mine(k) == \A j \in found \ {k} : Older(jar, k, j)
             theirs(k) == \A j \in found \ {k} : Older(copy, k, j)
             x == CHOOSE k \in found : mine(k)
             y == CHOOSE k \in found : theirs(k)
  <1>1. Unexpired(copy, time) = Unexpired(jar, time)
    BY SameKeys
  <1>2. /\ get(jar, name, uri, time) = (IF found = {} THEN None ELSE Shown(jar, x))
        /\ get(copy, name, uri, time) = (IF found = {} THEN None ELSE Shown(copy, y))
    <2> DEFINE again == {k \in Unexpired(copy, time) : k.name = name /\ k.domain = uri.host
                                                       /\ k.path = uri.path}
               oldest(S) == CHOOSE k \in S : \A j \in S \ {k} : Older(copy, k, j)
    <2>1. get(jar, name, uri, time) = (IF found = {} THEN None ELSE Shown(jar, x))
      BY DEF get
    <2>2. get(copy, name, uri, time) = (IF again = {} THEN None ELSE Shown(copy, oldest(again)))
      BY DEF get
    <2>3. again = found
      BY <1>1
    <2>4. y = oldest(found)
      OBVIOUS
    <2> HIDE DEF found, again, oldest, x, y
    <2> QED BY <2>1, <2>2, <2>3, <2>4
  <1>3. contains(copy, name, uri, time) <=> found # {}
    BY <1>1 DEF contains
  <1>4. found \subseteq Unexpired(jar, time) /\ found \subseteq DOMAIN jar
    BY DEF Unexpired
  <1> HIDE DEF found
  <1>5. \A k \in found : mine(k) <=> theirs(k)
    BY <1>4 DEF Mirrors
  <1>6. found # {} => x \in found
    <2>1. Ordered(jar, found)
      BY <1>4 DEF JarOK, Ordered
    <2>2. found # {} => \E k \in found : mine(k)
      BY <2>1, Oldest
    <2> QED BY <2>2
  <1>7. x = y
    <2> HIDE DEF mine, theirs
    <2>1. \A k : (k \in found /\ mine(k)) <=> (k \in found /\ theirs(k))
      BY <1>5
    <2> QED BY <2>1
  <1> HIDE DEF x, y, mine, theirs
  <1>8. found # {} => Shown(copy, x) = Shown(jar, x) /\ Shown(jar, x) # None
    <2> SUFFICES ASSUME found # {}
                 PROVE  Shown(copy, x) = Shown(jar, x) /\ Shown(jar, x) # None
      OBVIOUS
    <2>1. x \in Unexpired(jar, time) /\ x \in DOMAIN jar
      BY <1>4, <1>6
    <2>2. Shown(copy, x) = Shown(jar, x)
      BY <2>1, SameKeys
    <2>3. Exported(x, jar[x]) # None
      BY <2>1 DEF JarOK, EntryOK
    <2>4. Shown(jar, x) = Exported(x, jar[x])
      BY DEF Shown, Exported
    <2> QED BY <2>2, <2>3, <2>4
  <1> QED BY <1>2, <1>3, <1>7, <1>8

\* Theorem: a snapshot of get_all stored again through add answers every lookup
\* and every request as the jar it was taken from: each cookie keeps its key,
\* and creation order numbers the cookies alike.
THEOREM SnapshotsAreFaithful == JarSpec => []SnapshotFaithful
  <1>1. JarInv => SnapshotFaithful
    <2> SUFFICES ASSUME JarInv PROVE SnapshotFaithful
      OBVIOUS
    <2> DEFINE copy == Import(get_all(cookies, now), cookies)
               Pairs(jar, keys) == [i \in DOMAIN keys |-> Shown(jar, keys[i])]
    <2>1. JarOK(cookies, nextIndex) /\ Mirrors(copy, cookies, now)
      BY Mirrored DEF JarInv
    <2> HIDE DEF copy
    <2>2. len(copy, now) = len(cookies, now)
      BY <2>1, SameKeys DEF len
    <2>3. ASSUME NEW uri \in Uris
          PROVE  Pairs(copy, cookies_for(copy, uri, now))
                   = Pairs(cookies, cookies_for(cookies, uri, now))
      <3> DEFINE all == cookies_for(cookies, uri, now)
      <3>1. cookies_for(copy, uri, now) = all
        BY <2>1, SameField
      <3>2. \A i \in DOMAIN all : all[i] \in matching_cookies(cookies, uri, now)
        BY <2>1, Collected DEF JarOK
      <3> HIDE DEF all
      <3>3. \A i \in DOMAIN all : Shown(copy, all[i]) = Shown(cookies, all[i])
        BY <2>1, <3>2, SameKeys
      <3>4. Pairs(copy, all) = Pairs(cookies, all)
        BY <3>3
      <3> QED BY <3>1, <3>4 DEF all
    <2>4. ASSUME NEW uri \in Uris, NEW name \in Names
          PROVE  /\ get(copy, name, uri, now) = get(cookies, name, uri, now)
                 /\ contains(copy, name, uri, now) <=> get(cookies, name, uri, now) # None
      BY <2>1, SameLookup
    <2> QED BY <2>2, <2>3, <2>4 DEF SnapshotFaithful, copy
  <1> QED BY <1>1, JarInvHolds, PTL
=============================================================================

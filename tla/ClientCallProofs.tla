-------------------------- MODULE ClientCallProofs --------------------------
(***************************************************************************)
(* Theorems about ClientCall, for any calls, answers, headers and sequence *)
(* of builder calls: an abort is honoured, the limit on a body is exact, a *)
(* WebSocket is handed out for a proven handshake only, and a body is as   *)
(* long as its request declares.                                           *)
(*                                                                         *)
(* First what the folds of the model compute, by least counterexample;     *)
(* then what the operators of RequestBuilder make of a header map and of a *)
(* request; then each action as a relation between a call before and after *)
(* it; then the three parts of Inv, one lemma for each, and three theorems;*)
(* last BodiesInv, from the pieces of a body up, and its theorem.          *)
(***************************************************************************)
EXTENDS ClientCall, SequenceTheorems, WellFoundedInduction, TLAPS

-----------------------------------------------------------------------------
(* Folds.                                                                  *)

\* A set of numbers that is not empty has a least element.
LEMMA LeastNumber ==
  ASSUME NEW T \in SUBSET Nat, T # {}
  PROVE  \E m \in T : \A n \in T : m <= n
<1>1. PICK m \in T : \A n \in T : ~(<<n, m>> \in OpToRel(<, Nat))
  BY NatLessThanWellFounded, WFMin
<1>2. \A n \in T : n \in Nat
  OBVIOUS
<1>3. \A n \in T : ~(n < m)
  BY <1>1, <1>2 DEF OpToRel
<1> QED BY <1>2, <1>3

\* What compute_length counts for a field.
LengthOf(f, field) ==
    2 + f.boundary + 2 + PartHeader(f, field) + 4 + value_len(field.part) + 2

\* What one element does to the folds of the model.
Step(kind, env, acc, x) ==
    IF kind = "entries" THEN set_values(acc, x.name, x.values)
    ELSE IF kind = "lines" THEN header_sensitive(acc, x[1], x[2])
    ELSE IF kind = "parts" THEN acc \o part_stream(env, x)
    ELSE IF kind = "lengths" THEN acc + LengthOf(env, x)
    ELSE acc + Decoded(env, x)

\* f is the fold over every subset of 1 .. n.
Folds(f, kind, env, base, s, n) ==
    f = [S \in SUBSET (1 .. n) |->
            IF S = {} THEN base ELSE Step(kind, env, f[S \ {Max(S)}], s[Max(S)])]

Upto(kind, env, base, s, k) ==
    (CHOOSE f : Folds(f, kind, env, base, s, Len(s)))[1 .. k]

LEMMA MaxUpto ==
  ASSUME NEW k \in Nat, NEW S \in SUBSET (1 .. k), k \in S
  PROVE  Max(S) = k
<1>1. \A y \in S : y \in 1 .. k
  OBVIOUS
<1>2. \A y \in S : k >= y
  BY <1>1
<1>3. \A x \in S : (\A y \in S : x >= y) => x = k
  BY <1>1
<1> QED BY <1>2, <1>3 DEF Max

LEMMA FoldGrows ==
  ASSUME NEW kind, NEW env, NEW base, NEW s, NEW m \in Nat,
         NEW f, Folds(f, kind, env, base, s, m)
  PROVE  \E g : Folds(g, kind, env, base, s, m + 1)
<1> DEFINE g == [S \in SUBSET (1 .. m + 1) |->
                    IF S = {} THEN base
                    ELSE IF m + 1 \in S THEN Step(kind, env, f[S \ {m + 1}], s[m + 1])
                    ELSE f[S]]
<1> HIDE DEF Step
<1>1. \A S \in SUBSET (1 .. m) : g[S] = f[S]
  BY DEF Folds
<1>2. ASSUME NEW S \in SUBSET (1 .. m + 1), S # {}
      PROVE  g[S] = Step(kind, env, g[S \ {Max(S)}], s[Max(S)])
  <2>1. CASE m + 1 \in S
    <3>1. Max(S) = m + 1
      BY <2>1, MaxUpto
    <3>2. S \ {m + 1} \in SUBSET (1 .. m)
      OBVIOUS
    <3>3. g[S] = Step(kind, env, f[S \ {m + 1}], s[m + 1])
      BY <2>1
    <3> QED BY <3>1, <3>2, <3>3, <1>1
  <2>2. CASE m + 1 \notin S
    <3>0. \A i \in S : i \in 1 .. m
      BY <2>2
    <3>1. S \in SUBSET (1 .. m) /\ S \ {Max(S)} \in SUBSET (1 .. m)
      BY <3>0
    <3>2. f[S] = Step(kind, env, f[S \ {Max(S)}], s[Max(S)])
      BY <3>1, <1>2 DEF Folds
    <3> HIDE DEF g
    <3> QED BY <3>1, <3>2, <1>1
  <2> QED BY <2>1, <2>2
<1>3. g = [S \in SUBSET (1 .. m + 1) |-> g[S]]
  OBVIOUS
<1>4. g[{}] = base
  OBVIOUS
<1> HIDE DEF g
<1>5. Folds(g, kind, env, base, s, m + 1)
  BY <1>2, <1>3, <1>4 DEF Folds
<1> QED BY <1>5

LEMMA FoldExists ==
  ASSUME NEW kind, NEW env, NEW base, NEW s, NEW n \in Nat
  PROVE  \E f : Folds(f, kind, env, base, s, n)
<1> DEFINE Without == {m \in Nat : ~ \E f : Folds(f, kind, env, base, s, m)}
<1>1. SUFFICES Without = {}
  OBVIOUS
<1>2. SUFFICES ASSUME Without # {} PROVE FALSE
  OBVIOUS
<1>3. PICK m \in Without : \A k \in Without : m <= k
  BY <1>2, LeastNumber
<1>4. CASE m = 0
  <2> DEFINE f == [S \in SUBSET (1 .. 0) |-> base]
  <2>1. Folds(f, kind, env, base, s, 0)
    BY DEF Folds
  <2> HIDE DEF f
  <2> QED BY <2>1, <1>4
<1>5. CASE m # 0
  <2>1. m - 1 \in Nat /\ m - 1 \notin Without
    BY <1>5, <1>3
  <2>2. PICK f : Folds(f, kind, env, base, s, m - 1)
    BY <2>1
  <2>3. \E g : Folds(g, kind, env, base, s, m - 1 + 1)
    BY <2>1, <2>2, FoldGrows
  <2> QED BY <2>3, <1>3
<1> QED BY <1>4, <1>5

\* A fold takes the elements of its sequence one by one.
OneByOne(kind, env, base, s) ==
    /\ Upto(kind, env, base, s, 0) = base
    /\ \A k \in 1 .. Len(s) :
         Upto(kind, env, base, s, k) = Step(kind, env, Upto(kind, env, base, s, k - 1), s[k])

LEMMA FoldSteps ==
  ASSUME NEW kind, NEW env, NEW base, NEW s, Len(s) \in Nat
  PROVE  OneByOne(kind, env, base, s)
<1> DEFINE f == CHOOSE f : Folds(f, kind, env, base, s, Len(s))
<1>1. Folds(f, kind, env, base, s, Len(s))
  BY FoldExists
<1>2. \A k : Upto(kind, env, base, s, k) = f[1 .. k]
  BY DEF Upto
<1> HIDE DEF f
<1>3. f[1 .. 0] = base
  BY <1>1 DEF Folds
<1>4. ASSUME NEW k \in 1 .. Len(s)
      PROVE  f[1 .. k] = Step(kind, env, f[1 .. k - 1], s[k])
  <2>1. Max(1 .. k) = k
    BY MaxUpto
  <2>2. (1 .. k) \ {k} = 1 .. k - 1
    OBVIOUS
  <2>3. 1 .. k \in SUBSET (1 .. Len(s)) /\ 1 .. k # {}
    OBVIOUS
  <2> QED BY <1>1, <2>1, <2>2, <2>3 DEF Folds
<1> QED BY <1>2, <1>3, <1>4 DEF OneByOne

LEMMA EntriesFold ==
  ASSUME NEW dst, NEW src, Len(src) \in Nat, DOMAIN src = 1 .. Len(src)
  PROVE  replace_headers(dst, src) = Upto("entries", 0, dst, src, Len(src))
BY DEF replace_headers, FoldLeft, MapThenFoldSet, Upto, Folds, Step

LEMMA LinesFold ==
  ASSUME NEW builder, NEW lines, Len(lines) \in Nat, DOMAIN lines = 1 .. Len(lines)
  PROVE  AddHeaders(builder, lines) = Upto("lines", 0, builder, lines, Len(lines))
BY DEF AddHeaders, FoldLeft, MapThenFoldSet, Upto, Folds, Step

\* The bytes of the whole body, decoded.
Total(r) == FoldLeft(LAMBDA sum, n : sum + Decoded(r, n), 0, r.response.chunks)

LEMMA BytesFold ==
  ASSUME NEW r, NEW s, s = r.response.chunks, Len(s) \in Nat, DOMAIN s = 1 .. Len(s)
  PROVE  Total(r) = Upto("bytes", r, 0, s, Len(s))
BY DEF Total, FoldLeft, MapThenFoldSet, Upto, Folds, Step

LEMMA BytesSteps ==
  ASSUME NEW r, NEW s \in Seq(Nat)
  PROVE  /\ Upto("bytes", r, 0, s, 0) = 0
         /\ \A k \in 1 .. Len(s) :
              Upto("bytes", r, 0, s, k) = Upto("bytes", r, 0, s, k - 1) + Decoded(r, s[k])
<1>1. Len(s) \in Nat
  OBVIOUS
<1>2. \A acc, x : Step("bytes", r, acc, x) = acc + Decoded(r, x)
  BY DEF Step
<1>3. OneByOne("bytes", r, 0, s)
  BY <1>1, FoldSteps
<1> QED BY <1>2, <1>3 DEF OneByOne

\* The sums of a fold over numbers are numbers and never sink.
LEMMA BytesGrow ==
  ASSUME NEW r, NEW s \in Seq(Nat)
  PROVE  /\ \A k \in 0 .. Len(s) : Upto("bytes", r, 0, s, k) \in Nat
         /\ \A k, m \in 0 .. Len(s) :
              k <= m => Upto("bytes", r, 0, s, k) <= Upto("bytes", r, 0, s, m)
<1> DEFINE U(k) == Upto("bytes", r, 0, s, k)
<1>1. Len(s) \in Nat /\ \A k \in 1 .. Len(s) : s[k] \in Nat
  OBVIOUS
<1>d. \A n \in Nat : Decoded(r, n) \in Nat
  BY DEF Decoded
<1>2. U(0) = 0 /\ \A k \in 1 .. Len(s) : U(k) = U(k - 1) + Decoded(r, s[k])
  BY BytesSteps
<1> HIDE DEF U
<1>3. \A k \in 0 .. Len(s) : U(k) \in Nat
  <2> DEFINE Bad == {k \in 0 .. Len(s) : U(k) \notin Nat}
  <2>1. SUFFICES ASSUME Bad # {} PROVE FALSE
    OBVIOUS
  <2>2. PICK k \in Bad : \A m \in Bad : k <= m
    <3>1. Bad \in SUBSET Nat
      BY <1>1
    <3> HIDE DEF Bad
    <3> QED BY <3>1, <2>1, LeastNumber
  <2>3. k # 0 /\ k \in 1 .. Len(s) /\ U(k) \notin Nat
    BY <1>2, <2>2
  <2>4. U(k - 1) \in Nat
    BY <1>1, <2>2, <2>3
  <2>5. Decoded(r, s[k]) \in Nat
    BY <1>1, <1>d, <2>3
  <2> QED BY <1>2, <2>3, <2>4, <2>5
<1>4. ASSUME NEW k \in 0 .. Len(s)
      PROVE  \A m \in k .. Len(s) : U(k) <= U(m)
  <2> DEFINE Bad == {m \in k .. Len(s) : ~(U(k) <= U(m))}
  <2>1. SUFFICES ASSUME Bad # {} PROVE FALSE
    OBVIOUS
  <2>2. PICK m \in Bad : \A n \in Bad : m <= n
    <3>1. Bad \in SUBSET Nat
      BY <1>1
    <3> HIDE DEF Bad
    <3> QED BY <3>1, <2>1, LeastNumber
  <2>3. m # k /\ m \in 1 .. Len(s) /\ m - 1 \in k .. Len(s)
    BY <1>1, <1>3, <2>2
  <2>4. U(k) <= U(m - 1)
    BY <1>1, <2>2, <2>3
  <2>5. U(k) \in Nat /\ U(m - 1) \in Nat
    BY <1>1, <1>3, <2>3
  <2>d. Decoded(r, s[m]) \in Nat
    BY <1>1, <1>d, <2>3
  <2>6. U(m - 1) <= U(m)
    BY <1>2, <2>3, <2>5, <2>d
  <2> QED BY <1>3, <2>2, <2>4, <2>5, <2>6
<1>5. \A k, m \in 0 .. Len(s) : k <= m => U(k) <= U(m)
  BY <1>1, <1>4
<1> QED BY <1>3, <1>5 DEF U

\* They depend on nothing of a call but its response, request and client.
LEMMA BytesSame ==
  ASSUME NEW r, NEW q, NEW s \in Seq(Nat),
         q.response = r.response, q.config = r.config, q.builder = r.builder
  PROVE  \A k \in 0 .. Len(s) : Upto("bytes", q, 0, s, k) = Upto("bytes", r, 0, s, k)
<1> DEFINE U(k) == Upto("bytes", r, 0, s, k)
           V(k) == Upto("bytes", q, 0, s, k)
           Bad == {k \in 0 .. Len(s) : V(k) # U(k)}
<1>1. \A n : Decoded(q, n) = Decoded(r, n)
  BY DEF Decoded
<1>2. U(0) = 0 /\ \A k \in 1 .. Len(s) : U(k) = U(k - 1) + Decoded(r, s[k])
  BY BytesSteps
<1>3. V(0) = 0 /\ \A k \in 1 .. Len(s) : V(k) = V(k - 1) + Decoded(q, s[k])
  BY BytesSteps
<1> HIDE DEF U, V
<1>4. SUFFICES ASSUME Bad # {} PROVE FALSE
  BY DEF U, V
<1>5. PICK k \in Bad : \A m \in Bad : k <= m
  <2>1. Bad \in SUBSET Nat
    OBVIOUS
  <2> HIDE DEF Bad
  <2> QED BY <2>1, <1>4, LeastNumber
<1>6. k \in 1 .. Len(s) /\ V(k) # U(k)
  BY <1>2, <1>3, <1>5
<1>7. V(k - 1) = U(k - 1)
  BY <1>5, <1>6
<1> QED BY <1>1, <1>2, <1>3, <1>6, <1>7

-----------------------------------------------------------------------------
(* Header maps.                                                            *)

CL == "content-length"

LEMMA ListIsSeq ==
  ASSUME NEW s, IsList(s)
  PROVE  Len(s) \in Nat /\ DOMAIN s = 1 .. Len(s)
BY DEF IsList

LEMMA PlaceOfName ==
  ASSUME NEW h, IsHeaderMap(h), NEW i \in DOMAIN h
  PROVE  h[i].name \in Names(h) /\ PlaceOf(h, h[i].name) = i /\ Values(h, h[i].name) = h[i].values
<1>1. h[i].name \in Names(h)
  BY DEF Names
<1>2. PlaceOf(h, h[i].name) = i
  BY DEF PlaceOf, IsHeaderMap
<1> QED BY <1>1, <1>2 DEF Values

LEMMA EntryOfName ==
  ASSUME NEW h, IsHeaderMap(h), NEW n \in Names(h)
  PROVE  \E i \in DOMAIN h : h[i].name = n /\ PlaceOf(h, n) = i /\ Values(h, n) = h[i].values
<1>1. PICK i \in DOMAIN h : h[i].name = n
  BY DEF Names
<1> QED BY <1>1, PlaceOfName

\* set_values gives a name its values and leaves the others theirs.
ValuesSet(g, h, n, v) ==
    /\ IsHeaderMap(g)
    /\ n \in Names(g) /\ Values(g, n) = v
    /\ \A m : m # n => (m \in Names(g) <=> m \in Names(h)) /\ Values(g, m) = Values(h, m)

LEMMA ValuesReplaced ==
  ASSUME NEW h, IsHeaderMap(h), NEW i \in DOMAIN h, NEW v
  PROVE  ValuesSet([h EXCEPT ![i].values = v], h, h[i].name, v)
<1> DEFINE g == [h EXCEPT ![i].values = v]
           n == h[i].name
<1>1. Len(h) \in Nat /\ DOMAIN h = 1 .. Len(h) /\ DOMAIN g = DOMAIN h
  BY ListIsSeq DEF IsHeaderMap
<1>2. DOMAIN h[i] = {"name", "values"}
  BY DEF IsHeaderMap
<1>3. /\ g[i] = [h[i] EXCEPT !.values = v]
      /\ \A j \in DOMAIN h : j # i => g[j] = h[j]
  OBVIOUS
<1>4. DOMAIN g[i] = {"name", "values"} /\ g[i].name = n /\ g[i].values = v
  BY <1>2, <1>3
<1>5. IsList(g)
  <2>1. g \in [1 .. Len(h) -> Range(g)]
    BY <1>1 DEF Range
  <2> HIDE DEF g
  <2> QED BY <1>1, <2>1 DEF IsList
<1> HIDE DEF g, n
<1>6. \A j \in DOMAIN h : g[j].name = h[j].name /\ DOMAIN g[j] = {"name", "values"}
  BY <1>3, <1>4 DEF IsHeaderMap, n
<1>7. IsHeaderMap(g)
  BY <1>1, <1>5, <1>6 DEF IsHeaderMap
<1>8. n \in Names(g) /\ Values(g, n) = v
  BY <1>1, <1>4, <1>7, PlaceOfName
<1>9. ASSUME NEW m, m # n
      PROVE  (m \in Names(g) <=> m \in Names(h)) /\ Values(g, m) = Values(h, m)
  <2>1. m \in Names(g) <=> m \in Names(h)
    BY <1>1, <1>6 DEF Names
  <2>2. CASE m \in Names(h)
    <3>1. PICK j \in DOMAIN h : h[j].name = m /\ Values(h, m) = h[j].values
      BY <2>2, EntryOfName
    <3>2. j # i
      BY <1>9, <3>1 DEF n
    <3>3. g[j] = h[j]
      BY <1>3, <3>2
    <3>4. Values(g, g[j].name) = g[j].values
      BY <1>1, <1>7, PlaceOfName
    <3> QED BY <2>1, <3>1, <3>3, <3>4
  <2>3. CASE m \notin Names(h)
    BY <2>1, <2>3 DEF Values
  <2> QED BY <2>1, <2>2, <2>3
<1>10. ValuesSet(g, h, n, v)
  BY <1>7, <1>8, <1>9 DEF ValuesSet
<1> QED BY <1>10 DEF g, n

LEMMA ValuesAppended ==
  ASSUME NEW h, IsHeaderMap(h), NEW n, n \notin Names(h), NEW v
  PROVE  ValuesSet(Append(h, [name |-> n, values |-> v]), h, n, v)
<1> DEFINE e == [name |-> n, values |-> v]
           g == Append(h, e)
           l == Len(h) + 1
<1>1. h \in Seq(Range(h)) /\ Len(h) \in Nat /\ DOMAIN h = 1 .. Len(h)
  BY ListIsSeq DEF IsHeaderMap, IsList
<1>2. DOMAIN e = {"name", "values"} /\ e.name = n /\ e.values = v
  OBVIOUS
<1> HIDE DEF e
<1>3. h \in Seq(Range(h) \cup {e})
  BY <1>1
<1>4. /\ g \in Seq(Range(h) \cup {e}) /\ Len(g) = l /\ DOMAIN g = 1 .. l /\ g[l] = e
      /\ \A j \in DOMAIN h : g[j] = h[j]
  BY <1>1, <1>3
<1>5. DOMAIN g = DOMAIN h \cup {l} /\ l \notin DOMAIN h /\ l \in DOMAIN g
  BY <1>1, <1>4
<1> HIDE DEF g, l
<1>6. IsList(g)
  <2>1. g \in [1 .. l -> Range(g)] /\ l \in Nat
    BY <1>1, <1>4 DEF Range, l
  <2> QED BY <2>1, <1>4 DEF IsList
<1>7. \A j \in DOMAIN h : h[j].name # n
  BY DEF Names
<1>8. IsHeaderMap(g)
  <2>1. \A j \in DOMAIN g : DOMAIN g[j] = {"name", "values"}
    BY <1>2, <1>4, <1>5 DEF IsHeaderMap
  <2>2. \A j, k \in DOMAIN g : g[j].name = g[k].name => j = k
    BY <1>2, <1>4, <1>5, <1>7 DEF IsHeaderMap
  <2> QED BY <1>6, <2>1, <2>2 DEF IsHeaderMap
<1>9. n \in Names(g) /\ Values(g, n) = v
  BY <1>2, <1>4, <1>5, <1>8, PlaceOfName
<1>10. ASSUME NEW m, m # n
       PROVE  (m \in Names(g) <=> m \in Names(h)) /\ Values(g, m) = Values(h, m)
  <2>1. m \in Names(g) <=> m \in Names(h)
    BY <1>2, <1>4, <1>5, <1>10 DEF Names
  <2>2. CASE m \in Names(h)
    <3>1. PICK j \in DOMAIN h : h[j].name = m /\ Values(h, m) = h[j].values
      BY <2>2, EntryOfName
    <3>2. g[j] = h[j] /\ j \in DOMAIN g
      BY <1>4, <1>5
    <3>3. Values(g, g[j].name) = g[j].values
      BY <1>8, <3>2, PlaceOfName
    <3> QED BY <2>1, <3>1, <3>2, <3>3
  <2>3. CASE m \notin Names(h)
    BY <2>1, <2>3 DEF Values
  <2> QED BY <2>1, <2>2, <2>3
<1>11. ValuesSet(g, h, n, v)
  BY <1>8, <1>9, <1>10 DEF ValuesSet
<1> QED BY <1>11 DEF g, e

LEMMA SetValues ==
  ASSUME NEW h, IsHeaderMap(h), NEW n, NEW v
  PROVE  ValuesSet(set_values(h, n, v), h, n, v)
<1>1. CASE n \in Names(h)
  <2>1. PICK i \in DOMAIN h : h[i].name = n /\ PlaceOf(h, n) = i
    BY <1>1, EntryOfName
  <2>2. set_values(h, n, v) = [h EXCEPT ![i].values = v]
    BY <1>1, <2>1 DEF set_values
  <2>3. ValuesSet([h EXCEPT ![i].values = v], h, h[i].name, v)
    BY ValuesReplaced
  <2> QED BY <2>1, <2>2, <2>3
<1>2. CASE n \notin Names(h)
  <2>1. set_values(h, n, v) = Append(h, [name |-> n, values |-> v])
    BY <1>2 DEF set_values
  <2> QED BY <1>2, <2>1, ValuesAppended
<1> QED BY <1>1, <1>2

\* replace_headers: the entries of src win, one by one.
LEMMA Replaced ==
  ASSUME NEW dst, IsHeaderMap(dst), NEW src, IsHeaderMap(src)
  PROVE  LET g == replace_headers(dst, src)
         IN  /\ IsHeaderMap(g)
             /\ \A n \in Names(src) : n \in Names(g) /\ Values(g, n) = Values(src, n)
             /\ \A n : n \notin Names(src) => /\ n \in Names(g) <=> n \in Names(dst)
                                              /\ Values(g, n) = Values(dst, n)
<1> DEFINE U(k) == Upto("entries", 0, dst, src, k)
           Good(k) == /\ IsHeaderMap(U(k))
                      /\ \A i \in 1 .. k : /\ src[i].name \in Names(U(k))
                                           /\ Values(U(k), src[i].name) = src[i].values
                      /\ \A n : n \notin Names(src) =>
                                 /\ n \in Names(U(k)) <=> n \in Names(dst)
                                 /\ Values(U(k), n) = Values(dst, n)
           Bad == {k \in 0 .. Len(src) : ~Good(k)}
<1>1. Len(src) \in Nat /\ DOMAIN src = 1 .. Len(src)
  BY ListIsSeq DEF IsHeaderMap
<1>2. OneByOne("entries", 0, dst, src)
  BY <1>1, FoldSteps
<1>3. U(0) = dst /\ \A k \in 1 .. Len(src) :
                      U(k) = set_values(U(k - 1), src[k].name, src[k].values)
  <2>1. \A acc, x : Step("entries", 0, acc, x) = set_values(acc, x.name, x.values)
    BY DEF Step
  <2> QED BY <1>2, <2>1 DEF OneByOne
<1>4. replace_headers(dst, src) = U(Len(src))
  BY <1>1, EntriesFold
<1> HIDE DEF U
<1>5. ASSUME NEW k \in 1 .. Len(src), Good(k - 1) PROVE Good(k)
  <2>1. ValuesSet(U(k), U(k - 1), src[k].name, src[k].values)
    BY <1>3, <1>5, SetValues
  <2>2. ASSUME NEW i \in 1 .. k
        PROVE  src[i].name \in Names(U(k)) /\ Values(U(k), src[i].name) = src[i].values
    <3>1. CASE i = k
      BY <2>1, <3>1 DEF ValuesSet
    <3>2. CASE i # k
      <4>1. i \in 1 .. k - 1 /\ i \in DOMAIN src /\ k \in DOMAIN src
        BY <1>1, <3>2
      <4>2. src[i].name # src[k].name
        BY <3>2, <4>1 DEF IsHeaderMap
      <4>3. src[i].name \in Names(U(k - 1)) /\ Values(U(k - 1), src[i].name) = src[i].values
        BY <1>5, <4>1
      <4> QED BY <2>1, <4>2, <4>3 DEF ValuesSet
    <3> QED BY <3>1, <3>2
  <2>3. IsHeaderMap(U(k))
    BY <2>1 DEF ValuesSet
  <2>4. ASSUME NEW n, n \notin Names(src)
        PROVE  (n \in Names(U(k)) <=> n \in Names(dst)) /\ Values(U(k), n) = Values(dst, n)
    <3>1. n # src[k].name
      BY <1>1, <2>4 DEF Names
    <3> QED BY <1>5, <2>1, <2>4, <3>1 DEF ValuesSet
  <2> QED BY <2>2, <2>3, <2>4
<1>6. Good(0)
  BY <1>3
<1> HIDE DEF Good
<1>7. Bad = {}
  <2>1. SUFFICES ASSUME Bad # {} PROVE FALSE
    OBVIOUS
  <2>2. PICK k \in Bad : \A m \in Bad : k <= m
    <3>1. Bad \in SUBSET Nat
      BY <1>1
    <3> HIDE DEF Bad
    <3> QED BY <2>1, <3>1, LeastNumber
  <2>3. k \in 1 .. Len(src) /\ ~Good(k) /\ Good(k - 1)
    BY <1>1, <1>6, <2>2
  <2> QED BY <1>5, <2>3
<1>8. Good(Len(src))
  BY <1>1, <1>7
<1>9. ASSUME NEW n \in Names(src)
      PROVE  n \in Names(U(Len(src))) /\ Values(U(Len(src)), n) = Values(src, n)
  <2>1. PICK i \in DOMAIN src : src[i].name = n /\ Values(src, n) = src[i].values
    BY EntryOfName
  <2> QED BY <1>1, <1>8, <2>1 DEF Good
<1> QED BY <1>4, <1>8, <1>9 DEF Good

-----------------------------------------------------------------------------
(* Builders.                                                               *)

IsRequest(r) ==
    /\ DOMAIN r = {"method", "uri", "headers", "body", "options"}
    /\ IsHeaderMap(r.headers)

IsBuilder(b) ==
    /\ DOMAIN b = {"request", "error"}
    /\ b.error = None => IsRequest(b.request)

LEMMA EmptyMap == IsHeaderMap(<<>>)
BY DEF IsHeaderMap, IsList, Range

LEMMA InsertMap ==
  ASSUME NEW h, IsHeaderMap(h), NEW n, NEW v
  PROVE  /\ ValuesSet(insert(h, n, v), h, n, <<v>>)
         /\ IsHeaderMap(append(h, n, v)) /\ IsHeaderMap(or_insert(h, n, v))
         /\ IsHeaderMap(insert(h, n, v))
<1>1. ValuesSet(insert(h, n, v), h, n, <<v>>)
  BY SetValues DEF insert
<1>2. IsHeaderMap(append(h, n, v))
  BY SetValues DEF append, ValuesSet
<1>3. IsHeaderMap(insert(h, n, v))
  BY <1>1 DEF ValuesSet
<1>4. IsHeaderMap(or_insert(h, n, v))
  BY <1>3 DEF or_insert
<1> QED BY <1>1, <1>2, <1>3, <1>4

LEMMA RequestSet ==
  ASSUME NEW b, IsBuilder(b), NEW r, b.error = None => IsRequest(r)
  PROVE  IsBuilder(IF b.error # None THEN b ELSE [b EXCEPT !.request = r])
BY DEF IsBuilder

LEMMA ErrorSet ==
  ASSUME NEW b, IsBuilder(b), b.error = None, NEW e
  PROVE  IsBuilder(Err(b, e))
<1> DEFINE g == [b EXCEPT !.error = e]
<1>1. DOMAIN g = {"request", "error"} /\ g.error = e /\ g.request = b.request
  BY DEF IsBuilder
<1>2. IsBuilder(g)
  BY <1>1 DEF IsBuilder
<1> QED BY <1>2 DEF Err

LEMMA HeadersSet ==
  ASSUME NEW r, IsRequest(r), NEW h, IsHeaderMap(h)
  PROVE  IsRequest([r EXCEPT !.headers = h])
BY DEF IsRequest

LEMMA OptionSet ==
  ASSUME NEW b, IsBuilder(b), NEW n, NEW v
  PROVE  IsBuilder(set_option(b, n, v))
<1> DEFINE r == [b.request EXCEPT !.options = With(b.request.options, n, v)]
<1>1. b.error = None => IsRequest(r)
  BY DEF IsBuilder, IsRequest
<1>2. set_option(b, n, v) = IF b.error # None THEN b ELSE [b EXCEPT !.request = r]
  BY DEF set_option, OnOk
<1> HIDE DEF r
<1> QED BY <1>1, <1>2, RequestSet

LEMMA HeaderSensitive ==
  ASSUME NEW b, IsBuilder(b), NEW n, NEW v
  PROVE  IsBuilder(header_sensitive(b, n, v))
<1> DEFINE r == [b.request EXCEPT !.headers = append(b.request.headers, n, v)]
<1>1. b.error = None => IsRequest(r)
  <2>1. b.error = None => IsHeaderMap(append(b.request.headers, n, v))
    BY InsertMap DEF IsBuilder, IsRequest
  <2> QED BY <2>1, HeadersSet DEF IsBuilder
<1>2. \/ b.error = None /\ header_sensitive(b, n, v) = Err(b, Error("Builder", {}))
      \/ header_sensitive(b, n, v) = IF b.error # None THEN b ELSE [b EXCEPT !.request = r]
  BY DEF header_sensitive, OnOk
<1> HIDE DEF r
<1> QED BY <1>1, <1>2, RequestSet, ErrorSet

LEMMA HeadersReplaced ==
  ASSUME NEW b, IsBuilder(b), NEW h, IsHeaderMap(h)
  PROVE  IsBuilder(set_headers(b, h))
<1> DEFINE r == [b.request EXCEPT !.headers = replace_headers(b.request.headers, h)]
<1>1. b.error = None => IsRequest(r)
  <2>1. b.error = None => IsHeaderMap(replace_headers(b.request.headers, h))
    BY Replaced DEF IsBuilder, IsRequest
  <2> QED BY <2>1, HeadersSet DEF IsBuilder
<1>2. set_headers(b, h) = IF b.error # None THEN b ELSE [b EXCEPT !.request = r]
  BY DEF set_headers, OnOk
<1> HIDE DEF r
<1> QED BY <1>1, <1>2, RequestSet

LEMMA BodySet ==
  ASSUME NEW b, IsBuilder(b), NEW body, NEW h, b.error = None => IsHeaderMap(h)
  PROVE  /\ IsBuilder(set_body(b, body))
         /\ b.error = None => IsRequest([b.request EXCEPT !.headers = h, !.body = body])
<1> DEFINE r == [b.request EXCEPT !.body = body]
<1>1. b.error = None => IsRequest(r)
  BY DEF IsBuilder, IsRequest
<1>2. set_body(b, body) = IF b.error # None THEN b ELSE [b EXCEPT !.request = r]
  BY DEF set_body, OnOk
<1>3. b.error = None => IsRequest([b.request EXCEPT !.headers = h, !.body = body])
  BY DEF IsBuilder, IsRequest
<1> HIDE DEF r
<1> QED BY <1>1, <1>2, <1>3, RequestSet

LEMMA EncodedBody ==
  ASSUME NEW b, IsBuilder(b), NEW type, NEW n
  PROVE  IsBuilder(encoded_body(b, type, n))
<1> DEFINE h == or_insert(b.request.headers, "content-type", type)
           r == [b.request EXCEPT !.headers = h, !.body = Full(n)]
<1>1. b.error = None => IsHeaderMap(h)
  BY InsertMap DEF IsBuilder, IsRequest
<1>2. \/ b.error = None /\ encoded_body(b, type, n) = Err(b, Error("Builder", {}))
      \/ encoded_body(b, type, n) = IF b.error # None THEN b ELSE [b EXCEPT !.request = r]
  BY DEF encoded_body, OnOk
<1> HIDE DEF h
<1>3. b.error = None => IsRequest(r)
  BY <1>1, BodySet
<1> HIDE DEF r
<1> QED BY <1>2, <1>3, RequestSet, ErrorSet

LEMMA MultipartBody ==
  ASSUME NEW b, IsBuilder(b), NEW f
  PROVE  IsBuilder(multipart(b, f))
<1> DEFINE typed == or_insert(b.request.headers, "content-type", "multipart/form-data")
           sized == IF compute_length(f) = None THEN typed
                    ELSE or_insert(typed, "content-length", compute_length(f))
           r == [b.request EXCEPT !.headers = sized, !.body = form_stream(f)]
<1>1. b.error = None => IsHeaderMap(typed)
  BY InsertMap DEF IsBuilder, IsRequest
<1>2. multipart(b, f) = IF b.error # None THEN b ELSE [b EXCEPT !.request = r]
  BY DEF multipart, OnOk
<1> HIDE DEF typed
<1>3. b.error = None => IsHeaderMap(sized)
  BY <1>1, InsertMap
<1> HIDE DEF sized
<1>4. b.error = None => IsRequest(r)
  BY <1>3, BodySet
<1> HIDE DEF r
<1> QED BY <1>2, <1>4, RequestSet

LEMMA QuerySet ==
  ASSUME NEW b, IsBuilder(b), NEW pairs
  PROVE  IsBuilder(query(b, pairs))
<1> DEFINE r == [b.request EXCEPT !.uri.query = pairs]
<1>1. b.error = None => IsRequest(r)
  BY DEF IsBuilder, IsRequest
<1>2. query(b, pairs) = IF b.error # None THEN b ELSE [b EXCEPT !.request = r]
  BY DEF query, OnOk
<1> HIDE DEF r
<1> QED BY <1>1, <1>2, RequestSet

LEMMA BuilderNew ==
  ASSUME NEW method, NEW uri
  PROVE  IsBuilder(NewBuilder(method, uri))
<1>1. ASSUME NEW u PROVE IsBuilder(Ok(NewRequest(method, u)))
  <2>1. IsRequest(NewRequest(method, u))
    BY EmptyMap DEF IsRequest, NewRequest
  <2> QED BY <2>1 DEF IsBuilder, Ok
<1>2. IsBuilder([request |-> None, error |-> Error("Builder", {"BadScheme"})])
  BY NoneIsNoError DEF IsBuilder
<1>3. ASSUME NEW b, IsBuilder(b), NEW user PROVE IsBuilder(basic_auth(b, user))
  BY <1>3, HeaderSensitive DEF basic_auth, auth
<1> QED BY <1>1, <1>2, <1>3 DEF NewBuilder

\* Whatever a program calls on a builder, it stays one.
LEMMA BuilderApplied ==
  ASSUME NEW b, IsBuilder(b), NEW i \in DOMAIN BuilderOps
  PROVE  IsBuilder(Applied(b, BuilderOps[i]))
<1> DEFINE op == BuilderOps[i]
<1>0. /\ op.name \in OpNames
      /\ op.name = "headers" => IsHeaderMap(op.value)
      /\ op.name = "emulation" => IsHeaderMap(op.value.headers)
  BY HeadersAreMaps
<1> HIDE DEF op
<1> SUFFICES IsBuilder(Applied(b, op))
  BY DEF op
<1>1. CASE op.name = "header"
  <2>1. Applied(b, op) = header_sensitive(b, op.key, op.value)
    BY <1>1, Zenon DEF Applied
  <2> QED BY <2>1, HeaderSensitive
<1>2. CASE op.name = "headers"
  <2>1. Applied(b, op) = set_headers(b, op.value)
    BY <1>2, Zenon DEF Applied
  <2> QED BY <1>0, <1>2, <2>1, HeadersReplaced
<1>3. CASE op.name = "auth"
  <2>1. Applied(b, op) = auth(b, op.value)
    BY <1>3, Zenon DEF Applied
  <2> QED BY <2>1, HeaderSensitive DEF auth
<1>4. CASE op.name \in {"default_headers", "version", "accept_encoding", "proxy"}
  <2>1. \/ Applied(b, op) = default_headers(b, op.value)
        \/ Applied(b, op) = version(b, op.value)
        \/ Applied(b, op) = accept_encoding(b, op.value)
        \/ Applied(b, op) = proxy(b, op.value)
    BY <1>4, Zenon DEF Applied
  <2> QED BY <2>1, OptionSet DEF default_headers, version, accept_encoding, proxy
<1>5. CASE op.name \in {"form", "json"}
  <2>1. Applied(b, op) = form(b, op.value) \/ Applied(b, op) = json(b, op.value)
    BY <1>5, Zenon DEF Applied
  <2> QED BY <2>1, EncodedBody DEF form, json
<1>6. CASE op.name = "body"
  <2>1. Applied(b, op) = set_body(b, op.value)
    BY <1>6, Zenon DEF Applied
  <2>2. b.error = None => IsHeaderMap(b.request.headers)
    BY DEF IsBuilder, IsRequest
  <2> QED BY <2>1, <2>2, BodySet
<1>7. CASE op.name = "multipart"
  <2>1. Applied(b, op) = multipart(b, op.value)
    BY <1>7, Zenon DEF Applied
  <2> QED BY <2>1, MultipartBody
<1>8. CASE op.name = "query"
  <2>1. Applied(b, op) = query(b, op.value)
    BY <1>8, Zenon DEF Applied
  <2> QED BY <2>1, QuerySet
<1>9. CASE op.name = "emulation"
  <2>1. Applied(b, op) = emulation(b, op.value)
    BY <1>9, Zenon DEF Applied
  <2>2. IsBuilder(set_option(b, "emulation", op.value.tls))
    BY OptionSet
  <2>3. IsBuilder(set_headers(set_option(b, "emulation", op.value.tls), op.value.headers))
    BY <1>0, <1>9, <2>2, HeadersReplaced
  <2> QED BY <2>1, <2>3, OptionSet DEF emulation, orig_headers
<1> QED BY <1>0, <1>1, <1>2, <1>3, <1>4, <1>5, <1>6, <1>7, <1>8, <1>9 DEF OpNames

\* The header lines of a call leave a builder a builder.
LEMMA HeadersAdded ==
  ASSUME NEW b, IsBuilder(b), NEW lines, IsList(lines)
  PROVE  IsBuilder(AddHeaders(b, lines))
<1> DEFINE U(k) == Upto("lines", 0, b, lines, k)
           Bad == {k \in 0 .. Len(lines) : ~IsBuilder(U(k))}
<1>1. Len(lines) \in Nat /\ DOMAIN lines = 1 .. Len(lines)
  BY ListIsSeq
<1>2. OneByOne("lines", 0, b, lines)
  BY <1>1, FoldSteps
<1>3. U(0) = b /\ \A k \in 1 .. Len(lines) :
                    U(k) = header_sensitive(U(k - 1), lines[k][1], lines[k][2])
  <2>1. \A acc, x : Step("lines", 0, acc, x) = header_sensitive(acc, x[1], x[2])
    BY DEF Step
  <2> QED BY <1>2, <2>1 DEF OneByOne
<1>4. AddHeaders(b, lines) = U(Len(lines))
  BY <1>1, LinesFold
<1> HIDE DEF U
<1>5. Bad = {}
  <2>1. SUFFICES ASSUME Bad # {} PROVE FALSE
    OBVIOUS
  <2>2. PICK k \in Bad : \A m \in Bad : k <= m
    <3>1. Bad \in SUBSET Nat
      BY <1>1
    <3> HIDE DEF Bad
    <3> QED BY <2>1, <3>1, LeastNumber
  <2>3. k \in 1 .. Len(lines) /\ ~IsBuilder(U(k)) /\ IsBuilder(U(k - 1))
    BY <1>1, <1>3, <2>2
  <2>4. IsBuilder(header_sensitive(U(k - 1), lines[k][1], lines[k][2]))
    BY <2>3, HeaderSensitive
  <2> QED BY <1>3, <2>3, <2>4
<1> QED BY <1>1, <1>4, <1>5

-----------------------------------------------------------------------------
(* Records of calls.                                                       *)

Fields ==
    {"phase", "spec", "aborted", "early", "listener", "token", "polled", "ops", "bodies", "framed",
     "config", "max", "form", "builder", "pieces", "read", "sent", "response", "chunks",
     "got", "result", "handle"}

\* The parts of a call's record a step leaves alone.
SameCall(q, r) ==
    q.spec = r.spec /\ q.early = r.early /\ q.config = r.config /\ q.max = r.max
SameSignal(q, r) == q.aborted = r.aborted /\ q.listener = r.listener /\ q.token = r.token
SameRequest(q, r) ==
    /\ q.ops = r.ops /\ q.bodies = r.bodies
    /\ q.framed = r.framed /\ q.form = r.form /\ q.builder = r.builder
    /\ q.pieces = r.pieces /\ q.read = r.read /\ q.sent = r.sent
SameAnswer(q, r) == q.response = r.response /\ q.chunks = r.chunks /\ q.got = r.got
SameOutcome(q, r) == q.result = r.result /\ q.handle = r.handle

\* The kinds of step of a call: its future ends with a code; it works on the
\* request; the exchange starts.
Resolves(q, r, code) ==
    /\ DOMAIN q = Fields
    /\ SameCall(q, r) /\ SameSignal(q, r) /\ SameRequest(q, r) /\ SameAnswer(q, r)
    /\ q.phase = "resolved" /\ q.result = code /\ q.polled = FALSE /\ q.handle = r.handle

Works(q, r) ==
    /\ DOMAIN q = Fields
    /\ SameCall(q, r) /\ SameSignal(q, r) /\ SameAnswer(q, r) /\ SameOutcome(q, r)
    /\ q.polled = r.polled

Sends(q, r, builder) ==
    /\ Works(q, r)
    /\ builder.error = None
    /\ q.phase = "sending"
    /\ q.builder = Ok(config_call(r.config, builder.request))
    /\ q.pieces = BodyOf(q.builder.request).pieces
    /\ q.ops = r.ops /\ q.bodies = r.bodies /\ q.framed = r.framed /\ q.form = r.form
    /\ q.read = r.read /\ q.sent = r.sent

Settles(q, r, code) ==
    /\ DOMAIN q = Fields
    /\ SameCall(q, r) /\ SameRequest(q, r) /\ SameAnswer(q, r)
    /\ q.phase = "settled" /\ q.result = code /\ q.polled = r.polled
    /\ q.aborted = r.aborted /\ q.token = r.token

Closes(q, r) ==
    /\ DOMAIN q = Fields
    /\ SameCall(q, r) /\ SameSignal(q, r) /\ SameRequest(q, r) /\ SameAnswer(q, r)
    /\ q.phase = r.phase /\ q.result = r.result /\ q.polled = r.polled
    /\ q.handle = IF r.handle = "none" THEN "none" ELSE "closed"

LEMMA ResolvedFields ==
  ASSUME NEW r, DOMAIN r = Fields, NEW code
  PROVE  Resolves(Resolved(r, code), r, code)
BY DEF Resolved, Resolves, Fields, SameCall, SameSignal, SameRequest, SameAnswer

LEMMA SettledFields ==
  ASSUME NEW r, DOMAIN r = Fields, NEW code
  PROVE  Settles(Settled(r, code), r, code) /\ Settled(r, code).handle = r.handle
BY DEF Settled, Settles, Fields, SameCall, SameSignal, SameRequest, SameAnswer

LEMMA ClosedFields ==
  ASSUME NEW r, DOMAIN r = Fields
  PROVE  Closes(Closed(r), r)
BY DEF Closed, Closes, Fields, SameCall, SameSignal, SameRequest, SameAnswer

Codes == {"TIMEOUT", "INVALID_REQUEST", "INVALID_CONFIG", "TLS", "DNS", "CONNECT", "REQUEST",
          "FILE_IO", "CANCELLED"}

LEMMA ErrorCodes ==
  ASSUME NEW e
  PROVE  ErrorCode(e) \in Codes
BY DEF ErrorCode, Codes

LEMMA FileErrors ==
  ASSUME NEW f
  PROVE  FileError(f) \in Codes \cup {None}
<1>1. FileError(f) = "FILE_IO" \/ FileError(f) = "INVALID_REQUEST" \/ FileError(f) = None
  BY Zenon DEF FileError
<1> QED BY <1>1 DEF Codes

LEMMA ExecuteFields ==
  ASSUME NEW r, DOMAIN r = Fields, NEW builder
  PROVE  LET q == Execute(r, builder)
         IN  (\E code \in Codes : Resolves(q, r, code)) \/ Sends(q, r, builder)
<1> DEFINE q == Execute(r, builder)
           request == config_call(r.config, builder.request)
           sending == [r EXCEPT !.phase = "sending", !.builder = Ok(request),
                                !.pieces = BodyOf(request).pieces]
           bad == ErrorCode(Error("Builder", {"BadScheme"}))
<1> SUFFICES (\E code \in Codes : Resolves(q, r, code)) \/ Sends(q, r, builder)
  OBVIOUS
<1>1. \/ q = Resolved(r, ErrorCode(builder.error))
      \/ q = Resolved(r, bad)
      \/ builder.error = None /\ q = sending
  BY Zenon DEF Execute
<1> HIDE DEF q
<1>2. CASE q = Resolved(r, ErrorCode(builder.error)) \/ q = Resolved(r, bad)
  <2>1. ErrorCode(builder.error) \in Codes /\ bad \in Codes
    BY ErrorCodes
  <2> HIDE DEF bad
  <2> QED BY <1>2, <2>1, ResolvedFields
<1>3. CASE builder.error = None /\ q = sending
  <2> HIDE DEF request
  <2>1. Works(q, r) /\ q.phase = "sending" /\ q.builder = Ok(request)
        /\ q.pieces = BodyOf(request).pieces
        /\ q.ops = r.ops /\ q.bodies = r.bodies /\ q.framed = r.framed /\ q.form = r.form
        /\ q.read = r.read /\ q.sent = r.sent
    BY <1>3 DEF Works, Fields, SameCall, SameSignal, SameAnswer, SameOutcome
  <2>2. q.builder.request = request
    BY <2>1 DEF Ok
  <2>3. request = config_call(r.config, builder.request)
    BY DEF request
  <2> QED BY <1>3, <2>1, <2>2, <2>3 DEF Sends
<1> QED BY <1>1, <1>2, <1>3

-----------------------------------------------------------------------------
(* What each action does to the record of its call.                        *)

StepTo(c, q) == call' = [call EXCEPT ![c] = q] /\ UNCHANGED <<client, size, shrunk>>

Fresh(q, s) ==
    /\ DOMAIN q = Fields
    /\ q.spec = s /\ q.config = client.config /\ q.max = client.max
    /\ q.ops = 0 /\ q.bodies = 0 /\ q.framed = FALSE /\ q.form = NewForm
    /\ q.pieces = <<>> /\ q.read = 0 /\ q.sent = 0
    /\ q.response = None /\ q.chunks = <<>> /\ q.got = 0 /\ q.handle = "none"

LEMMA StartedFields ==
  ASSUME NEW s
  PROVE  LET q == Started(s)
         IN  /\ Fresh(q, s)
             /\ q.phase = "start" /\ q.aborted = FALSE /\ q.early = FALSE
             /\ q.listener = FALSE /\ q.token = FALSE /\ q.polled = FALSE
             /\ q.builder = Ok(None) /\ q.result = None
BY DEF Started, Fresh, Fields

LEMMA CallStep ==
  ASSUME NEW c \in Calls, NEW s, Call(c, s)
  PROVE  \E q :
               /\ StepTo(c, q)
               /\ Fresh(q, s)
               /\ q.builder = Ok(None) /\ q.polled = FALSE
               /\ \/ q.phase = "start" /\ q.result = None
                  \/ q.phase = "settled" /\ q.result \in Codes \cup {"CLOSED"}
               /\ q.aborted <=> s.signal /\ call[c].aborted
               /\ q.early <=> s.signal /\ call[c].aborted
               /\ q.token <=> s.signal /\ call[c].aborted
               /\ q.phase = "start" => (q.listener <=> s.signal /\ ~call[c].aborted)
               /\ q.phase = "start" => parts_valid(s)
<1> DEFINE gone == s.signal /\ call[c].aborted
           listens == s.signal /\ ~call[c].aborted
           begun == [Started(s) EXCEPT !.aborted = gone, !.early = gone,
                                       !.listener = listens, !.token = gone]
           q == IF client.state = "closed" THEN Settled(begun, "CLOSED")
                ELSE IF ~one_body(s) THEN Settled(begun, "INVALID_REQUEST")
                ELSE IF s.bad_options THEN Settled(begun, "INVALID_CONFIG")
                ELSE IF ~parts_valid(s) THEN Settled(begun, "INVALID_REQUEST")
                ELSE begun
<1>1. StepTo(c, q)
  BY DEF Call, StepTo
<1> HIDE DEF gone, listens
<1>2. /\ Fresh(begun, s)
      /\ begun.builder = Ok(None) /\ begun.polled = FALSE
      /\ begun.phase = "start" /\ begun.result = None
      /\ begun.aborted = gone /\ begun.early = gone /\ begun.token = gone
      /\ begun.listener = listens
  BY StartedFields DEF Fresh, Fields
<1> HIDE DEF begun
<1>gone. gone <=> s.signal /\ call[c].aborted
  BY Zenon DEF gone
<1>listens. listens <=> s.signal /\ ~call[c].aborted
  BY Zenon DEF listens
<1>3. \A code : LET z == Settled(begun, code)
               IN  Settles(z, begun, code) /\ z.handle = begun.handle
  BY <1>2, SettledFields DEF Fresh
<1>4. \/ q = begun /\ parts_valid(s)
      \/ \E code \in Codes \cup {"CLOSED"} : q = Settled(begun, code)
  BY DEF Codes
<1> HIDE DEF q
<1>5. CASE q = begun /\ parts_valid(s)
  BY <1>1, <1>2, <1>5, <1>gone, <1>listens
<1>6. CASE \E code \in Codes \cup {"CLOSED"} : q = Settled(begun, code)
  <2>1. PICK code \in Codes \cup {"CLOSED"} : q = Settled(begun, code)
    BY <1>6
  <2>2. Settles(q, begun, code) /\ q.handle = begun.handle
    BY <1>3, <2>1
  <2>3. q.phase = "settled" /\ q.result \in Codes \cup {"CLOSED"}
    BY <2>2 DEF Settles
  <2>4. Fresh(q, s) /\ q.builder = Ok(None) /\ q.polled = FALSE
    BY <2>2, <1>2 DEF Settles, Fresh, SameCall, SameRequest, SameAnswer
  <2>5. q.aborted = begun.aborted /\ q.early = begun.early /\ q.token = begun.token
    BY <2>2 DEF Settles, SameCall
  <2>6. q.phase # "start"
    BY <2>3
  <2>7. q.aborted = gone /\ q.early = gone /\ q.token = gone
    BY <1>2, <2>5
  <2>8. /\ q.aborted <=> s.signal /\ call[c].aborted
        /\ q.early <=> s.signal /\ call[c].aborted
        /\ q.token <=> s.signal /\ call[c].aborted
    BY <2>7, <1>gone
  <2> QED BY <1>1, <2>3, <2>4, <2>6, <2>8
<1> QED BY <1>4, <1>5, <1>6

LEMMA CallRustStep ==
  ASSUME NEW c \in Calls, NEW s, CallRust(c, s)
  PROVE  \E q :
               /\ StepTo(c, q)
               /\ Fresh(q, s)
               /\ q.phase = "building" /\ q.result = None /\ q.polled = TRUE
               /\ q.aborted = FALSE /\ q.early = FALSE /\ q.listener = FALSE /\ q.token = FALSE
               /\ q.builder = IF s.kind = "ws" THEN ws_new(NewBuilder("POST", s.uri))
                              ELSE NewBuilder("POST", s.uri)
<1> DEFINE builder == IF s.kind = "ws" THEN ws_new(NewBuilder("POST", s.uri))
                      ELSE NewBuilder("POST", s.uri)
           q == [Started(s) EXCEPT !.phase = "building", !.polled = TRUE, !.builder = builder]
<1>1. StepTo(c, q)
  BY DEF CallRust, StepTo
<1> HIDE DEF builder
<1>2. Fresh(q, s)
  BY StartedFields DEF Fresh, Fields
<1>3. /\ q.phase = "building" /\ q.result = None /\ q.polled = TRUE
      /\ q.aborted = FALSE /\ q.early = FALSE /\ q.listener = FALSE /\ q.token = FALSE
      /\ q.builder = builder
  BY StartedFields DEF Fresh, Fields
<1> HIDE DEF q
<1> QED BY <1>1, <1>2, <1>3 DEF builder

LEMMA BuildStep ==
  ASSUME NEW c \in Calls, DOMAIN call[c] = Fields, NEW op, Build(c, op)
  PROVE  \E q :
               /\ StepTo(c, q)
               /\ Works(q, call[c])
               /\ q.phase = "building"
               /\ q.builder = Applied(call[c].builder, op)
               /\ q.ops = call[c].ops + 1
               /\ q.bodies = IF op.name \in {"form", "json", "body", "multipart"}
                             THEN call[c].bodies + 1 ELSE call[c].bodies
               /\ q.framed = (call[c].framed \/ Frames(op))
               /\ q.form = call[c].form /\ q.pieces = call[c].pieces
               /\ q.read = call[c].read /\ q.sent = call[c].sent
<1> DEFINE r == call[c]
           builder == Applied(r.builder, op)
           bodies == IF op.name \in {"form", "json", "body", "multipart"}
                     THEN r.bodies + 1 ELSE r.bodies
           framed == r.framed \/ Frames(op)
           q == [r EXCEPT !.builder = builder, !.ops = r.ops + 1, !.bodies = bodies,
                          !.framed = framed]
<1>1. StepTo(c, q) /\ r.phase = "building"
  BY DEF Build, StepTo
<1> HIDE DEF builder, bodies, framed
<1>2. Works(q, r)
  BY DEF Works, Fields, SameCall, SameSignal, SameAnswer, SameOutcome
<1>3. /\ q.phase = r.phase /\ q.builder = builder /\ q.ops = r.ops + 1 /\ q.bodies = bodies
      /\ q.framed = framed
      /\ q.form = r.form /\ q.pieces = r.pieces /\ q.read = r.read /\ q.sent = r.sent
  BY DEF Fields
<1> HIDE DEF q
<1> QED BY <1>1, <1>2, <1>3 DEF builder, bodies, framed

LEMMA RustSendStep ==
  ASSUME NEW c \in Calls, DOMAIN call[c] = Fields, RustSend(c)
  PROVE  \E q, builder :
               /\ StepTo(c, q)
               /\ call[c].phase = "building"
               /\ builder = IF call[c].spec.kind = "ws"
                            THEN ws_send(call[c].builder, call[c].spec.protocols, c)
                            ELSE call[c].builder
               /\ (\E code \in Codes : Resolves(q, call[c], code)) \/ Sends(q, call[c], builder)
<1> DEFINE builder == IF call[c].spec.kind = "ws"
                      THEN ws_send(call[c].builder, call[c].spec.protocols, c)
                      ELSE call[c].builder
           q == Execute(call[c], builder)
<1>1. StepTo(c, q) /\ call[c].phase = "building"
  BY DEF RustSend, StepTo
<1> HIDE DEF builder
<1>2. (\E code \in Codes : Resolves(q, call[c], code)) \/ Sends(q, call[c], builder)
  BY ExecuteFields
<1> HIDE DEF q
<1> QED BY <1>1, <1>2 DEF builder

\* Poll and Park change nothing but whether the future is being polled.
LEMMA PollStep ==
  ASSUME NEW c \in Calls, DOMAIN call[c] = Fields, Poll(c) \/ Park(c)
  PROVE  \E q :
               /\ StepTo(c, q)
               /\ DOMAIN q = Fields
               /\ SameCall(q, call[c]) /\ SameSignal(q, call[c]) /\ SameRequest(q, call[c])
               /\ SameAnswer(q, call[c]) /\ SameOutcome(q, call[c])
               /\ q.phase = call[c].phase /\ call[c].phase \in Pending
               /\ \/ q.polled = TRUE /\ ~call[c].token
                  \/ q.polled = FALSE
<1> DEFINE r == call[c]
<1>1. \/ Poll(c) /\ StepTo(c, [r EXCEPT !.polled = TRUE]) /\ r.phase \in Pending /\ ~r.token
      \/ StepTo(c, [r EXCEPT !.polled = FALSE]) /\ r.phase \in Pending
  BY DEF Poll, Park, StepTo
<1>2. ASSUME NEW b \in BOOLEAN
      PROVE  LET z == [r EXCEPT !.polled = b]
             IN  /\ DOMAIN z = Fields
                 /\ SameCall(z, r) /\ SameSignal(z, r) /\ SameRequest(z, r)
                 /\ SameAnswer(z, r) /\ SameOutcome(z, r)
                 /\ z.phase = r.phase /\ z.polled = b
  BY DEF Fields, SameCall, SameSignal, SameRequest, SameAnswer, SameOutcome
<1> QED BY <1>1, <1>2

LEMMA CancelledStep ==
  ASSUME NEW c \in Calls, DOMAIN call[c] = Fields, Cancelled(c)
  PROVE  \E q :
               /\ StepTo(c, q)
               /\ call[c].phase \in Pending
               /\ Resolves(q, call[c], "CANCELLED")
BY ResolvedFields DEF Cancelled, StepTo

LEMMA FailStep ==
  ASSUME NEW c \in Calls, DOMAIN call[c] = Fields, NEW e, Fail(c, e)
  PROVE  \E q :
               /\ StepTo(c, q)
               /\ call[c].phase \in {"sending", "head", "reading"}
               /\ call[c].polled
               /\ \E code \in Codes : Resolves(q, call[c], code)
BY ResolvedFields, ErrorCodes DEF Fail, StepTo

SocketOf(c, s) ==
    ws_send(ws_new(AddHeaders(WithTimeout(NewBuilder("GET", s.uri), s.timeout), s.headers)),
            s.protocols, c)

LEMMA StartStep ==
  ASSUME NEW c \in Calls, DOMAIN call[c] = Fields, Start(c)
  PROVE  \E q :
               /\ StepTo(c, q)
               /\ call[c].phase = "start" /\ call[c].polled
               /\ \/ \E code \in Codes : Resolves(q, call[c], code)
                  \/ call[c].spec.kind = "ws" /\ Sends(q, call[c], SocketOf(c, call[c].spec))
                  \/ /\ call[c].spec.kind # "ws"
                     /\ refusal(call[c].spec) = None
                     /\ Works(q, call[c])
                     /\ q.phase = "files" /\ q.builder = Prepared(call[c].spec)
                     /\ q.ops = call[c].ops /\ q.bodies = call[c].bodies
                     /\ q.framed = call[c].framed
                     /\ q.form = call[c].form /\ q.pieces = call[c].pieces
                     /\ q.read = call[c].read /\ q.sent = call[c].sent
<1> DEFINE r == call[c]
           s == r.spec
           refused == IF s.kind = "ws" THEN websocket_refusal(s) ELSE refusal(s)
           filed == [r EXCEPT !.phase = "files", !.builder = Prepared(s)]
           q == IF refused # None THEN Resolved(r, refused)
                ELSE IF s.kind = "ws" THEN Execute(r, SocketOf(c, s)) ELSE filed
<1>1. StepTo(c, q) /\ r.phase = "start" /\ r.polled
  BY DEF Start, StepTo, SocketOf
<1>2. refused \in {"INVALID_REQUEST", "INVALID_CONFIG", None}
  BY DEF refusal, websocket_refusal
<1>3. \/ refused \in Codes /\ q = Resolved(r, refused)
      \/ s.kind = "ws" /\ q = Execute(r, SocketOf(c, s))
      \/ s.kind # "ws" /\ refusal(s) = None /\ q = filed
  <2> HIDE DEF filed
  <2>1. CASE refused = None
    BY <2>1
  <2>2. CASE refused # None
    BY <2>2, <1>2 DEF Codes
  <2> QED BY <2>1, <2>2
<1> HIDE DEF q, refused
<1>4. CASE refused \in Codes /\ q = Resolved(r, refused)
  BY <1>1, <1>4, ResolvedFields
<1>5. CASE s.kind = "ws" /\ q = Execute(r, SocketOf(c, s))
  <2>1. (\E code \in Codes : Resolves(q, r, code)) \/ Sends(q, r, SocketOf(c, s))
    BY <1>5, ExecuteFields
  <2> QED BY <1>1, <1>5, <2>1
<1>6. CASE s.kind # "ws" /\ refusal(s) = None /\ q = filed
  <2>1. /\ Works(q, r) /\ q.phase = "files" /\ q.builder = Prepared(s)
        /\ q.ops = r.ops /\ q.bodies = r.bodies
        /\ q.framed = r.framed /\ q.form = r.form /\ q.pieces = r.pieces
        /\ q.read = r.read /\ q.sent = r.sent
    BY <1>6 DEF Works, Fields, SameCall, SameSignal, SameAnswer, SameOutcome
  <2> QED BY <1>1, <1>6, <2>1
<1> QED BY <1>3, <1>4, <1>5, <1>6

\* The part AddPart adds and the builder Send executes.
PartOf(p) ==
    mime(file_name(IF p.file = None THEN part_bytes(p.data)
                   ELSE stream_with_length(file_body(p.file, size[p.file]), size[p.file]),
                   p.filename), p.content_type)

Attached(r) ==
    IF r.spec.multipart # None THEN multipart(r.builder, r.form)
    ELSE IF r.spec.body_file # None
    THEN set_body(header_sensitive(r.builder, "content-length", size[r.spec.body_file]),
                  file_body(r.spec.body_file, size[r.spec.body_file]))
    ELSE IF PassedBody(r.spec) # None THEN set_body(r.builder, Full(PassedBody(r.spec)))
    ELSE r.builder

LEMMA AddPartStep ==
  ASSUME NEW c \in Calls, DOMAIN call[c] = Fields, AddPart(c)
  PROVE  \E q :
               /\ StepTo(c, q)
               /\ call[c].phase = "files" /\ call[c].polled
               /\ \/ \E code \in Codes : Resolves(q, call[c], code)
                  \/ LET i == Len(call[c].form.fields) + 1
                         p == call[c].spec.multipart[i]
                     IN  /\ Works(q, call[c]) /\ q.phase = "files"
                         /\ call[c].spec.multipart # None
                         /\ i <= Len(call[c].spec.multipart)
                         /\ p.file # None => FileError(p.file) = None
                         /\ p.content_type # Illegal
                         /\ q.form = add_part(call[c].form, p.name, PartOf(p))
                         /\ q.ops = call[c].ops /\ q.bodies = call[c].bodies
                         /\ q.framed = call[c].framed
                         /\ q.builder = call[c].builder /\ q.pieces = call[c].pieces
                         /\ q.read = call[c].read /\ q.sent = call[c].sent
<1> DEFINE r == call[c]
           parts == r.spec.multipart
           i == Len(r.form.fields) + 1
           p == parts[i]
           error == IF p.file # None /\ FileError(p.file) # None THEN FileError(p.file)
                    ELSE IF p.file = None /\ DataBefore(parts, i) > PassedBody(r.spec)
                    THEN "INVALID_REQUEST"
                    ELSE IF p.content_type = Illegal THEN "INVALID_REQUEST" ELSE None
           grown == add_part(r.form, p.name, PartOf(p))
           added == [r EXCEPT !.form = grown]
           q == IF error # None THEN Resolved(r, error) ELSE added
<1>1. /\ StepTo(c, q) /\ r.phase = "files" /\ r.polled
      /\ parts # None /\ i <= Len(parts)
  BY DEF AddPart, StepTo, PartOf
<1>2. error \in Codes \cup {None}
  BY FileErrors DEF Codes
<1>3. error = None => p.file = None \/ FileError(p.file) = None
  BY Zenon
<1>illegal. error = None => p.content_type # Illegal
  <2>1. p.content_type = Illegal =>
          \/ error = "INVALID_REQUEST"
          \/ error = FileError(p.file) /\ FileError(p.file) # None
    BY Zenon
  <2> HIDE DEF error
  <2> QED BY <2>1, NoneIsNoCode
<1>4. \/ error \in Codes /\ q = Resolved(r, error)
      \/ error = None /\ q = added
  <2> HIDE DEF error, added
  <2> QED BY <1>2
<1> HIDE DEF q, error, grown
<1>5. CASE error \in Codes /\ q = Resolved(r, error)
  BY <1>1, <1>5, ResolvedFields
<1>6. CASE error = None /\ q = added
  <2>1. /\ Works(q, r) /\ q.phase = r.phase /\ q.form = grown
        /\ q.ops = r.ops /\ q.bodies = r.bodies
        /\ q.framed = r.framed /\ q.builder = r.builder /\ q.pieces = r.pieces
        /\ q.read = r.read /\ q.sent = r.sent
    BY <1>6 DEF Works, Fields, SameCall, SameSignal, SameAnswer, SameOutcome
  <2> HIDE DEF p, i, added
  <2>2. q.form = add_part(r.form, p.name, PartOf(p))
    BY <2>1 DEF grown
  <2>3. /\ p.file # None => FileError(p.file) = None
        /\ p.content_type # Illegal
    BY <1>3, <1>illegal, <1>6
  <2> QED BY <1>1, <2>1, <2>2, <2>3 DEF i, p
<1> QED BY <1>4, <1>5, <1>6

LEMMA SendStep ==
  ASSUME NEW c \in Calls, DOMAIN call[c] = Fields, Send(c)
  PROVE  \E q :
               /\ StepTo(c, q)
               /\ call[c].phase = "files" /\ call[c].polled
               /\ \/ \E code \in Codes : Resolves(q, call[c], code)
                  \/ /\ Sends(q, call[c], Attached(call[c]))
                     /\ call[c].spec.body_file # None => FileError(call[c].spec.body_file) = None
                     /\ call[c].spec.multipart # None =>
                          Len(call[c].form.fields) = Len(call[c].spec.multipart)
<1> DEFINE r == call[c]
           f == r.spec.body_file
           builder == Attached(r)
           q == IF f # None /\ FileError(f) # None THEN Resolved(r, FileError(f))
                ELSE Execute(r, builder)
<1>1. /\ StepTo(c, q) /\ r.phase = "files" /\ r.polled
      /\ r.spec.multipart # None => Len(r.form.fields) = Len(r.spec.multipart)
  BY DEF Send, StepTo, Attached
<1>2. \/ FileError(f) \in Codes /\ q = Resolved(r, FileError(f))
      \/ (f # None => FileError(f) = None) /\ q = Execute(r, builder)
  BY FileErrors
<1> HIDE DEF q, builder
<1>3. CASE FileError(f) \in Codes /\ q = Resolved(r, FileError(f))
  BY <1>1, <1>3, ResolvedFields
<1>4. CASE (f # None => FileError(f) = None) /\ q = Execute(r, builder)
  <2>1. (\E code \in Codes : Resolves(q, r, code)) \/ Sends(q, r, builder)
    BY <1>4, ExecuteFields
  <2> QED BY <1>1, <1>4, <2>1 DEF builder
<1> QED BY <1>2, <1>3, <1>4

LEMMA WriteBodyStep ==
  ASSUME NEW c \in Calls, DOMAIN call[c] = Fields, WriteBody(c)
  PROVE  \E q :
               /\ StepTo(c, q)
               /\ call[c].phase = "sending" /\ q.phase = "sending"
               /\ Works(q, call[c])
               /\ q.builder = call[c].builder
               /\ q.ops = call[c].ops /\ q.bodies = call[c].bodies
               /\ q.framed = call[c].framed /\ q.form = call[c].form
               /\ LET piece == Head(call[c].pieces)
                      left == size[piece.file] - call[c].read
                      room == IF piece.take = None THEN left ELSE piece.take - call[c].read
                      n == Max({0, Min({left, room, ReadSize})})
                  IN  \/ /\ piece.file = None
                         /\ q.sent = call[c].sent + piece.take
                         /\ q.pieces = Tail(call[c].pieces) /\ q.read = call[c].read
                      \/ /\ piece.file # None /\ n = 0
                         /\ q.sent = call[c].sent
                         /\ q.pieces = Tail(call[c].pieces) /\ q.read = 0
                      \/ /\ piece.file # None /\ n # 0
                         /\ q.sent = call[c].sent + n
                         /\ q.pieces = call[c].pieces /\ q.read = call[c].read + n
<1> DEFINE r == call[c]
           piece == Head(r.pieces)
           left == size[piece.file] - r.read
           room == IF piece.take = None THEN left ELSE piece.take - r.read
           n == Max({0, Min({left, room, ReadSize})})
           q1 == [r EXCEPT !.sent = r.sent + piece.take, !.pieces = Tail(r.pieces)]
           q2 == [r EXCEPT !.pieces = Tail(r.pieces), !.read = 0]
           q3 == [r EXCEPT !.sent = r.sent + n, !.read = r.read + n]
           q == IF piece.file = None THEN q1 ELSE IF n = 0 THEN q2 ELSE q3
<1>1. StepTo(c, q) /\ r.phase = "sending"
  BY DEF WriteBody, StepTo
<1> HIDE DEF n
<1>2. \/ piece.file = None /\ q = q1
      \/ piece.file # None /\ n = 0 /\ q = q2
      \/ piece.file # None /\ n # 0 /\ q = q3
  BY Zenon
<1> HIDE DEF q
<1>3. CASE piece.file = None /\ q = q1
  <2>1. /\ Works(q, r) /\ q.phase = r.phase /\ q.builder = r.builder
        /\ q.ops = r.ops /\ q.bodies = r.bodies /\ q.framed = r.framed /\ q.form = r.form
        /\ q.sent = r.sent + piece.take /\ q.pieces = Tail(r.pieces) /\ q.read = r.read
    BY <1>3 DEF Works, Fields, SameCall, SameSignal, SameAnswer, SameOutcome
  <2> QED BY <1>1, <1>3, <2>1
<1>4. CASE piece.file # None /\ n = 0 /\ q = q2
  <2>1. /\ Works(q, r) /\ q.phase = r.phase /\ q.builder = r.builder
        /\ q.ops = r.ops /\ q.bodies = r.bodies /\ q.framed = r.framed /\ q.form = r.form
        /\ q.sent = r.sent /\ q.pieces = Tail(r.pieces) /\ q.read = 0
    BY <1>4 DEF Works, Fields, SameCall, SameSignal, SameAnswer, SameOutcome
  <2> QED BY <1>1, <1>4, <2>1 DEF n
<1>5. CASE piece.file # None /\ n # 0 /\ q = q3
  <2>1. /\ Works(q, r) /\ q.phase = r.phase /\ q.builder = r.builder
        /\ q.ops = r.ops /\ q.bodies = r.bodies /\ q.framed = r.framed /\ q.form = r.form
        /\ q.sent = r.sent + n /\ q.pieces = r.pieces /\ q.read = r.read + n
    BY <1>5 DEF Works, Fields, SameCall, SameSignal, SameAnswer, SameOutcome
  <2> QED BY <1>1, <1>5, <2>1 DEF n
<1> QED BY <1>2, <1>3, <1>4, <1>5

LEMMA EndBodyStep ==
  ASSUME NEW c \in Calls, DOMAIN call[c] = Fields, EndBody(c)
  PROVE  \E q :
               /\ StepTo(c, q)
               /\ call[c].phase = "sending"
               /\ \/ \E code \in Codes : Resolves(q, call[c], code)
                  \/ Works(q, call[c]) /\ SameRequest(q, call[c]) /\ q.phase = "head"
<1> DEFINE r == call[c]
           q == IF Declared(r.builder.request) \subseteq {r.sent} THEN [r EXCEPT !.phase = "head"]
                ELSE Resolved(r, ErrorCode(Error("Request", {"body"})))
<1>1. StepTo(c, q) /\ r.phase = "sending"
  BY DEF EndBody, StepTo
<1>2. q = [r EXCEPT !.phase = "head"] \/ q = Resolved(r, ErrorCode(Error("Request", {"body"})))
  BY Zenon
<1> HIDE DEF q
<1>3. CASE q = [r EXCEPT !.phase = "head"]
  <2>1. Works(q, r) /\ SameRequest(q, r) /\ q.phase = "head"
    BY <1>3 DEF Works, Fields, SameCall, SameSignal, SameRequest, SameAnswer, SameOutcome
  <2> QED BY <1>1, <2>1
<1>4. CASE q = Resolved(r, ErrorCode(Error("Request", {"body"})))
  BY <1>1, <1>4, ResolvedFields, ErrorCodes
<1> QED BY <1>2, <1>3, <1>4

\* Heads open a socket or a stream, fail a handshake, or begin a body.
Answered(q, r, a) ==
    /\ DOMAIN q = Fields
    /\ SameCall(q, r) /\ SameSignal(q, r) /\ SameRequest(q, r)
    /\ q.response = a /\ q.chunks = a.chunks /\ q.got = r.got
    /\ \/ /\ q.phase = "resolved" /\ q.polled = FALSE
          /\ q.result = "ok" /\ q.handle = "open"
          /\ r.spec.kind = "ws" => into_websocket(r.builder.request, r.spec.protocols, a)
       \/ /\ q.phase = "resolved" /\ q.polled = FALSE
          /\ q.result \in Codes /\ q.handle = r.handle
       \/ q.phase = "reading" /\ q.polled = r.polled /\ SameOutcome(q, r)

LEMMA AnswerStep ==
  ASSUME NEW c \in Calls, DOMAIN call[c] = Fields, NEW a, Answer(c, a)
  PROVE  \E q :
               /\ StepTo(c, q)
               /\ call[c].phase = "head"
               /\ a.version \in Spoken(call[c])
               /\ Answered(q, call[c], a)
<1> DEFINE r == call[c]
           s == r.spec
           state == [r EXCEPT !.response = a, !.chunks = a.chunks]
           opened == [Resolved(state, "ok") EXCEPT !.handle = "open"]
           code == ErrorCode(Error("Upgrade", {}))
           q == IF s.kind = "ws"
                THEN IF into_websocket(r.builder.request, s.protocols, a) THEN opened
                     ELSE Resolved(state, code)
                ELSE IF s.kind = "stream" THEN opened ELSE [state EXCEPT !.phase = "reading"]
<1>1. /\ DOMAIN state = Fields
      /\ SameCall(state, r) /\ SameSignal(state, r) /\ SameRequest(state, r)
      /\ SameOutcome(state, r)
      /\ state.response = a /\ state.chunks = a.chunks /\ state.got = r.got
      /\ state.polled = r.polled
  BY DEF Fields, SameCall, SameSignal, SameRequest, SameOutcome
<1>2. StepTo(c, q) /\ r.phase = "head" /\ a.version \in Spoken(r)
  <2>1. state.spec = r.spec /\ state.builder = r.builder
    BY <1>1 DEF SameCall, SameRequest
  <2> QED BY <2>1 DEF Answer, StepTo
<1>3. code \in Codes
  BY ErrorCodes
<1> HIDE DEF state, code
<1>4. \/ q = opened /\ (s.kind = "ws" => into_websocket(r.builder.request, s.protocols, a))
      \/ q = Resolved(state, code)
      \/ q = [state EXCEPT !.phase = "reading"]
  BY Zenon
<1> HIDE DEF q
<1>5. \A z : Resolves(Resolved(state, z), state, z)
  BY <1>1, ResolvedFields
<1>6. CASE q = opened /\ (s.kind = "ws" => into_websocket(r.builder.request, s.protocols, a))
  <2> DEFINE z == Resolved(state, "ok")
  <2>1. Resolves(z, state, "ok") /\ q = [z EXCEPT !.handle = "open"]
    BY <1>5, <1>6
  <2> HIDE DEF z
  <2>2. /\ DOMAIN q = Fields
        /\ SameCall(q, state) /\ SameSignal(q, state) /\ SameRequest(q, state) /\ SameAnswer(q, state)
        /\ q.phase = "resolved" /\ q.polled = FALSE /\ q.result = "ok" /\ q.handle = "open"
    BY <2>1 DEF Resolves, Fields, SameCall, SameSignal, SameRequest, SameAnswer
  <2>3. /\ SameCall(q, r) /\ SameSignal(q, r) /\ SameRequest(q, r)
        /\ q.response = a /\ q.chunks = a.chunks /\ q.got = r.got
    BY <1>1, <2>2 DEF SameCall, SameSignal, SameRequest, SameAnswer
  <2> QED BY <1>2, <1>6, <2>2, <2>3 DEF Answered
<1>7. CASE q = Resolved(state, code)
  <2>1. Resolves(q, state, code)
    BY <1>5, <1>7
  <2>2. /\ SameCall(q, r) /\ SameSignal(q, r) /\ SameRequest(q, r)
        /\ q.response = a /\ q.chunks = a.chunks /\ q.got = r.got
        /\ DOMAIN q = Fields /\ q.phase = "resolved" /\ q.polled = FALSE
        /\ q.result = code /\ q.handle = r.handle
    BY <1>1, <2>1 DEF Resolves, SameCall, SameSignal, SameRequest, SameAnswer, SameOutcome
  <2> QED BY <1>2, <1>3, <2>2 DEF Answered
<1>8. CASE q = [state EXCEPT !.phase = "reading"]
  <2>1. /\ DOMAIN q = Fields
        /\ SameCall(q, state) /\ SameSignal(q, state) /\ SameRequest(q, state)
        /\ SameAnswer(q, state) /\ SameOutcome(q, state)
        /\ q.phase = "reading" /\ q.polled = state.polled
    BY <1>1, <1>8 DEF Fields, SameCall, SameSignal, SameRequest, SameAnswer, SameOutcome
  <2>2. /\ SameCall(q, r) /\ SameSignal(q, r) /\ SameRequest(q, r) /\ SameOutcome(q, r)
        /\ q.response = a /\ q.chunks = a.chunks /\ q.got = r.got /\ q.polled = r.polled
    BY <1>1, <2>1 DEF SameCall, SameSignal, SameRequest, SameAnswer, SameOutcome
  <2> QED BY <1>2, <2>1, <2>2 DEF Answered
<1> QED BY <1>4, <1>6, <1>7, <1>8

LEMMA ReadBodyStep ==
  ASSUME NEW c \in Calls, DOMAIN call[c] = Fields, ReadBody(c)
  PROVE  \E q :
               /\ StepTo(c, q)
               /\ call[c].phase = "reading"
               /\ LET chunk == Decoded(call[c], Head(call[c].chunks))
                  IN  \/ Resolves(q, call[c], "ok")
                      \/ /\ Resolves(q, call[c], "BODY_TOO_LARGE")
                         /\ call[c].chunks # <<>>
                         /\ call[c].spec.api # "rust"
                         /\ exceeds(chunk, call[c].max, call[c].got)
                      \/ /\ DOMAIN q = Fields
                         /\ SameCall(q, call[c]) /\ SameSignal(q, call[c])
                         /\ SameRequest(q, call[c]) /\ SameOutcome(q, call[c])
                         /\ q.phase = "reading" /\ q.polled = call[c].polled
                         /\ call[c].chunks # <<>>
                         /\ call[c].spec.api = "rust" \/ ~exceeds(chunk, call[c].max, call[c].got)
                         /\ q.response = call[c].response
                         /\ q.chunks = Tail(call[c].chunks) /\ q.got = call[c].got + chunk
<1> DEFINE r == call[c]
           chunk == Decoded(r, Head(r.chunks))
           large == r.spec.api # "rust" /\ exceeds(chunk, r.max, r.got)
           next == [r EXCEPT !.got = r.got + chunk, !.chunks = Tail(r.chunks)]
           q == IF r.chunks = <<>> THEN Resolved(r, "ok")
                ELSE IF large THEN Resolved(r, "BODY_TOO_LARGE") ELSE next
<1>1. StepTo(c, q) /\ r.phase = "reading"
  BY DEF ReadBody, StepTo
<1> HIDE DEF chunk
<1>2. \/ q = Resolved(r, "ok")
      \/ q = Resolved(r, "BODY_TOO_LARGE") /\ r.chunks # <<>> /\ large
      \/ q = next /\ r.chunks # <<>> /\ ~large
  <2> HIDE DEF next, large
  <2> QED OBVIOUS
<1> HIDE DEF q
<1>3. CASE q = Resolved(r, "ok")
  BY <1>1, <1>3, ResolvedFields
<1>4. CASE q = Resolved(r, "BODY_TOO_LARGE") /\ r.chunks # <<>> /\ large
  <2>1. Resolves(q, r, "BODY_TOO_LARGE")
    BY <1>4, ResolvedFields
  <2> QED BY <1>1, <1>4, <2>1 DEF chunk
<1>5. CASE q = next /\ r.chunks # <<>> /\ ~large
  <2>1. /\ DOMAIN q = Fields
        /\ SameCall(q, r) /\ SameSignal(q, r) /\ SameRequest(q, r) /\ SameOutcome(q, r)
        /\ q.phase = r.phase /\ q.polled = r.polled /\ q.response = r.response
        /\ q.chunks = Tail(r.chunks) /\ q.got = r.got + chunk
    BY <1>5 DEF Fields, SameCall, SameSignal, SameRequest, SameOutcome
  <2>2. r.spec.api = "rust" \/ ~exceeds(chunk, r.max, r.got)
    BY <1>5
  <2> QED BY <1>1, <1>5, <2>1, <2>2 DEF chunk
<1> QED BY <1>2, <1>3, <1>4, <1>5

LEMMA ContinueStep ==
  ASSUME NEW c \in Calls, DOMAIN call[c] = Fields, Continue(c)
  PROVE  \E q :
               /\ StepTo(c, q)
               /\ call[c].phase = "resolved"
               /\ \/ Settles(q, call[c], call[c].result) /\ q.handle = call[c].handle
                  \/ /\ Settles(q, call[c], "CANCELLED")
                     /\ q.handle = IF call[c].handle = "none" THEN "none" ELSE "closed"
                  \/ /\ DOMAIN q = Fields
                     /\ SameCall(q, call[c]) /\ SameSignal(q, call[c]) /\ SameRequest(q, call[c])
                     /\ SameAnswer(q, call[c]) /\ SameOutcome(q, call[c])
                     /\ q.phase = "handed" /\ q.polled = call[c].polled
                     /\ q.handle = "open"
                     /\ ~(call[c].spec.signal /\ call[c].aborted)
<1> DEFINE r == call[c]
           handed == [r EXCEPT !.phase = "handed"]
           q == IF r.result # "ok" THEN Settled(r, r.result)
                ELSE IF r.spec.signal /\ r.aborted THEN Settled(Closed(r), "CANCELLED")
                ELSE IF r.handle = "open" THEN handed ELSE Settled(r, "ok")
<1>1. StepTo(c, q) /\ r.phase = "resolved"
  BY DEF Continue, StepTo
<1>2. \/ q = Settled(r, r.result)
      \/ q = Settled(Closed(r), "CANCELLED")
      \/ q = handed /\ r.handle = "open" /\ ~(r.spec.signal /\ r.aborted)
  BY Zenon
<1> HIDE DEF q
<1>3. CASE q = Settled(r, r.result)
  BY <1>1, <1>3, SettledFields
<1>4. CASE q = Settled(Closed(r), "CANCELLED")
  <2> DEFINE z == Closed(r)
  <2>1. Closes(z, r)
    BY ClosedFields
  <2> HIDE DEF z
  <2>2. Settles(q, z, "CANCELLED") /\ q.handle = z.handle
    BY <1>4, <2>1, SettledFields DEF Closes, z
  <2>3. Settles(q, r, "CANCELLED") /\ q.handle = IF r.handle = "none" THEN "none" ELSE "closed"
    BY <2>1, <2>2 DEF Settles, Closes, SameCall, SameSignal, SameRequest, SameAnswer
  <2> QED BY <1>1, <2>3
<1>5. CASE q = handed /\ r.handle = "open" /\ ~(r.spec.signal /\ r.aborted)
  <2>1. /\ DOMAIN q = Fields
        /\ SameCall(q, r) /\ SameSignal(q, r) /\ SameRequest(q, r)
        /\ SameAnswer(q, r) /\ SameOutcome(q, r)
        /\ q.phase = "handed" /\ q.polled = r.polled /\ q.handle = "open"
    BY <1>5 DEF Fields, SameCall, SameSignal, SameRequest, SameAnswer, SameOutcome
  <2> QED BY <1>1, <1>5, <2>1
<1> QED BY <1>2, <1>3, <1>4, <1>5

\* A step of the handle: it is closing or closed afterwards.
HandleSteps(c) ==
    EndHandle(c) \/ SendFails(c) \/ CloseSocket(c) \/ RecvWhileClosing(c) \/ SocketClosed(c)

LEMMA HandleStep ==
  ASSUME NEW c \in Calls, DOMAIN call[c] = Fields, HandleSteps(c)
  PROVE  \E q :
               /\ StepTo(c, q)
               /\ call[c].phase = "handed" /\ call[c].handle # "none"
               /\ DOMAIN q = Fields
               /\ SameCall(q, call[c]) /\ SameRequest(q, call[c]) /\ SameAnswer(q, call[c])
               /\ q.phase = "handed" /\ q.result = call[c].result /\ q.polled = call[c].polled
               /\ q.aborted = call[c].aborted /\ q.token = call[c].token
               /\ q.handle \in {"closing", "closed"}
               /\ q.handle = "closing" =>
                    call[c].handle = "closing" \/ (call[c].handle = "open" /\ call[c].spec.kind = "ws")
<1> DEFINE r == call[c]
           z == Closed(r)
           q1 == [z EXCEPT !.listener = FALSE]
           q2 == [r EXCEPT !.handle = "closing"]
           q3 == [r EXCEPT !.listener = FALSE]
<1>1. Closes(z, r)
  BY ClosedFields
<1>2. /\ r.phase = "handed" /\ r.handle \in {"open", "closing"}
      /\ \/ StepTo(c, z) \/ StepTo(c, q1)
         \/ r.handle = "open" /\ r.spec.kind = "ws" /\ StepTo(c, q2)
         \/ r.handle = "closing" /\ StepTo(c, q3)
  BY DEF HandleSteps, EndHandle, SendFails, CloseSocket, RecvWhileClosing, SocketClosed, StepTo
<1> HIDE DEF z
<1>3. CASE StepTo(c, z)
  BY <1>1, <1>2, <1>3 DEF Closes, SameSignal
<1>4. CASE StepTo(c, q1)
  <2>1. /\ DOMAIN q1 = Fields
        /\ SameCall(q1, z) /\ SameRequest(q1, z) /\ SameAnswer(q1, z)
        /\ q1.phase = z.phase /\ q1.result = z.result /\ q1.polled = z.polled
        /\ q1.aborted = z.aborted /\ q1.token = z.token /\ q1.handle = z.handle
    BY <1>1 DEF Closes, Fields, SameCall, SameRequest, SameAnswer
  <2> HIDE DEF q1
  <2>2. /\ SameCall(q1, r) /\ SameRequest(q1, r) /\ SameAnswer(q1, r)
        /\ q1.phase = r.phase /\ q1.result = r.result /\ q1.polled = r.polled
        /\ q1.aborted = r.aborted /\ q1.token = r.token /\ q1.handle = "closed"
    BY <1>1, <1>2, <2>1 DEF Closes, SameCall, SameSignal, SameRequest, SameAnswer
  <2> QED BY <1>2, <1>4, <2>1, <2>2
<1>5. CASE r.handle = "open" /\ r.spec.kind = "ws" /\ StepTo(c, q2)
  <2>1. /\ DOMAIN q2 = Fields
        /\ SameCall(q2, r) /\ SameRequest(q2, r) /\ SameAnswer(q2, r)
        /\ q2.phase = r.phase /\ q2.result = r.result /\ q2.polled = r.polled
        /\ q2.aborted = r.aborted /\ q2.token = r.token /\ q2.handle = "closing"
    BY DEF Fields, SameCall, SameRequest, SameAnswer
  <2> HIDE DEF q2
  <2> QED BY <1>2, <1>5, <2>1
<1>6. CASE r.handle = "closing" /\ StepTo(c, q3)
  <2>1. /\ DOMAIN q3 = Fields
        /\ SameCall(q3, r) /\ SameRequest(q3, r) /\ SameAnswer(q3, r)
        /\ q3.phase = r.phase /\ q3.result = r.result /\ q3.polled = r.polled
        /\ q3.aborted = r.aborted /\ q3.token = r.token /\ q3.handle = r.handle
    BY DEF Fields, SameCall, SameRequest, SameAnswer
  <2> HIDE DEF q3
  <2> QED BY <1>2, <1>6, <2>1
<1> QED BY <1>2, <1>3, <1>4, <1>5, <1>6

LEMMA CancelTaskStep ==
  ASSUME NEW c \in Calls, DOMAIN call[c] = Fields, CancelTask(c)
  PROVE  \E q :
               /\ StepTo(c, q)
               /\ call[c].phase \in Pending \cup {"resolved"}
               /\ Settles(q, call[c], "CancelledError")
               /\ q.handle = IF call[c].handle = "none" THEN "none" ELSE "closed"
<1> DEFINE r == call[c]
           z == Closed(r)
           q == Settled(z, "CancelledError")
<1>1. Closes(z, r)
  BY ClosedFields
<1>2. StepTo(c, q) /\ r.phase \in Pending \cup {"resolved"}
  BY DEF CancelTask, StepTo
<1> HIDE DEF z
<1>3. Settles(q, z, "CancelledError") /\ q.handle = z.handle
  BY <1>1, SettledFields DEF Closes
<1> HIDE DEF q
<1>4. Settles(q, r, "CancelledError") /\ q.handle = IF r.handle = "none" THEN "none" ELSE "closed"
  BY <1>1, <1>3 DEF Settles, Closes, SameCall, SameSignal, SameRequest, SameAnswer
<1> QED BY <1>2, <1>4

\* The signal of a call that has started fires.
LEMMA AbortStep ==
  ASSUME NEW c \in Calls, DOMAIN call[c] = Fields, Abort(c)
  PROVE  \E q :
               /\ StepTo(c, q)
               /\ call[c].phase # "idle" => call[c].spec.signal
               /\ ~call[c].aborted
               /\ DOMAIN q = Fields
               /\ SameCall(q, call[c]) /\ SameRequest(q, call[c]) /\ SameAnswer(q, call[c])
               /\ q.phase = call[c].phase /\ q.result = call[c].result
               /\ q.polled = call[c].polled /\ q.aborted = TRUE
               /\ \/ q.token = call[c].token
                  \/ /\ q.token = TRUE
                     /\ call[c].phase = "handed" /\ call[c].handle # "none" => q.handle = "closed"
               /\ \/ q.handle = call[c].handle
                  \/ q.handle = "closed" /\ call[c].handle # "none"
               /\ call[c].phase = "handed" /\ call[c].listener => q.handle # "open"
<1> DEFINE r == call[c]
           quiet == [r EXCEPT !.aborted = TRUE]
           reached == IF r.phase = "handed" THEN Closed(r) ELSE r
           told == [reached EXCEPT !.aborted = TRUE, !.token = TRUE, !.listener = FALSE]
           q == IF r.phase = "idle" \/ ~r.listener THEN quiet ELSE told
<1>1. StepTo(c, q) /\ ~r.aborted /\ (r.phase # "idle" => r.spec.signal)
  BY DEF Abort, StepTo
<1>2. \/ q = quiet /\ (r.phase = "idle" \/ ~r.listener)
      \/ q = told
  BY Zenon
<1>3. /\ DOMAIN reached = Fields
      /\ SameCall(reached, r) /\ SameSignal(reached, r) /\ SameRequest(reached, r)
      /\ SameAnswer(reached, r)
      /\ reached.phase = r.phase /\ reached.result = r.result /\ reached.polled = r.polled
      /\ reached.handle = r.handle \/ (reached.handle = "closed" /\ r.handle # "none")
      /\ r.phase = "handed" => reached.handle # "open"
      /\ r.phase = "handed" /\ r.handle # "none" => reached.handle = "closed"
  <2>1. CASE r.phase = "handed"
    <3>1. Closes(Closed(r), r)
      BY ClosedFields
    <3> QED BY <2>1, <3>1 DEF Closes
  <2>2. CASE r.phase # "handed"
    BY <2>2 DEF SameCall, SameSignal, SameRequest, SameAnswer
  <2> QED BY <2>1, <2>2
<1> HIDE DEF q, reached
<1>4. CASE q = quiet /\ (r.phase = "idle" \/ ~r.listener)
  <2>1. /\ DOMAIN q = Fields
        /\ SameCall(q, r) /\ SameRequest(q, r) /\ SameAnswer(q, r)
        /\ q.phase = r.phase /\ q.result = r.result /\ q.polled = r.polled /\ q.aborted = TRUE
        /\ q.token = r.token /\ q.handle = r.handle
    BY <1>4 DEF Fields, SameCall, SameRequest, SameAnswer
  <2>2. ~(r.phase = "handed" /\ r.listener)
    BY <1>4
  <2> QED BY <1>1, <2>1, <2>2
<1>5. CASE q = told
  <2>1. /\ DOMAIN q = Fields
        /\ SameCall(q, reached) /\ SameRequest(q, reached) /\ SameAnswer(q, reached)
        /\ q.phase = reached.phase /\ q.result = reached.result /\ q.polled = reached.polled
        /\ q.aborted = TRUE /\ q.token = TRUE /\ q.handle = reached.handle
    BY <1>3, <1>5 DEF Fields, SameCall, SameRequest, SameAnswer
  <2>2. /\ SameCall(q, r) /\ SameRequest(q, r) /\ SameAnswer(q, r)
        /\ q.phase = r.phase /\ q.result = r.result /\ q.polled = r.polled
    BY <1>3, <2>1 DEF SameCall, SameRequest, SameAnswer
  <2> QED BY <1>1, <1>3, <2>1, <2>2
<1> QED BY <1>2, <1>4, <1>5

-----------------------------------------------------------------------------
(* AbortHonoured.                                                          *)

\* What the caller of a call still waits for, or holds.
Reachable(r) ==
    r.phase \in Pending \cup {"resolved"} \/ (r.phase = "handed" /\ r.handle = "open")

\* What a caller holds of a call: a handle, which is closed once the signal has
\* fired, unless it was a socket that closed already and nobody heard it.
Held(r) ==
    /\ r.handle \in {"open", "closing", "closed"}
    /\ r.handle = "closing" => r.spec.kind = "ws"
    /\ r.aborted => r.handle = "closed" \/ (r.handle = "closing" /\ ~r.token)

\* A call whose signal fired before it began is never polled; one whose signal
\* has not fired listens to it as long as there is something to stop.
AbortInv(r) ==
    /\ r.phase = "building" => ~r.spec.signal
    /\ r.aborted => r.spec.signal
    /\ r.early => /\ r.token /\ ~r.polled
                  /\ r.phase \in {"start", "resolved", "settled"}
                  /\ r.builder.request = None /\ r.handle = "none"
    /\ r.spec.signal /\ ~r.aborted /\ Reachable(r) => r.listener
    /\ r.token => r.aborted
    /\ r.phase = "handed" => Held(r)

\* The steps of a call that has begun.
Steps(c) ==
    \/ \E i \in DOMAIN BuilderOps : Build(c, BuilderOps[i])
    \/ RustSend(c)
    \/ Poll(c) \/ Park(c) \/ Cancelled(c)
    \/ Start(c) \/ AddPart(c) \/ Send(c)
    \/ WriteBody(c) \/ EndBody(c)
    \/ \E a \in Answers : Answer(c, a)
    \/ ReadBody(c)
    \/ \E e \in EngineErrors : Fail(c, e)
    \/ Continue(c) \/ Abort(c) \/ CancelTask(c)
    \/ HandleSteps(c)

LEMMA AbortWorks ==
  ASSUME NEW r, NEW q, AbortInv(r), Works(q, r), r.polled,
         \/ q.phase = "building" /\ r.phase = "building"
         \/ q.phase \in Pending /\ (r.phase \in Pending \/ ~r.spec.signal)
  PROVE  AbortInv(q)
<1>1. /\ q.spec = r.spec /\ q.early = r.early /\ q.aborted = r.aborted /\ q.listener = r.listener
      /\ q.token = r.token /\ q.polled = r.polled /\ q.handle = r.handle
  BY DEF Works, SameCall, SameSignal, SameOutcome
<1>2. ~r.early
  BY DEF AbortInv
<1>3. r.phase # "building" => r.phase \in Pending \/ ~r.spec.signal
  BY DEF AbortInv
<1>4. q.phase # "handed" /\ (q.phase = "building" => r.phase = "building")
  BY DEF Pending
<1> QED BY <1>1, <1>2, <1>3, <1>4 DEF AbortInv, Reachable

LEMMA AbortResolves ==
  ASSUME NEW r, NEW q, NEW code, AbortInv(r), Resolves(q, r, code),
         r.phase \in Pending \/ r.phase = "building"
  PROVE  AbortInv(q)
<1>1. /\ q.spec = r.spec /\ q.early = r.early /\ q.aborted = r.aborted /\ q.listener = r.listener
      /\ q.token = r.token /\ q.polled = FALSE /\ q.handle = r.handle /\ q.phase = "resolved"
      /\ q.builder = r.builder
  BY DEF Resolves, SameCall, SameSignal, SameRequest
<1>2. r.spec.signal => r.phase \in Pending
  BY DEF AbortInv
<1> QED BY <1>1, <1>2 DEF AbortInv, Reachable, Pending

LEMMA AbortSettled ==
  ASSUME NEW r, NEW q, NEW code, AbortInv(r), Settles(q, r, code), r.phase # "handed",
         r.early => q.handle = "none"
  PROVE  AbortInv(q)
<1>1. /\ q.spec = r.spec /\ q.early = r.early /\ q.aborted = r.aborted
      /\ q.token = r.token /\ q.polled = r.polled /\ q.phase = "settled"
      /\ q.builder = r.builder
  BY DEF Settles, SameCall, SameRequest
<1> QED BY <1>1 DEF AbortInv, Reachable, Pending

LEMMA AbortKept ==
  ASSUME NEW c \in Calls, DOMAIN call = Calls, DOMAIN call[c] = Fields, Steps(c),
         call[c].phase # "idle", AbortInv(call[c])
  PROVE  AbortInv(call'[c])
<1> DEFINE r == call[c]
<1>0. \A q : StepTo(c, q) => call'[c] = q
  BY DEF StepTo
<1>1. ASSUME NEW i \in DOMAIN BuilderOps, Build(c, BuilderOps[i]) PROVE AbortInv(call'[c])
  <2>1. PICK q : StepTo(c, q) /\ Works(q, r) /\ q.phase = "building"
    BY <1>1, BuildStep
  <2>2. r.phase = "building"
    BY <1>1 DEF Build
  <2>3. ~r.early
    BY <2>2 DEF AbortInv
  <2>4. /\ q.spec = r.spec /\ q.early = r.early /\ q.aborted = r.aborted /\ q.handle = r.handle
        /\ q.token = r.token
    BY <2>1 DEF Works, SameCall, SameSignal, SameOutcome
  <2>5. AbortInv(q)
    BY <2>1, <2>2, <2>3, <2>4 DEF AbortInv, Reachable, Pending
  <2> QED BY <1>0, <2>1, <2>5
<1>2. CASE RustSend(c)
  <2>1. PICK q, builder : /\ StepTo(c, q) /\ r.phase = "building"
                          /\ \/ \E code \in Codes : Resolves(q, r, code)
                             \/ Sends(q, r, builder)
    BY <1>2, RustSendStep
  <2>2. CASE \E code \in Codes : Resolves(q, r, code)
    BY <1>0, <2>1, <2>2, AbortResolves
  <2>3. CASE Sends(q, r, builder)
    <3>1. ~r.early /\ ~r.spec.signal
      BY <2>1 DEF AbortInv
    <3>2. /\ q.spec = r.spec /\ q.early = r.early /\ q.aborted = r.aborted /\ q.phase = "sending"
          /\ q.token = r.token
      BY <2>3 DEF Sends, Works, SameCall, SameSignal
    <3>3. AbortInv(q)
      BY <3>1, <3>2 DEF AbortInv
    <3> QED BY <1>0, <2>1, <3>3
  <2> QED BY <2>1, <2>2, <2>3
<1>3. CASE Poll(c) \/ Park(c)
  <2>1. PICK q : /\ StepTo(c, q)
                 /\ SameCall(q, r) /\ SameSignal(q, r) /\ SameRequest(q, r) /\ SameOutcome(q, r)
                 /\ q.phase = r.phase /\ r.phase \in Pending
                 /\ (q.polled = TRUE /\ ~r.token) \/ q.polled = FALSE
    BY <1>3, PollStep
  <2>2. /\ q.spec = r.spec /\ q.early = r.early /\ q.aborted = r.aborted /\ q.listener = r.listener
        /\ q.token = r.token /\ q.handle = r.handle /\ q.builder = r.builder
    BY <2>1 DEF SameCall, SameSignal, SameRequest, SameOutcome
  <2>3. AbortInv(q)
    BY <2>1, <2>2 DEF AbortInv, Reachable, Pending
  <2> QED BY <1>0, <2>1, <2>3
<1>4. CASE Cancelled(c)
  BY <1>0, <1>4, CancelledStep, AbortResolves
<1>5. CASE Start(c)
  <2>1. PICK q : /\ StepTo(c, q) /\ r.phase = "start" /\ r.polled
                 /\ \/ \E code \in Codes : Resolves(q, r, code)
                    \/ Sends(q, r, SocketOf(c, r.spec))
                    \/ Works(q, r) /\ q.phase = "files"
    BY <1>5, StartStep
  <2>2. (\E code \in Codes : Resolves(q, r, code)) \/ (Works(q, r) /\ q.phase \in Pending)
    BY <2>1 DEF Sends, Pending
  <2>3. r.phase \in Pending
    BY <2>1 DEF Pending
  <2> QED BY <1>0, <2>1, <2>2, <2>3, AbortResolves, AbortWorks
<1>6. CASE AddPart(c)
  <2>1. PICK q : /\ StepTo(c, q) /\ r.phase = "files" /\ r.polled
                 /\ \/ \E code \in Codes : Resolves(q, r, code)
                    \/ Works(q, r) /\ q.phase = "files"
    BY <1>6, AddPartStep
  <2>2. r.phase \in Pending /\ "files" \in Pending
    BY <2>1 DEF Pending
  <2> QED BY <1>0, <2>1, <2>2, AbortResolves, AbortWorks
<1>7. CASE Send(c)
  <2>1. PICK q : /\ StepTo(c, q) /\ r.phase = "files" /\ r.polled
                 /\ \/ \E code \in Codes : Resolves(q, r, code)
                    \/ Sends(q, r, Attached(r))
    BY <1>7, SendStep
  <2>2. (\E code \in Codes : Resolves(q, r, code)) \/ (Works(q, r) /\ q.phase \in Pending)
    BY <2>1 DEF Sends, Pending
  <2>3. r.phase \in Pending
    BY <2>1 DEF Pending
  <2> QED BY <1>0, <2>1, <2>2, <2>3, AbortResolves, AbortWorks
<1>8. CASE WriteBody(c) \/ EndBody(c)
  <2>1. r.phase = "sending" /\ r.polled
    BY <1>8 DEF WriteBody, EndBody
  <2>2. PICK q : /\ StepTo(c, q)
                 /\ \/ \E code \in Codes : Resolves(q, r, code)
                    \/ Works(q, r) /\ q.phase \in {"sending", "head"}
    <3>1. CASE WriteBody(c)
      <4>1. PICK q : StepTo(c, q) /\ Works(q, r) /\ q.phase = "sending"
        BY <3>1, WriteBodyStep
      <4> QED BY <4>1
    <3>2. CASE EndBody(c)
      BY <3>2, EndBodyStep
    <3> QED BY <1>8, <3>1, <3>2
  <2>3. r.phase \in Pending /\ {"sending", "head"} \subseteq Pending
    BY <2>1 DEF Pending
  <2> QED BY <1>0, <2>1, <2>2, <2>3, AbortResolves, AbortWorks
<1>9. ASSUME NEW a \in Answers, Answer(c, a) PROVE AbortInv(call'[c])
  <2>0. r.phase = "head" /\ r.polled
    BY <1>9 DEF Answer
  <2>1. PICK q : /\ StepTo(c, q)
                 /\ SameCall(q, r) /\ SameSignal(q, r)
                 /\ q.phase \in {"resolved", "reading"}
    <3>1. PICK q : StepTo(c, q) /\ Answered(q, r, a)
      BY <1>9, AnswerStep
    <3>2. q.phase \in {"resolved", "reading"}
      BY <3>1 DEF Answered
    <3>3. SameCall(q, r) /\ SameSignal(q, r)
      BY <3>1 DEF Answered
    <3> QED BY <3>1, <3>2, <3>3
  <2>2. /\ q.spec = r.spec /\ q.early = r.early /\ q.aborted = r.aborted /\ q.listener = r.listener
        /\ q.token = r.token
    BY <2>1 DEF SameCall, SameSignal
  <2>3. ~r.early
    BY <2>0 DEF AbortInv
  <2>4. AbortInv(q)
    BY <2>0, <2>1, <2>2, <2>3 DEF AbortInv, Reachable, Pending
  <2> QED BY <1>0, <2>1, <2>4
<1>10. CASE ReadBody(c)
  <2>0. r.phase = "reading" /\ r.polled
    BY <1>10 DEF ReadBody
  <2>1. PICK q : /\ StepTo(c, q)
                 /\ \/ \E code : Resolves(q, r, code)
                    \/ /\ SameCall(q, r) /\ SameSignal(q, r)
                       /\ q.phase = "reading"
    BY <1>10, ReadBodyStep
  <2>2. CASE \E code : Resolves(q, r, code)
    BY <1>0, <2>0, <2>1, <2>2, AbortResolves DEF Pending
  <2>3. CASE SameCall(q, r) /\ SameSignal(q, r) /\ q.phase = "reading"
    <3>1. /\ q.spec = r.spec /\ q.early = r.early /\ q.aborted = r.aborted /\ q.listener = r.listener
          /\ q.token = r.token
      BY <2>3 DEF SameCall, SameSignal
    <3>2. ~r.early
      BY <2>0 DEF AbortInv
    <3>3. AbortInv(q)
      BY <2>0, <2>3, <3>1, <3>2 DEF AbortInv, Reachable, Pending
    <3> QED BY <1>0, <2>1, <3>3
  <2> QED BY <2>1, <2>2, <2>3
<1>11. ASSUME NEW e \in EngineErrors, Fail(c, e) PROVE AbortInv(call'[c])
  <2>1. PICK q : /\ StepTo(c, q) /\ r.phase \in {"sending", "head", "reading"}
                 /\ \E code \in Codes : Resolves(q, r, code)
    BY <1>11, FailStep
  <2> QED BY <1>0, <2>1, AbortResolves DEF Pending
<1>12. CASE Continue(c)
  <2>1. PICK q : /\ StepTo(c, q) /\ r.phase = "resolved"
                 /\ \/ \E code : /\ Settles(q, r, code)
                                 /\ r.handle = "none" => q.handle = "none"
                    \/ /\ SameCall(q, r) /\ SameSignal(q, r)
                       /\ q.phase = "handed" /\ q.handle = "open" /\ r.handle = "open"
                       /\ ~(r.spec.signal /\ r.aborted)
    BY <1>12, ContinueStep DEF SameOutcome
  <2>2. CASE \E code : /\ Settles(q, r, code)
                       /\ r.handle = "none" => q.handle = "none"
    <3>1. r.early => r.handle = "none"
      BY DEF AbortInv
    <3> QED BY <1>0, <2>1, <2>2, <3>1, AbortSettled
  <2>3. CASE /\ SameCall(q, r) /\ SameSignal(q, r)
             /\ q.phase = "handed" /\ q.handle = "open" /\ r.handle = "open"
             /\ ~(r.spec.signal /\ r.aborted)
    <3>1. /\ q.spec = r.spec /\ q.early = r.early /\ q.aborted = r.aborted /\ q.listener = r.listener
          /\ q.token = r.token
      BY <2>3 DEF SameCall, SameSignal
    <3>2. ~r.early /\ ~r.aborted
      BY <2>3 DEF AbortInv
    <3>3. AbortInv(q)
      BY <2>1, <2>3, <3>1, <3>2 DEF AbortInv, Reachable, Held
    <3> QED BY <1>0, <2>1, <3>3
  <2> QED BY <2>1, <2>2, <2>3
<1>13. CASE Abort(c)
  <2>1. PICK q : /\ StepTo(c, q) /\ r.spec.signal /\ ~r.aborted
                 /\ SameCall(q, r) /\ SameRequest(q, r)
                 /\ q.phase = r.phase /\ q.polled = r.polled /\ q.aborted = TRUE
                 /\ \/ q.token = r.token
                    \/ /\ q.token = TRUE
                       /\ r.phase = "handed" /\ r.handle # "none" => q.handle = "closed"
                 /\ q.handle = r.handle \/ (q.handle = "closed" /\ r.handle # "none")
                 /\ r.phase = "handed" /\ r.listener => q.handle # "open"
    BY <1>13, AbortStep
  <2>2. q.spec = r.spec /\ q.early = r.early /\ q.builder = r.builder
    BY <2>1 DEF SameCall, SameRequest
  <2>3. ASSUME q.phase = "handed" PROVE Held(q)
    <3>1. q.handle # "open"
      BY <2>1, <2>3 DEF AbortInv, Reachable
    <3>2. r.phase = "handed" /\ Held(r) /\ ~r.token
      BY <2>1, <2>3 DEF AbortInv
    <3> QED BY <2>1, <2>2, <3>1, <3>2 DEF Held
  <2>4. AbortInv(q)
    BY <2>1, <2>2, <2>3 DEF AbortInv, Reachable, Pending
  <2> QED BY <1>0, <2>1, <2>4
<1>14. CASE CancelTask(c)
  <2>1. PICK q : /\ StepTo(c, q) /\ r.phase \in Pending \cup {"resolved"}
                 /\ Settles(q, r, "CancelledError")
                 /\ r.handle = "none" => q.handle = "none"
    BY <1>14, CancelTaskStep
  <2>2. r.phase # "handed" /\ (r.early => r.handle = "none")
    BY <2>1 DEF Pending, AbortInv
  <2> QED BY <1>0, <2>1, <2>2, AbortSettled
<1>15. CASE HandleSteps(c)
  <2>1. PICK q : /\ StepTo(c, q) /\ r.phase = "handed"
                 /\ SameCall(q, r) /\ q.phase = "handed"
                 /\ q.aborted = r.aborted /\ q.token = r.token
                 /\ q.handle \in {"closing", "closed"}
                 /\ q.handle = "closing" =>
                      r.handle = "closing" \/ (r.handle = "open" /\ r.spec.kind = "ws")
    BY <1>15, HandleStep
  <2>2. q.spec = r.spec /\ q.early = r.early /\ ~r.early
    BY <2>1 DEF SameCall, AbortInv
  <2>3. Held(q)
    BY <2>1, <2>2 DEF AbortInv, Held
  <2>4. AbortInv(q)
    BY <2>1, <2>2, <2>3 DEF AbortInv, Reachable, Pending
  <2> QED BY <1>0, <2>1, <2>4
<1> QED
  BY <1>1, <1>2, <1>3, <1>4, <1>5, <1>6, <1>7, <1>8, <1>9, <1>10, <1>11, <1>12, <1>13, <1>14,
     <1>15 DEF Steps

-----------------------------------------------------------------------------
(* LimitExact.                                                             *)

Before == {"start", "building", "files", "sending", "head"}
Ended == {"resolved", "handed", "settled"}

\* What was read are the first k chunks of the answer, and they fit.
FirstRead(r, k) ==
    LET s == r.response.chunks
    IN  /\ s \in Seq(Nat) /\ r.chunks \in Seq(Nat)
        /\ k \in 0 .. Len(s) /\ Len(r.chunks) = Len(s) - k
        /\ \A j \in 1 .. Len(r.chunks) : r.chunks[j] = s[k + j]
        /\ r.got = Upto("bytes", r, 0, s, k)
        /\ r.got <= r.max

Fitting(r) == \E k \in Nat : FirstRead(r, k)

LimitInv(r) ==
    /\ r.max \in Nat
    /\ r.phase \in Before => r.response = None /\ r.got = 0
    /\ r.phase \notin Ended => r.result = None
    /\ r.spec.api # "rust" /\ r.response # None =>
         Fitting(r) /\ (r.result = "BODY_TOO_LARGE" => Total(r) > r.max)

LEMMA FittingSame ==
  ASSUME NEW r, NEW q, SameCall(q, r), SameAnswer(q, r), q.builder = r.builder, Fitting(r)
  PROVE  Fitting(q) /\ Total(q) = Total(r)
<1>1. q.response = r.response /\ q.chunks = r.chunks /\ q.got = r.got
      /\ q.max = r.max /\ q.config = r.config
  BY DEF SameCall, SameAnswer
<1>2. PICK k \in Nat : FirstRead(r, k)
  BY DEF Fitting
<1> DEFINE s == r.response.chunks
<1>3. s \in Seq(Nat) /\ k \in 0 .. Len(s)
  BY <1>2 DEF FirstRead
<1>4. \A j \in 0 .. Len(s) : Upto("bytes", q, 0, s, j) = Upto("bytes", r, 0, s, j)
  BY <1>1, <1>3, BytesSame
<1>5. FirstRead(q, k)
  BY <1>1, <1>2, <1>3, <1>4 DEF FirstRead
<1>6. Total(q) = Upto("bytes", q, 0, s, Len(s)) /\ Total(r) = Upto("bytes", r, 0, s, Len(s))
  <2>1. Len(s) \in Nat /\ DOMAIN s = 1 .. Len(s) /\ q.response.chunks = s
    BY <1>1, <1>3
  <2> QED BY <2>1, BytesFold
<1>7. Len(s) \in 0 .. Len(s)
  BY <1>3
<1> QED BY <1>4, <1>5, <1>6, <1>7 DEF Fitting

\* A step that reads nothing and finds no body too large.
LEMMA LimitStill ==
  ASSUME NEW r, NEW q, LimitInv(r), SameCall(q, r), SameAnswer(q, r),
         q.builder = r.builder \/ r.phase \in Before,
         q.phase \in Before => r.phase \in Before,
         q.phase \notin Ended => q.result = None,
         q.result = r.result \/ q.result # "BODY_TOO_LARGE"
  PROVE  LimitInv(q)
<1>1. q.spec = r.spec /\ q.max = r.max /\ q.response = r.response /\ q.got = r.got
  BY DEF SameCall, SameAnswer
<1>2. CASE r.phase \in Before
  BY <1>1, <1>2 DEF LimitInv
<1>3. CASE r.phase \notin Before
  <2>1. CASE r.spec.api # "rust" /\ r.response # None
    <3>1. Fitting(q) /\ Total(q) = Total(r)
      BY <1>3, <2>1, FittingSame DEF LimitInv
    <3> QED BY <1>1, <1>3, <3>1 DEF LimitInv
  <2>2. CASE ~(r.spec.api # "rust" /\ r.response # None)
    BY <1>1, <1>3, <2>2 DEF LimitInv
  <2> QED BY <2>1, <2>2
<1> QED BY <1>2, <1>3

LEMMA LimitResolves ==
  ASSUME NEW r, NEW q, NEW code, code # "BODY_TOO_LARGE", LimitInv(r), Resolves(q, r, code)
  PROVE  LimitInv(q)
<1>1. SameCall(q, r) /\ SameAnswer(q, r) /\ q.builder = r.builder /\ q.phase = "resolved"
      /\ q.result = code
  BY DEF Resolves, SameRequest
<1> QED BY <1>1, LimitStill DEF Before, Ended

LEMMA LimitWorks ==
  ASSUME NEW r, NEW q, LimitInv(r), Works(q, r), r.phase \in Before, q.phase \in Before
  PROVE  LimitInv(q)
<1>1. SameCall(q, r) /\ SameAnswer(q, r) /\ q.result = r.result
  BY DEF Works, SameOutcome
<1>2. r.result = None
  BY DEF LimitInv, Before, Ended
<1> QED BY <1>1, <1>2, LimitStill

LEMMA ChunksLeft ==
  ASSUME NEW s \in Seq(Nat), NEW rest \in Seq(Nat), NEW k \in 0 .. Len(s),
         Len(rest) = Len(s) - k, rest # <<>>,
         \A j \in 1 .. Len(rest) : rest[j] = s[k + j]
  PROVE  /\ k + 1 \in 1 .. Len(s) /\ Head(rest) = s[k + 1] /\ s[k + 1] \in Nat
         /\ Tail(rest) \in Seq(Nat) /\ Len(Tail(rest)) = Len(s) - (k + 1)
         /\ \A j \in 1 .. Len(Tail(rest)) : Tail(rest)[j] = s[(k + 1) + j]
<1>1. Len(rest) \in Nat /\ Len(rest) > 0 /\ Len(s) \in Nat
  OBVIOUS
<1>2. k + 1 \in 1 .. Len(s) /\ 1 \in 1 .. Len(rest)
  BY <1>1
<1>3. Head(rest) = rest[1] /\ rest[1] = s[k + 1] /\ s[k + 1] \in Nat
  BY <1>1, <1>2
<1>4. Tail(rest) \in Seq(Nat) /\ Len(Tail(rest)) = Len(rest) - 1
  BY <1>1
<1>5. Len(Tail(rest)) = Len(s) - (k + 1)
  BY <1>1, <1>4
<1>6. ASSUME NEW j \in 1 .. Len(Tail(rest)) PROVE Tail(rest)[j] = s[(k + 1) + j]
  <2>1. j + 1 \in 1 .. Len(rest) /\ Tail(rest)[j] = rest[j + 1]
    BY <1>1, <1>4
  <2>2. rest[j + 1] = s[k + (j + 1)]
    BY <2>1
  <2>3. k + (j + 1) = (k + 1) + j
    BY <1>1, <1>4
  <2> QED BY <2>1, <2>2, <2>3
<1> QED BY <1>2, <1>3, <1>4, <1>5, <1>6

\* request_with_options compares each chunk with the room that is left.
LEMMA ExceedsRoom ==
  ASSUME NEW chunk \in Nat, NEW max \in Nat, NEW got \in Nat, got <= max
  PROVE  exceeds(chunk, max, got) <=> got + chunk > max
<1>1. Max({0, max - got}) = max - got
  BY DEF Max
<1> QED BY <1>1 DEF exceeds

LEMMA NextChunk ==
  ASSUME NEW r, NEW k \in Nat, r.max \in Nat, FirstRead(r, k), r.chunks # <<>>
  PROVE  LET s == r.response.chunks
             chunk == Decoded(r, Head(r.chunks))
         IN  /\ k + 1 \in 1 .. Len(s) /\ chunk \in Nat /\ r.got \in Nat /\ r.got <= r.max
             /\ Upto("bytes", r, 0, s, k + 1) = r.got + chunk
             /\ exceeds(chunk, r.max, r.got) <=> r.got + chunk > r.max
             /\ Tail(r.chunks) \in Seq(Nat) /\ Len(Tail(r.chunks)) = Len(s) - (k + 1)
             /\ \A j \in 1 .. Len(Tail(r.chunks)) : Tail(r.chunks)[j] = s[(k + 1) + j]
<1> DEFINE s == r.response.chunks
           chunk == Decoded(r, Head(r.chunks))
           U(j) == Upto("bytes", r, 0, s, j)
<1>1. /\ s \in Seq(Nat) /\ r.chunks \in Seq(Nat)
      /\ k \in 0 .. Len(s) /\ Len(r.chunks) = Len(s) - k
      /\ \A j \in 1 .. Len(r.chunks) : r.chunks[j] = s[k + j]
      /\ r.got = U(k) /\ r.got <= r.max
  BY DEF FirstRead
<1>2. /\ k + 1 \in 1 .. Len(s) /\ Head(r.chunks) = s[k + 1] /\ s[k + 1] \in Nat
      /\ Tail(r.chunks) \in Seq(Nat) /\ Len(Tail(r.chunks)) = Len(s) - (k + 1)
      /\ \A j \in 1 .. Len(Tail(r.chunks)) : Tail(r.chunks)[j] = s[(k + 1) + j]
  <2> HIDE DEF s
  <2> QED BY <1>1, ChunksLeft
<1>3. U(k) \in Nat
  BY <1>1, BytesGrow
<1>4. U(k + 1) = U(k + 1 - 1) + Decoded(r, s[k + 1])
  <2>1. \A j \in 1 .. Len(s) : U(j) = U(j - 1) + Decoded(r, s[j])
    BY <1>1, BytesSteps
  <2> HIDE DEF U
  <2> QED BY <1>2, <2>1
<1>5. chunk \in Nat
  BY <1>2 DEF Decoded
<1> HIDE DEF U
<1>6. U(k + 1) = r.got + chunk
  <2>1. k + 1 - 1 = k
    OBVIOUS
  <2> QED BY <1>1, <1>2, <1>4, <2>1
<1> HIDE DEF chunk, s
<1>7. exceeds(chunk, r.max, r.got) <=> r.got + chunk > r.max
  BY <1>1, <1>3, <1>5, ExceedsRoom
<1> QED BY <1>1, <1>2, <1>3, <1>5, <1>6, <1>7 DEF U, chunk, s

\* The last chunk that fits, and the first that does not.
LEMMA ChunkRead ==
  ASSUME NEW r, NEW q, r.max \in Nat, Fitting(r), r.chunks # <<>>,
         SameCall(q, r), q.builder = r.builder, q.response = r.response,
         q.chunks = Tail(r.chunks), q.got = r.got + Decoded(r, Head(r.chunks)),
         ~exceeds(Decoded(r, Head(r.chunks)), r.max, r.got)
  PROVE  Fitting(q)
<1> DEFINE s == r.response.chunks
           chunk == Decoded(r, Head(r.chunks))
<1>1. PICK k \in Nat : FirstRead(r, k)
  BY DEF Fitting
<1>2. /\ k + 1 \in 1 .. Len(s) /\ chunk \in Nat /\ r.got \in Nat
      /\ Upto("bytes", r, 0, s, k + 1) = r.got + chunk
      /\ exceeds(chunk, r.max, r.got) <=> r.got + chunk > r.max
      /\ Tail(r.chunks) \in Seq(Nat) /\ Len(Tail(r.chunks)) = Len(s) - (k + 1)
      /\ \A j \in 1 .. Len(Tail(r.chunks)) : Tail(r.chunks)[j] = s[(k + 1) + j]
  BY <1>1, NextChunk
<1>3. s \in Seq(Nat) /\ q.response.chunks = s
  BY <1>1 DEF FirstRead
<1>4. q.max = r.max /\ q.config = r.config
  BY DEF SameCall
<1>5. q.got = r.got + chunk /\ ~exceeds(chunk, r.max, r.got)
  OBVIOUS
<1> HIDE DEF chunk, s
<1>6. q.got <= q.max
  BY <1>2, <1>4, <1>5
<1>7. k + 1 \in Nat /\ k + 1 \in 0 .. Len(s)
  BY <1>2
<1>8. Upto("bytes", q, 0, s, k + 1) = Upto("bytes", r, 0, s, k + 1)
  BY <1>3, <1>4, <1>7, BytesSame
<1>9. FirstRead(q, k + 1)
  BY <1>2, <1>3, <1>5, <1>6, <1>7, <1>8 DEF FirstRead
<1> QED BY <1>7, <1>9 DEF Fitting

LEMMA ChunkRefused ==
  ASSUME NEW r, r.max \in Nat, Fitting(r), r.chunks # <<>>,
         exceeds(Decoded(r, Head(r.chunks)), r.max, r.got)
  PROVE  Total(r) > r.max
<1> DEFINE s == r.response.chunks
           chunk == Decoded(r, Head(r.chunks))
           U(j) == Upto("bytes", r, 0, s, j)
<1>1. PICK k \in Nat : FirstRead(r, k)
  BY DEF Fitting
<1>2. /\ k + 1 \in 1 .. Len(s) /\ chunk \in Nat /\ r.got \in Nat
      /\ U(k + 1) = r.got + chunk
      /\ exceeds(chunk, r.max, r.got) <=> r.got + chunk > r.max
  BY <1>1, NextChunk
<1>3. s \in Seq(Nat)
  BY <1>1 DEF FirstRead
<1>4. exceeds(chunk, r.max, r.got)
  OBVIOUS
<1>5. Total(r) = U(Len(s))
  BY <1>3, BytesFold
<1> HIDE DEF chunk
<1>6. k + 1 \in 0 .. Len(s) /\ Len(s) \in 0 .. Len(s) /\ k + 1 <= Len(s)
  <2> HIDE DEF s
  <2> QED BY <1>2, <1>3
<1>7. U(k + 1) \in Nat /\ U(Len(s)) \in Nat /\ U(k + 1) <= U(Len(s))
  BY <1>3, <1>6, BytesGrow
<1> HIDE DEF U, s
<1> QED BY <1>2, <1>4, <1>5, <1>7

LEMMA LimitKept ==
  ASSUME NEW c \in Calls, DOMAIN call = Calls, DOMAIN call[c] = Fields, Steps(c),
         call[c].phase # "idle", LimitInv(call[c])
  PROVE  LimitInv(call'[c])
<1> DEFINE r == call[c]
<1>0. \A q : StepTo(c, q) => call'[c] = q
  BY DEF StepTo
<1>codes. "BODY_TOO_LARGE" \notin Codes
  BY DEF Codes
<1>1. ASSUME NEW i \in DOMAIN BuilderOps, Build(c, BuilderOps[i]) PROVE LimitInv(call'[c])
  <2>1. PICK q : StepTo(c, q) /\ Works(q, r) /\ q.phase = "building"
    BY <1>1, BuildStep
  <2>2. r.phase \in Before /\ q.phase \in Before
    BY <1>1, <2>1 DEF Build, Before
  <2> QED BY <1>0, <2>1, <2>2, LimitWorks
<1>2. CASE RustSend(c)
  <2>1. PICK q, builder : /\ StepTo(c, q) /\ r.phase = "building"
                          /\ \/ \E code \in Codes : Resolves(q, r, code)
                             \/ Sends(q, r, builder)
    BY <1>2, RustSendStep
  <2>2. \/ \E code \in Codes : Resolves(q, r, code)
        \/ Works(q, r) /\ q.phase \in Before
    BY <2>1 DEF Sends, Before
  <2>3. r.phase \in Before
    BY <2>1 DEF Before
  <2> QED BY <1>0, <1>codes, <2>1, <2>2, <2>3, LimitResolves, LimitWorks
<1>3. CASE Poll(c) \/ Park(c)
  <2>1. PICK q : /\ StepTo(c, q)
                 /\ SameCall(q, r) /\ SameAnswer(q, r) /\ SameRequest(q, r) /\ SameOutcome(q, r)
                 /\ q.phase = r.phase
    BY <1>3, PollStep
  <2>2. q.builder = r.builder /\ q.result = r.result
    BY <2>1 DEF SameRequest, SameOutcome
  <2>3. LimitInv(q)
    BY <2>1, <2>2, LimitStill DEF LimitInv
  <2> QED BY <1>0, <2>1, <2>3
<1>4. CASE Cancelled(c)
  <2>1. PICK q : StepTo(c, q) /\ Resolves(q, r, "CANCELLED")
    BY <1>4, CancelledStep
  <2> QED BY <1>0, <2>1, LimitResolves
<1>5. CASE Start(c)
  <2>1. PICK q : /\ StepTo(c, q) /\ r.phase = "start"
                 /\ \/ \E code \in Codes : Resolves(q, r, code)
                    \/ Sends(q, r, SocketOf(c, r.spec))
                    \/ Works(q, r) /\ q.phase = "files"
    BY <1>5, StartStep
  <2>2. \/ \E code \in Codes : Resolves(q, r, code)
        \/ Works(q, r) /\ q.phase \in Before
    BY <2>1 DEF Sends, Before
  <2>3. r.phase \in Before
    BY <2>1 DEF Before
  <2> QED BY <1>0, <1>codes, <2>1, <2>2, <2>3, LimitResolves, LimitWorks
<1>6. CASE AddPart(c)
  <2>1. PICK q : /\ StepTo(c, q) /\ r.phase = "files"
                 /\ \/ \E code \in Codes : Resolves(q, r, code)
                    \/ Works(q, r) /\ q.phase = "files"
    BY <1>6, AddPartStep
  <2>2. r.phase \in Before /\ "files" \in Before
    BY <2>1 DEF Before
  <2> QED BY <1>0, <1>codes, <2>1, <2>2, LimitResolves, LimitWorks
<1>7. CASE Send(c)
  <2>1. PICK q : /\ StepTo(c, q) /\ r.phase = "files"
                 /\ \/ \E code \in Codes : Resolves(q, r, code)
                    \/ Sends(q, r, Attached(r))
    BY <1>7, SendStep
  <2>2. \/ \E code \in Codes : Resolves(q, r, code)
        \/ Works(q, r) /\ q.phase \in Before
    BY <2>1 DEF Sends, Before
  <2>3. r.phase \in Before
    BY <2>1 DEF Before
  <2> QED BY <1>0, <1>codes, <2>1, <2>2, <2>3, LimitResolves, LimitWorks
<1>8. CASE WriteBody(c) \/ EndBody(c)
  <2>1. PICK q : /\ StepTo(c, q)
                 /\ \/ \E code \in Codes : Resolves(q, r, code)
                    \/ Works(q, r) /\ q.phase \in {"sending", "head"}
    <3>1. CASE WriteBody(c)
      <4>1. PICK q : StepTo(c, q) /\ Works(q, r) /\ q.phase = "sending"
        BY <3>1, WriteBodyStep
      <4> QED BY <4>1
    <3>2. CASE EndBody(c)
      BY <3>2, EndBodyStep
    <3> QED BY <1>8, <3>1, <3>2
  <2>2. r.phase \in Before /\ {"sending", "head"} \subseteq Before
    BY <1>8 DEF WriteBody, EndBody, Before
  <2> QED BY <1>0, <1>codes, <2>1, <2>2, LimitResolves, LimitWorks
<1>9. ASSUME NEW a \in Answers, Answer(c, a) PROVE LimitInv(call'[c])
  <2>1. PICK q : StepTo(c, q) /\ Answered(q, r, a) /\ r.phase = "head"
    BY <1>9, AnswerStep
  <2>2. /\ q.spec = r.spec /\ q.max = r.max /\ q.response = a /\ q.chunks = a.chunks
        /\ q.got = r.got
    BY <2>1 DEF Answered, SameCall
  <2>3. r.got = 0 /\ r.max \in Nat /\ r.result = None
    BY <2>1 DEF LimitInv, Before, Ended
  <2>4. /\ q.phase \in {"resolved", "reading"} /\ q.result # "BODY_TOO_LARGE"
        /\ q.phase = "reading" => q.result = None
    BY <1>codes, <2>1, <2>3, NoneIsNoCode DEF Answered, SameOutcome
  <2>5. FirstRead(q, 0)
    <3>1. a.chunks \in Seq(Nat)
      BY SizesAreNumbers
    <3>2. Upto("bytes", q, 0, a.chunks, 0) = 0
      BY <3>1, BytesSteps
    <3> QED BY <2>2, <2>3, <3>1, <3>2 DEF FirstRead
  <2>6. Fitting(q)
    BY <2>5 DEF Fitting
  <2>7. LimitInv(q)
    BY <2>2, <2>3, <2>4, <2>6 DEF LimitInv, Before, Ended
  <2> QED BY <1>0, <2>1, <2>7
<1>10. CASE ReadBody(c)
  <2> DEFINE chunk == Decoded(r, Head(r.chunks))
  <2>1. PICK q :
           /\ StepTo(c, q)
           /\ \/ Resolves(q, r, "ok")
              \/ /\ Resolves(q, r, "BODY_TOO_LARGE") /\ r.chunks # <<>>
                 /\ r.spec.api # "rust" /\ exceeds(chunk, r.max, r.got)
              \/ /\ SameCall(q, r) /\ SameRequest(q, r) /\ SameOutcome(q, r)
                 /\ q.phase = "reading" /\ r.chunks # <<>>
                 /\ r.spec.api = "rust" \/ ~exceeds(chunk, r.max, r.got)
                 /\ q.response = r.response
                 /\ q.chunks = Tail(r.chunks) /\ q.got = r.got + chunk
    BY <1>10, ReadBodyStep
  <2>2. r.phase = "reading" /\ r.max \in Nat /\ r.result = None
    BY <1>10 DEF ReadBody, LimitInv, Ended
  <2>3. CASE Resolves(q, r, "ok")
    BY <1>0, <2>1, <2>3, LimitResolves
  <2>4. CASE /\ Resolves(q, r, "BODY_TOO_LARGE") /\ r.chunks # <<>>
             /\ r.spec.api # "rust" /\ exceeds(chunk, r.max, r.got)
    <3>1. /\ SameCall(q, r) /\ SameAnswer(q, r) /\ q.builder = r.builder /\ q.phase = "resolved"
          /\ q.spec = r.spec /\ q.response = r.response /\ q.max = r.max
      BY <2>4 DEF Resolves, SameRequest, SameCall, SameAnswer
    <3>2. r.response # None => Fitting(r)
      BY <2>4 DEF LimitInv
    <3>3. r.response # None => Total(r) > r.max
      BY <2>2, <2>4, <3>2, ChunkRefused
    <3>4. r.response # None => Fitting(q) /\ Total(q) > q.max
      BY <3>1, <3>2, <3>3, FittingSame
    <3>5. LimitInv(q)
      BY <2>2, <3>1, <3>4 DEF LimitInv, Before, Ended
    <3> QED BY <1>0, <2>1, <3>5
  <2>5. CASE /\ SameCall(q, r) /\ SameRequest(q, r) /\ SameOutcome(q, r)
             /\ q.phase = "reading" /\ r.chunks # <<>>
             /\ r.spec.api = "rust" \/ ~exceeds(chunk, r.max, r.got)
             /\ q.response = r.response
             /\ q.chunks = Tail(r.chunks) /\ q.got = r.got + chunk
    <3>1. q.spec = r.spec /\ q.max = r.max /\ q.result = r.result /\ q.builder = r.builder
      BY <2>5 DEF SameCall, SameOutcome, SameRequest
    <3>2. q.spec.api # "rust" /\ q.response # None => Fitting(q)
      <4>1. SUFFICES ASSUME q.spec.api # "rust", q.response # None PROVE Fitting(q)
        OBVIOUS
      <4>2. Fitting(r) /\ ~exceeds(chunk, r.max, r.got)
        BY <2>5, <3>1, <4>1 DEF LimitInv
      <4> QED BY <2>2, <2>5, <3>1, <4>2, ChunkRead
    <3>3. q.result # "BODY_TOO_LARGE"
      BY <2>2, <3>1, NoneIsNoCode
    <3>4. LimitInv(q)
      BY <2>2, <2>5, <3>1, <3>2, <3>3 DEF LimitInv, Before, Ended
    <3> QED BY <1>0, <2>1, <3>4
  <2> QED BY <2>1, <2>3, <2>4, <2>5
<1>11. ASSUME NEW e \in EngineErrors, Fail(c, e) PROVE LimitInv(call'[c])
  <2>1. PICK q : StepTo(c, q) /\ \E code \in Codes : Resolves(q, r, code)
    BY <1>11, FailStep
  <2> QED BY <1>0, <1>codes, <2>1, LimitResolves
<1>12. CASE Continue(c)
  <2>1. PICK q : /\ StepTo(c, q)
                 /\ SameCall(q, r) /\ SameAnswer(q, r) /\ SameRequest(q, r)
                 /\ q.phase \in {"settled", "handed"}
                 /\ q.result = r.result \/ q.result = "CANCELLED"
    BY <1>12, ContinueStep DEF SameOutcome, Settles
  <2>2. q.builder = r.builder
    BY <2>1 DEF SameRequest
  <2>3. LimitInv(q)
    BY <2>1, <2>2, LimitStill DEF Before, Ended
  <2> QED BY <1>0, <2>1, <2>3
<1>13. CASE Abort(c)
  <2>1. PICK q : /\ StepTo(c, q)
                 /\ SameCall(q, r) /\ SameAnswer(q, r) /\ SameRequest(q, r)
                 /\ q.phase = r.phase /\ q.result = r.result
    BY <1>13, AbortStep
  <2>2. q.builder = r.builder
    BY <2>1 DEF SameRequest
  <2>3. LimitInv(q)
    BY <2>1, <2>2, LimitStill DEF LimitInv
  <2> QED BY <1>0, <2>1, <2>3
<1>14. CASE CancelTask(c)
  <2>1. PICK q : StepTo(c, q) /\ Settles(q, r, "CancelledError")
    BY <1>14, CancelTaskStep
  <2>2. /\ SameCall(q, r) /\ SameAnswer(q, r) /\ q.builder = r.builder
        /\ q.phase = "settled" /\ q.result = "CancelledError"
    BY <2>1 DEF Settles, SameRequest
  <2>3. LimitInv(q)
    BY <2>2, LimitStill DEF Before, Ended
  <2> QED BY <1>0, <2>1, <2>3
<1>15. CASE HandleSteps(c)
  <2>1. PICK q : /\ StepTo(c, q)
                 /\ SameCall(q, r) /\ SameAnswer(q, r) /\ SameRequest(q, r)
                 /\ q.phase = "handed" /\ q.result = r.result
    BY <1>15, HandleStep
  <2>2. q.builder = r.builder
    BY <2>1 DEF SameRequest
  <2>3. LimitInv(q)
    BY <2>1, <2>2, LimitStill DEF Before, Ended
  <2> QED BY <1>0, <2>1, <2>3
<1> QED
  BY <1>1, <1>2, <1>3, <1>4, <1>5, <1>6, <1>7, <1>8, <1>9, <1>10, <1>11, <1>12, <1>13, <1>14,
     <1>15 DEF Steps

-----------------------------------------------------------------------------
(* HandshakeProven.                                                        *)

Key == "sec-websocket-key"

\* A request for a socket: over HTTP/2, or with the nonce of its call.
Keyed(c, request) ==
    \/ Option(request, "version") = "HTTP/2"
    \/ Key \in Names(request.headers) /\ Values(request.headers, Key) = <<c>>

LEMMA OtherHeader ==
  ASSUME NEW h, IsHeaderMap(h), Key \in Names(h), NEW n, n # Key, NEW v
  PROVE  LET g == insert(h, n, v)
         IN  IsHeaderMap(g) /\ Key \in Names(g) /\ Values(g, Key) = Values(h, Key)
<1>1. ValuesSet(insert(h, n, v), h, n, <<v>>)
  BY InsertMap
<1> QED BY <1>1 DEF ValuesSet

\* WebSocketRequestBuilder::send
LEMMA SocketSend ==
  ASSUME NEW b, IsBuilder(b), NEW protocols, NEW c, ws_send(b, protocols, c).error = None
  PROVE  LET r == ws_send(b, protocols, c).request
         IN  IsRequest(r) /\ Keyed(c, r)
<1> DEFINE r0 == b.request
           v == Option(r0, "version")
           h1 == insert(r0.headers, "sec-websocket-version", "13")
           common == [r0 EXCEPT !.uri.scheme = http_scheme(r0.uri.scheme), !.headers = h1]
           h2 == insert(h1, "upgrade", "websocket")
           h3 == insert(h2, "connection", "upgrade")
           h4 == insert(h3, Key, c)
           http1 == [common EXCEPT !.method = "GET", !.headers =
                         insert(insert(insert(common.headers, "upgrade", "websocket"),
                                       "connection", "upgrade"), Key, c),
                         !.options = With(common.options, "version", "HTTP/1.1")]
           http2 == [common EXCEPT !.method = "CONNECT"]
           Offered(r) == IF protocols = <<>> THEN r
                         ELSE [r EXCEPT !.headers =
                                   insert(r.headers, "sec-websocket-protocol", protocols)]
           g == ws_send(b, protocols, c)
<1>0. SUFFICES IsRequest(g.request) /\ Keyed(c, g.request)
  OBVIOUS
<1>1. b.error = None /\ IsRequest(r0)
  <2>1. b.error # None => g = b
    BY DEF ws_send
  <2> QED BY <2>1 DEF IsBuilder
<1>2. \/ v \in HTTP1 /\ g = [b EXCEPT !.request = Offered(http1)]
      \/ v = "HTTP/2" /\ g = [b EXCEPT !.request = Offered(http2)]
      \/ g = Err(b, Error("Upgrade", {}))
  BY <1>1 DEF ws_send, OnOk, Key
<1>3. g # Err(b, Error("Upgrade", {}))
  <2>1. Err(b, Error("Upgrade", {})).error = Error("Upgrade", {})
    BY DEF Err, IsBuilder
  <2> QED BY <2>1, NoneIsNoError
<1>4. IsHeaderMap(h1)
  BY <1>1, InsertMap DEF IsRequest
<1>5. /\ DOMAIN common = {"method", "uri", "headers", "body", "options"}
      /\ common.headers = h1 /\ common.options = r0.options
  BY <1>1 DEF IsRequest
<1>6. IsHeaderMap(h4) /\ Key \in Names(h4) /\ Values(h4, Key) = <<c>>
  <2>1. IsHeaderMap(h3)
    <3> HIDE DEF h1
    <3> QED BY <1>4, InsertMap
  <2> HIDE DEF h3
  <2>2. ValuesSet(h4, h3, Key, <<c>>)
    BY <2>1, InsertMap
  <2> QED BY <2>2 DEF ValuesSet
<1>7. /\ DOMAIN http1 = {"method", "uri", "headers", "body", "options"}
      /\ http1.headers = h4
  <2> HIDE DEF common, h1
  <2> QED BY <1>5
<1>8. /\ DOMAIN http2 = {"method", "uri", "headers", "body", "options"}
      /\ http2.headers = h1 /\ http2.options = r0.options
  <2> HIDE DEF common, h1
  <2> QED BY <1>5
<1> HIDE DEF http1, http2, h1, h4, g
<1>9. \A r : /\ DOMAIN r = {"method", "uri", "headers", "body", "options"}
             => LET o == Offered(r)
                IN  /\ DOMAIN o = {"method", "uri", "headers", "body", "options"}
                    /\ o.options = r.options
                    /\ \/ o.headers = r.headers
                       \/ o.headers = insert(r.headers, "sec-websocket-protocol", protocols)
  OBVIOUS
<1> HIDE DEF Offered
<1>10. CASE v \in HTTP1 /\ g = [b EXCEPT !.request = Offered(http1)]
  <2>1. g.request = Offered(http1)
    BY <1>10 DEF IsBuilder
  <2>2. /\ IsHeaderMap(Offered(http1).headers)
        /\ Key \in Names(Offered(http1).headers)
        /\ Values(Offered(http1).headers, Key) = <<c>>
    <3>1. "sec-websocket-protocol" # Key
      BY DEF Key
    <3> QED BY <1>6, <1>7, <1>9, <3>1, OtherHeader
  <2> QED BY <1>7, <1>9, <2>1, <2>2 DEF IsRequest, Keyed
<1>11. CASE v = "HTTP/2" /\ g = [b EXCEPT !.request = Offered(http2)]
  <2>1. g.request = Offered(http2)
    BY <1>11 DEF IsBuilder
  <2>2. Option(Offered(http2), "version") = "HTTP/2"
    <3>1. Offered(http2).options = r0.options
      BY <1>8, <1>9
    <3> QED BY <3>1, <1>11 DEF Option
  <2>3. IsHeaderMap(Offered(http2).headers)
    <3>1. \/ Offered(http2).headers = h1
          \/ Offered(http2).headers = insert(h1, "sec-websocket-protocol", protocols)
      BY <1>8, <1>9
    <3> QED BY <1>4, <3>1, InsertMap
  <2> QED BY <1>8, <1>9, <2>1, <2>2, <2>3 DEF IsRequest, Keyed
<1> QED BY <1>2, <1>3, <1>10, <1>11

\* ConfigService: the client's defaults do not displace the nonce.
LEMMA ConfigKeeps ==
  ASSUME NEW config, IsHeaderMap(config.headers), NEW r, IsRequest(r), NEW c, Keyed(c, r)
  PROVE  Keyed(c, config_call(config, r))
<1> DEFINE merged == IF Option(r, "default_headers") = FALSE THEN r.headers
                     ELSE replace_headers(config.headers, r.headers)
           orig == IF Option(r, "orig_headers") = None THEN config.orig_headers
                   ELSE Option(r, "orig_headers")
           q == [r EXCEPT !.headers = merged, !.options = With(r.options, "orig_headers", orig)]
<1>1. config_call(config, r) = q
  BY DEF config_call
<1> HIDE DEF merged, orig
<1>2. q.headers = merged /\ q.options = With(r.options, "orig_headers", orig)
  BY DEF IsRequest
<1>3. Option(q, "version") = Option(r, "version")
  <2> HIDE DEF q
  <2> QED BY <1>2 DEF Option, With
<1>4. ASSUME Key \in Names(r.headers)
      PROVE  Key \in Names(merged) /\ Values(merged, Key) = Values(r.headers, Key)
  <2>1. merged = r.headers \/ merged = replace_headers(config.headers, r.headers)
    BY DEF merged
  <2> QED BY <1>4, <2>1, Replaced DEF IsRequest
<1> HIDE DEF q
<1> QED BY <1>1, <1>2, <1>3, <1>4 DEF Keyed


\* The answer to the handshake of call c.
Proven(c, r) ==
    LET a == r.response
    IN  /\ \/ a.status = 101 /\ a.accept = c
           \/ a.version = "HTTP/2" /\ r.builder.request.method = "CONNECT" /\ a.status = 200
        /\ IF r.spec.protocols = <<>> THEN a.protocol = None
           ELSE \E i \in DOMAIN r.spec.protocols : r.spec.protocols[i] = a.protocol

\* The request of a socket carries the nonce of its call until it is answered,
\* and nothing is handed out before.
HandshakeInv(c, r) ==
    /\ IsHeaderMap(r.config.headers) /\ IsList(r.spec.headers)
    /\ r.phase \in Before \cup {"reading"} => r.handle = "none"
    /\ r.spec.kind = "ws" =>
         /\ r.phase # "files"
         /\ r.phase = "building" => IsBuilder(r.builder)
         /\ r.phase \in {"sending", "head"} => Keyed(c, r.builder.request)
         /\ r.handle # "none" => Proven(c, r)

\* A step that opens no handle and leaves the request alone.
LEMMA HandshakeStill ==
  ASSUME NEW c, NEW r, NEW q, HandshakeInv(c, r),
         SameCall(q, r), SameAnswer(q, r), q.builder = r.builder,
         q.handle = r.handle \/ r.handle # "none",
         q.phase \in Ended \/ q.phase = r.phase \/ (q.phase = "head" /\ r.phase = "sending")
  PROVE  HandshakeInv(c, q)
<1>1. q.spec = r.spec /\ q.config = r.config /\ q.response = r.response
  BY DEF SameCall, SameAnswer
<1>2. q.phase \in Before \cup {"reading"} => r.phase \in Before \cup {"reading"}
  BY DEF Before, Ended
<1>3. q.phase \in {"files", "building"} => r.phase = q.phase
  BY DEF Ended
<1>4. q.phase \in {"sending", "head"} => r.phase \in {"sending", "head"}
  BY DEF Ended
<1>5. r.spec.kind = "ws" /\ q.handle # "none" => Proven(c, q)
  BY <1>1 DEF HandshakeInv, Proven
<1>6. q.phase \in Before \cup {"reading"} => q.handle = "none"
  BY <1>2 DEF HandshakeInv
<1> QED BY <1>1, <1>3, <1>4, <1>5, <1>6 DEF HandshakeInv

LEMMA HandshakeEnds ==
  ASSUME NEW c, NEW r, NEW q, HandshakeInv(c, r),
         \/ \E code : Resolves(q, r, code)
         \/ \E code : Settles(q, r, code) /\ (q.handle = r.handle \/ r.handle # "none")
  PROVE  HandshakeInv(c, q)
<1>1. /\ SameCall(q, r) /\ SameAnswer(q, r) /\ q.builder = r.builder /\ q.phase \in Ended
      /\ q.handle = r.handle \/ r.handle # "none"
  BY DEF Resolves, Settles, SameRequest, Ended
<1> QED BY <1>1, HandshakeStill

\* The exchange of a socket starts.
LEMMA HandshakeSent ==
  ASSUME NEW c, NEW r, NEW q, NEW b, HandshakeInv(c, r), r.phase \in Before, Sends(q, r, b),
         r.spec.kind = "ws" => IsRequest(b.request) /\ Keyed(c, b.request)
  PROVE  HandshakeInv(c, q)
<1>1. /\ q.spec = r.spec /\ q.config = r.config /\ q.handle = r.handle /\ q.phase = "sending"
  BY DEF Sends, Works, SameCall, SameOutcome
<1>2. q.builder.request = config_call(r.config, b.request)
  BY DEF Sends, Ok
<1>3. r.handle = "none" /\ IsHeaderMap(r.config.headers) /\ IsList(r.spec.headers)
  BY DEF HandshakeInv
<1>4. r.spec.kind = "ws" => Keyed(c, q.builder.request)
  BY <1>2, <1>3, ConfigKeeps
<1> QED BY <1>1, <1>3, <1>4 DEF HandshakeInv

LEMMA HandshakeAnswered ==
  ASSUME NEW c, NEW r, NEW q, NEW a, HandshakeInv(c, r), r.phase = "head",
         a.version \in Spoken(r), Answered(q, r, a)
  PROVE  HandshakeInv(c, q)
<1>1. /\ q.spec = r.spec /\ q.config = r.config /\ q.builder = r.builder /\ q.response = a
      /\ q.phase \in {"resolved", "reading"}
      /\ \/ q.handle = r.handle
         \/ /\ q.phase = "resolved"
            /\ r.spec.kind = "ws" => into_websocket(r.builder.request, r.spec.protocols, a)
  BY DEF Answered, SameCall, SameRequest, SameOutcome
<1>2. r.handle = "none" /\ IsHeaderMap(r.config.headers) /\ IsList(r.spec.headers)
  BY DEF HandshakeInv, Before
<1>3. ASSUME r.spec.kind = "ws", q.handle # "none" PROVE Proven(c, q)
  <2> DEFINE request == r.builder.request
  <2>1. into_websocket(request, r.spec.protocols, a)
    BY <1>1, <1>2, <1>3
  <2>2. Keyed(c, request)
    BY <1>3 DEF HandshakeInv
  <2>3. a.version \in HTTP1 => a.status = 101 /\ a.accept = accept_key(request)
    BY <2>1 DEF into_websocket
  <2>4. a.version \notin HTTP1 =>
          a.version = "HTTP/2" /\ a.status = 200 /\ request.method = "CONNECT"
    BY <2>1 DEF into_websocket, upgradable
  <2>5. protocol_agreed(r.spec.protocols, a.protocol)
    BY <2>1 DEF into_websocket
  <2>6. a.version \in HTTP1 => accept_key(request) = c
    <3>1. Option(request, "version") = "HTTP/2" => a.version = "HTTP/2"
      BY DEF Spoken
    <3>2. Key \in Names(request.headers) /\ Values(request.headers, Key) = <<c>>
            => accept_key(request) = c
      BY DEF accept_key, Key
    <3>3. "HTTP/2" \notin HTTP1
      BY DEF HTTP1
    <3> QED BY <2>2, <3>1, <3>2, <3>3 DEF Keyed
  <2>7. IF r.spec.protocols = <<>> THEN a.protocol = None
        ELSE \E i \in DOMAIN r.spec.protocols : r.spec.protocols[i] = a.protocol
    BY <2>5 DEF protocol_agreed, Range
  <2> QED BY <1>1, <2>3, <2>4, <2>6, <2>7 DEF Proven
<1> QED BY <1>1, <1>2, <1>3 DEF HandshakeInv, Before


\* Client::websocket offers the nonce of its call.
LEMMA SocketKeyed ==
  ASSUME NEW c, NEW s, IsList(s.headers), SocketOf(c, s).error = None
  PROVE  IsRequest(SocketOf(c, s).request) /\ Keyed(c, SocketOf(c, s).request)
<1> DEFINE timed == WithTimeout(NewBuilder("GET", s.uri), s.timeout)
           lines == AddHeaders(timed, s.headers)
           b == ws_new(lines)
<1>1. IsBuilder(timed)
  BY BuilderNew, OptionSet DEF WithTimeout, timeout
<1> HIDE DEF timed
<1>2. IsBuilder(lines)
  BY <1>1, HeadersAdded
<1> HIDE DEF lines
<1>3. IsBuilder(b)
  BY <1>2, OptionSet DEF ws_new, version
<1>4. SocketOf(c, s) = ws_send(b, s.protocols, c)
  BY DEF SocketOf, timed, lines
<1> HIDE DEF b
<1> QED BY <1>3, <1>4, SocketSend

LEMMA HandshakeKept ==
  ASSUME NEW c \in Calls, DOMAIN call = Calls, DOMAIN call[c] = Fields, Steps(c),
         HandshakeInv(c, call[c])
  PROVE  HandshakeInv(c, call'[c])
<1> DEFINE r == call[c]
<1>0. \A q : StepTo(c, q) => call'[c] = q
  BY DEF StepTo
<1>1. ASSUME NEW i \in DOMAIN BuilderOps, Build(c, BuilderOps[i])
      PROVE  HandshakeInv(c, call'[c])
  <2>1. PICK q : /\ StepTo(c, q) /\ Works(q, r) /\ q.phase = "building"
                 /\ q.builder = Applied(r.builder, BuilderOps[i])
    BY <1>1, BuildStep
  <2>2. r.phase = "building"
    BY <1>1 DEF Build
  <2>3. q.spec = r.spec /\ q.config = r.config /\ q.handle = r.handle
    BY <2>1 DEF Works, SameCall, SameOutcome
  <2>4. r.handle = "none"
    BY <2>2 DEF HandshakeInv, Before
  <2>5. r.spec.kind = "ws" => IsBuilder(q.builder)
    BY <2>1, <2>2, BuilderApplied DEF HandshakeInv
  <2>6. HandshakeInv(c, q)
    BY <2>1, <2>3, <2>4, <2>5 DEF HandshakeInv
  <2> QED BY <1>0, <2>1, <2>6
<1>2. CASE RustSend(c)
  <2>1. PICK q, builder : /\ StepTo(c, q) /\ r.phase = "building"
                          /\ r.spec.kind = "ws" =>
                               builder = ws_send(r.builder, r.spec.protocols, c)
                          /\ \/ \E code \in Codes : Resolves(q, r, code)
                             \/ Sends(q, r, builder)
    BY <1>2, RustSendStep
  <2>2. CASE \E code \in Codes : Resolves(q, r, code)
    BY <1>0, <2>1, <2>2, HandshakeEnds
  <2>3. CASE Sends(q, r, builder)
    <3>1. builder.error = None /\ r.phase \in Before
      BY <2>1, <2>3 DEF Sends, Before
    <3>2. r.spec.kind = "ws" => IsRequest(builder.request) /\ Keyed(c, builder.request)
      BY <2>1, <3>1, SocketSend DEF HandshakeInv
    <3>3. HandshakeInv(c, q)
      BY <2>3, <3>1, <3>2, HandshakeSent
    <3> QED BY <1>0, <2>1, <3>3
  <2> QED BY <2>1, <2>2, <2>3
<1>3. CASE Poll(c) \/ Park(c)
  <2>1. PICK q : /\ StepTo(c, q)
                 /\ SameCall(q, r) /\ SameAnswer(q, r) /\ SameRequest(q, r) /\ SameOutcome(q, r)
                 /\ q.phase = r.phase
    BY <1>3, PollStep
  <2>2. q.builder = r.builder /\ q.handle = r.handle
    BY <2>1 DEF SameRequest, SameOutcome
  <2> QED BY <1>0, <2>1, <2>2, HandshakeStill
<1>4. CASE Cancelled(c)
  <2>1. PICK q : StepTo(c, q) /\ Resolves(q, r, "CANCELLED")
    BY <1>4, CancelledStep
  <2> QED BY <1>0, <2>1, HandshakeEnds
<1>5. CASE Start(c)
  <2>1. PICK q : /\ StepTo(c, q) /\ r.phase = "start"
                 /\ \/ \E code \in Codes : Resolves(q, r, code)
                    \/ r.spec.kind = "ws" /\ Sends(q, r, SocketOf(c, r.spec))
                    \/ r.spec.kind # "ws" /\ Works(q, r) /\ q.phase = "files"
    BY <1>5, StartStep
  <2>2. CASE \E code \in Codes : Resolves(q, r, code)
    BY <1>0, <2>1, <2>2, HandshakeEnds
  <2>3. CASE r.spec.kind = "ws" /\ Sends(q, r, SocketOf(c, r.spec))
    <3>1. SocketOf(c, r.spec).error = None /\ r.phase \in Before /\ IsList(r.spec.headers)
      BY <2>1, <2>3 DEF Sends, Before, HandshakeInv
    <3>2. IsRequest(SocketOf(c, r.spec).request) /\ Keyed(c, SocketOf(c, r.spec).request)
      BY <3>1, SocketKeyed
    <3>3. HandshakeInv(c, q)
      BY <2>3, <3>1, <3>2, HandshakeSent
    <3> QED BY <1>0, <2>1, <3>3
  <2>4. CASE r.spec.kind # "ws" /\ Works(q, r) /\ q.phase = "files"
    <3>1. q.spec = r.spec /\ q.config = r.config /\ q.handle = r.handle
      BY <2>4 DEF Works, SameCall, SameOutcome
    <3>2. r.handle = "none"
      BY <2>1 DEF HandshakeInv, Before
    <3>3. HandshakeInv(c, q)
      BY <2>4, <3>1, <3>2 DEF HandshakeInv
    <3> QED BY <1>0, <2>1, <3>3
  <2> QED BY <2>1, <2>2, <2>3, <2>4
<1>6. CASE AddPart(c)
  <2>1. PICK q : /\ StepTo(c, q) /\ r.phase = "files"
                 /\ \/ \E code \in Codes : Resolves(q, r, code)
                    \/ Works(q, r) /\ q.phase = "files" /\ q.builder = r.builder
    BY <1>6, AddPartStep
  <2>2. CASE \E code \in Codes : Resolves(q, r, code)
    BY <1>0, <2>1, <2>2, HandshakeEnds
  <2>3. CASE Works(q, r) /\ q.phase = "files" /\ q.builder = r.builder
    <3>1. SameCall(q, r) /\ SameAnswer(q, r) /\ q.handle = r.handle
      BY <2>3 DEF Works, SameOutcome
    <3> QED BY <1>0, <2>1, <2>3, <3>1, HandshakeStill
  <2> QED BY <2>1, <2>2, <2>3
<1>7. CASE Send(c)
  <2>1. PICK q : /\ StepTo(c, q) /\ r.phase = "files"
                 /\ \/ \E code \in Codes : Resolves(q, r, code)
                    \/ Sends(q, r, Attached(r))
    BY <1>7, SendStep
  <2>2. r.phase \in Before /\ r.spec.kind # "ws"
    BY <2>1 DEF Before, HandshakeInv
  <2> QED BY <1>0, <2>1, <2>2, HandshakeEnds, HandshakeSent
<1>8. CASE WriteBody(c) \/ EndBody(c)
  <2>1. PICK q : /\ StepTo(c, q) /\ r.phase = "sending"
                 /\ \/ \E code \in Codes : Resolves(q, r, code)
                    \/ Works(q, r) /\ q.phase \in {"sending", "head"} /\ q.builder = r.builder
    <3>1. CASE WriteBody(c)
      <4>1. PICK q : /\ StepTo(c, q) /\ r.phase = "sending" /\ Works(q, r)
                     /\ q.phase = "sending" /\ q.builder = r.builder
        BY <3>1, WriteBodyStep
      <4> QED BY <4>1
    <3>2. CASE EndBody(c)
      BY <3>2, EndBodyStep DEF SameRequest
    <3> QED BY <1>8, <3>1, <3>2
  <2>2. CASE \E code \in Codes : Resolves(q, r, code)
    BY <1>0, <2>1, <2>2, HandshakeEnds
  <2>3. CASE Works(q, r) /\ q.phase \in {"sending", "head"} /\ q.builder = r.builder
    <3>1. SameCall(q, r) /\ SameAnswer(q, r) /\ q.handle = r.handle
      BY <2>3 DEF Works, SameOutcome
    <3> QED BY <1>0, <2>1, <2>3, <3>1, HandshakeStill
  <2> QED BY <2>1, <2>2, <2>3
<1>9. ASSUME NEW a \in Answers, Answer(c, a) PROVE HandshakeInv(c, call'[c])
  <2>1. PICK q : StepTo(c, q) /\ r.phase = "head" /\ a.version \in Spoken(r) /\ Answered(q, r, a)
    BY <1>9, AnswerStep
  <2> QED BY <1>0, <2>1, HandshakeAnswered
<1>10. CASE ReadBody(c)
  <2>1. PICK q : /\ StepTo(c, q) /\ r.phase = "reading"
                 /\ \/ \E code : Resolves(q, r, code)
                    \/ SameCall(q, r) /\ SameOutcome(q, r) /\ q.phase = "reading"
    BY <1>10, ReadBodyStep
  <2>2. CASE \E code : Resolves(q, r, code)
    BY <1>0, <2>1, <2>2, HandshakeEnds
  <2>3. CASE SameCall(q, r) /\ SameOutcome(q, r) /\ q.phase = "reading"
    <3>1. q.spec = r.spec /\ q.config = r.config /\ q.handle = r.handle
      BY <2>3 DEF SameCall, SameOutcome
    <3>2. r.handle = "none"
      BY <2>1 DEF HandshakeInv
    <3>3. HandshakeInv(c, q)
      BY <2>3, <3>1, <3>2 DEF HandshakeInv
    <3> QED BY <1>0, <2>1, <3>3
  <2> QED BY <2>1, <2>2, <2>3
<1>11. ASSUME NEW e \in EngineErrors, Fail(c, e) PROVE HandshakeInv(c, call'[c])
  <2>1. PICK q : StepTo(c, q) /\ \E code \in Codes : Resolves(q, r, code)
    BY <1>11, FailStep
  <2> QED BY <1>0, <2>1, HandshakeEnds
<1>12. CASE Continue(c)
  <2>1. PICK q : /\ StepTo(c, q)
                 /\ SameCall(q, r) /\ SameAnswer(q, r) /\ SameRequest(q, r)
                 /\ q.phase \in {"settled", "handed"}
                 /\ q.handle = r.handle \/ r.handle # "none"
    BY <1>12, ContinueStep DEF SameOutcome, Settles
  <2>2. q.builder = r.builder /\ q.phase \in Ended
    BY <2>1 DEF SameRequest, Ended
  <2> QED BY <1>0, <2>1, <2>2, HandshakeStill
<1>13. CASE Abort(c)
  <2>1. PICK q : /\ StepTo(c, q)
                 /\ SameCall(q, r) /\ SameAnswer(q, r) /\ SameRequest(q, r)
                 /\ q.phase = r.phase /\ (q.handle = r.handle \/ r.handle # "none")
    BY <1>13, AbortStep
  <2>2. q.builder = r.builder
    BY <2>1 DEF SameRequest
  <2> QED BY <1>0, <2>1, <2>2, HandshakeStill
<1>14. CASE CancelTask(c)
  <2>1. PICK q : /\ StepTo(c, q) /\ Settles(q, r, "CancelledError")
                 /\ q.handle = r.handle \/ r.handle # "none"
    BY <1>14, CancelTaskStep
  <2> QED BY <1>0, <2>1, HandshakeEnds
<1>15. CASE HandleSteps(c)
  <2>1. PICK q : /\ StepTo(c, q) /\ r.handle # "none"
                 /\ SameCall(q, r) /\ SameAnswer(q, r) /\ SameRequest(q, r)
                 /\ q.phase = "handed"
    BY <1>15, HandleStep
  <2>2. q.builder = r.builder /\ q.phase \in Ended
    BY <2>1 DEF SameRequest, Ended
  <2> QED BY <1>0, <2>1, <2>2, HandshakeStill
<1> QED
  BY <1>1, <1>2, <1>3, <1>4, <1>5, <1>6, <1>7, <1>8, <1>9, <1>10, <1>11, <1>12, <1>13, <1>14,
     <1>15 DEF Steps


-----------------------------------------------------------------------------
(* Clients.                                                                *)

IsConfig(k) ==
    /\ DOMAIN k = {"error", "headers", "orig_headers", "accept_encoding", "timeout",
                   "http_version_pref", "cookie_store", "redirect", "auto_sys_proxy", "tls",
                   "http2"}
    /\ IsHeaderMap(k.headers) /\ CL \notin Names(k.headers)

LEMMA HttpOnly ==
  ASSUME NEW k, IsConfig(k), NEW v
  PROVE  IsConfig(http_only(k, v))
<1> DEFINE p == CASE v = "1.1" -> "Http1" [] v = "2" -> "Http2" [] OTHER -> k.http_version_pref
<1>1. http_only(k, v) = [k EXCEPT !.http_version_pref = p]
  BY Zenon DEF http_only
<1> HIDE DEF p
<1> QED BY <1>1 DEF IsConfig

LEMMA UserAgent ==
  ASSUME NEW k, IsConfig(k), NEW agent
  PROVE  IsConfig(client_user_agent(k, agent))
<1> DEFINE h == insert(k.headers, "user-agent", agent)
           e == Error("Builder", {})
<1>1. IsHeaderMap(h) /\ CL \notin Names(h)
  <2>1. IsHeaderMap(k.headers) /\ CL \notin Names(k.headers)
    BY DEF IsConfig
  <2>2. ValuesSet(h, k.headers, "user-agent", <<agent>>)
    BY <2>1, InsertMap
  <2> QED BY <2>1, <2>2 DEF ValuesSet, CL
<1>2. \/ client_user_agent(k, agent) = [k EXCEPT !.error = e]
      \/ client_user_agent(k, agent) = [k EXCEPT !.headers = h]
  BY DEF client_user_agent
<1> HIDE DEF h, e
<1> QED BY <1>1, <1>2 DEF IsConfig

\* Client::with_options: the default headers of a client are a header map.
LEMMA OptionsMap ==
  ASSUME NEW t, NEW o,
         o.profile # None => /\ IsHeaderMap(o.profile.headers)
                             /\ CL \notin Names(o.profile.headers)
  PROVE  IsConfig(with_options(t, o))
<1> DEFINE profiled == IF o.profile = None THEN DefaultConfig
                       ELSE client_emulation(DefaultConfig, o.profile)
           random == IF o.random_tls THEN [profiled EXCEPT !.tls = random_tls_options]
                     ELSE profiled
           plain == IF o.decompress = FALSE THEN no_decompression(random) ELSE random
           cookies == o.cookies # FALSE
           redirects == IF o.max_redirects = 0 THEN "none" ELSE o.max_redirects
           based == [plain EXCEPT !.auto_sys_proxy = FALSE, !.timeout = t,
                                  !.cookie_store = cookies, !.redirect = redirects]
           named == IF o.user_agent = None THEN based ELSE client_user_agent(based, o.user_agent)
           versioned == http_only(named, o.http_version)
           tls == IF o.tls = None THEN versioned
                  ELSE [versioned EXCEPT !.tls = tls_apply(o.tls, versioned.tls)]
           last == IF o.http2 = None THEN tls
                   ELSE [tls EXCEPT !.http2 = http2_apply(o.http2, tls.http2)]
<1>1. with_options(t, o) = last
  BY DEF with_options
<1>2. IsConfig(DefaultConfig)
  <2>1. CL \notin Names(<<>>)
    BY DEF Names
  <2> QED BY <2>1, EmptyMap DEF IsConfig, DefaultConfig
<1>3. IsConfig(profiled)
  <2> DEFINE e == o.profile
             h == replace_headers(DefaultConfig.headers, e.headers)
             g == DefaultConfig.orig_headers \o e.orig
  <2>1. client_emulation(DefaultConfig, e) =
          [DefaultConfig EXCEPT !.tls = e.tls, !.http2 = e.http2, !.headers = h,
                                !.orig_headers = g]
    BY DEF client_emulation
  <2>2. e # None => IsHeaderMap(h) /\ CL \notin Names(h)
    BY <1>2, Replaced DEF IsConfig
  <2> HIDE DEF h, g
  <2>3. e # None => IsConfig(client_emulation(DefaultConfig, e))
    BY <1>2, <2>1, <2>2 DEF IsConfig
  <2> QED BY <1>2, <2>3
<1> HIDE DEF profiled
<1>4. IsConfig(random)
  BY <1>3 DEF IsConfig
<1> HIDE DEF random
<1>5. IsConfig(plain)
  BY <1>4 DEF IsConfig, no_decompression
<1> HIDE DEF plain, cookies, redirects
<1>6. IsConfig(based)
  BY <1>5 DEF IsConfig
<1> HIDE DEF based
<1>7. IsConfig(named)
  BY <1>6, UserAgent
<1> HIDE DEF named
<1>8. IsConfig(versioned)
  BY <1>7, HttpOnly
<1> HIDE DEF versioned
<1>9. IsConfig(tls)
  BY <1>8 DEF IsConfig
<1> HIDE DEF tls
<1>10. IsConfig(last)
  BY <1>9 DEF IsConfig
<1> QED BY <1>1, <1>10

\* A client that takes calls has a limit and default headers.
ClientInv ==
    client.state \in {"open", "closed"} =>
        /\ client.max \in Nat
        /\ IsHeaderMap(client.config.headers) /\ CL \notin Names(client.config.headers)

LEMMA ClientMade ==
  ASSUME NEW s \in ClientSpecs, NewClient(s)
  PROVE  ClientInv'
<1> DEFINE k == with_options(s.timeout, s.options)
<1>1. \/ client' = [state |-> "open", config |-> k, max |-> s.max]
      \/ client' = [state |-> "failed", config |-> None, max |-> None]
  BY DEF NewClient
<1>2. IsHeaderMap(k.headers) /\ CL \notin Names(k.headers) /\ s.max \in Nat
  <2>1. s.options.profile # None => /\ IsHeaderMap(s.options.profile.headers)
                                    /\ CL \notin Names(s.options.profile.headers)
    BY HeadersAreMaps, BodiesAreMeasured DEF CL
  <2>2. IsConfig(k)
    BY <2>1, OptionsMap
  <2> HIDE DEF k
  <2> QED BY <2>2, SizesAreNumbers DEF IsConfig
<1> HIDE DEF k
<1> QED BY <1>1, <1>2 DEF ClientInv

LEMMA ClientClosed ==
  ASSUME ClientInv, CloseClient, DOMAIN client = {"state", "config", "max"}
  PROVE  ClientInv'
<1>1. client'.max = client.max /\ client'.config = client.config /\ client.state = "open"
  BY DEF CloseClient
<1> QED BY <1>1 DEF ClientInv

-----------------------------------------------------------------------------
(* The inductive invariant.                                                *)

CallInv(c, r) ==
    IF r.phase = "idle" THEN DOMAIN r = {"phase", "aborted"}
    ELSE /\ DOMAIN r = Fields
         /\ AbortInv(r) /\ LimitInv(r) /\ HandshakeInv(c, r)

Inv ==
    /\ DOMAIN client = {"state", "config", "max"} /\ ClientInv
    /\ DOMAIN call = Calls
    /\ \A c \in Calls : CallInv(c, call[c])

\* A call begins with its limit, its listener and nothing read.
LEMMA CallBegins ==
  ASSUME NEW c \in Calls, NEW s \in Specs, Inv, Call(c, s)
  PROVE  CallInv(c, call'[c])
<1>1. PICK q :
        /\ StepTo(c, q)
        /\ Fresh(q, s)
        /\ q.builder = Ok(None) /\ q.polled = FALSE
        /\ \/ q.phase = "start" /\ q.result = None
           \/ q.phase = "settled" /\ q.result \in Codes \cup {"CLOSED"}
        /\ q.aborted <=> s.signal /\ call[c].aborted
        /\ q.early <=> s.signal /\ call[c].aborted
        /\ q.token <=> s.signal /\ call[c].aborted
        /\ q.phase = "start" => (q.listener <=> s.signal /\ ~call[c].aborted)
  BY CallStep
<1>2. client.max \in Nat /\ IsHeaderMap(client.config.headers)
  BY DEF Call, Inv, ClientInv
<1>3. AbortInv(q)
  <2>1. q.spec = s /\ q.handle = "none" /\ q.builder.request = None
    BY <1>1 DEF Fresh, Ok
  <2>2. Reachable(q) => q.phase = "start"
    BY <1>1 DEF Reachable, Pending
  <2> QED BY <1>1, <2>1, <2>2 DEF AbortInv
<1>4. LimitInv(q)
  BY <1>1, <1>2 DEF Fresh, LimitInv, Before, Ended
<1>5. HandshakeInv(c, q)
  <2>1. q.spec = s /\ q.config = client.config /\ q.handle = "none"
    BY <1>1 DEF Fresh
  <2>2. IsList(s.headers)
    BY HeadersAreMaps
  <2> QED BY <1>1, <1>2, <2>1, <2>2 DEF HandshakeInv
<1>6. call'[c] = q /\ DOMAIN q = Fields /\ q.phase # "idle"
  BY <1>1 DEF StepTo, Fresh, Inv
<1> QED BY <1>3, <1>4, <1>5, <1>6 DEF CallInv

LEMMA CallRustBegins ==
  ASSUME NEW c \in Calls, NEW s \in Specs, Inv, CallRust(c, s)
  PROVE  CallInv(c, call'[c])
<1>1. PICK q :
        /\ StepTo(c, q)
        /\ Fresh(q, s)
        /\ q.phase = "building" /\ q.result = None /\ q.polled = TRUE
        /\ q.aborted = FALSE /\ q.early = FALSE /\ q.token = FALSE
        /\ q.builder = IF s.kind = "ws" THEN ws_new(NewBuilder("POST", s.uri))
                       ELSE NewBuilder("POST", s.uri)
  BY CallRustStep
<1>2. client.max \in Nat /\ IsHeaderMap(client.config.headers)
  BY DEF CallRust, Inv, ClientInv
<1>3. AbortInv(q)
  <2>1. q.spec = s /\ q.handle = "none"
    BY <1>1 DEF Fresh
  <2>2. ~s.signal
    BY SignalsAreNodes DEF CallRust
  <2> QED BY <1>1, <2>1, <2>2 DEF AbortInv
<1>4. LimitInv(q)
  BY <1>1, <1>2 DEF Fresh, LimitInv, Before, Ended
<1>5. HandshakeInv(c, q)
  <2>1. q.spec = s /\ q.config = client.config /\ q.handle = "none"
    BY <1>1 DEF Fresh
  <2>2. IsList(s.headers)
    BY HeadersAreMaps
  <2>3. IsBuilder(q.builder)
    BY <1>1, BuilderNew, OptionSet DEF ws_new, version
  <2> QED BY <1>1, <1>2, <2>1, <2>2, <2>3 DEF HandshakeInv
<1>6. call'[c] = q /\ DOMAIN q = Fields /\ q.phase # "idle"
  BY <1>1 DEF StepTo, Fresh, Inv
<1> QED BY <1>3, <1>4, <1>5, <1>6 DEF CallInv


\* A call that has begun keeps the shape of its record.
LEMMA FieldsKept ==
  ASSUME NEW c \in Calls, DOMAIN call = Calls, DOMAIN call[c] = Fields, Steps(c),
         call[c].phase # "idle"
  PROVE  DOMAIN call'[c] = Fields /\ call'[c].phase # "idle"
<1> DEFINE r == call[c]
           Shaped(q) == DOMAIN q = Fields /\ q.phase # "idle"
<1>0. \A q : StepTo(c, q) => call'[c] = q
  BY DEF StepTo
<1>1. SUFFICES \E q : StepTo(c, q) /\ Shaped(q)
  BY <1>0
<1>2. /\ \A q, code : Resolves(q, r, code) => Shaped(q)
      /\ \A q, b : Sends(q, r, b) => Shaped(q)
      /\ \A q, code : Settles(q, r, code) => Shaped(q)
  BY DEF Resolves, Sends, Works, Settles
<1>3. \A q : Works(q, r) => DOMAIN q = Fields
  BY DEF Works
<1>4. ASSUME NEW i \in DOMAIN BuilderOps, Build(c, BuilderOps[i])
      PROVE  \E q : StepTo(c, q) /\ Shaped(q)
  <2>1. PICK q : StepTo(c, q) /\ Works(q, r) /\ q.phase = "building"
    BY <1>4, BuildStep
  <2> QED BY <1>3, <2>1
<1>5. CASE RustSend(c)
  BY <1>2, <1>5, RustSendStep
<1>6. CASE Poll(c) \/ Park(c)
  <2>1. PICK q : StepTo(c, q) /\ DOMAIN q = Fields /\ q.phase = r.phase
    BY <1>6, PollStep
  <2> QED BY <2>1
<1>7. CASE Cancelled(c)
  BY <1>2, <1>7, CancelledStep
<1>8. CASE Start(c)
  <2>1. PICK q : /\ StepTo(c, q)
                 /\ \/ \E code \in Codes : Resolves(q, r, code)
                    \/ Sends(q, r, SocketOf(c, r.spec))
                    \/ Works(q, r) /\ q.phase = "files"
    BY <1>8, StartStep
  <2> QED BY <1>2, <1>3, <2>1
<1>9. CASE AddPart(c)
  <2>1. PICK q : /\ StepTo(c, q)
                 /\ \/ \E code \in Codes : Resolves(q, r, code)
                    \/ Works(q, r) /\ q.phase = "files"
    BY <1>9, AddPartStep
  <2> QED BY <1>2, <1>3, <2>1
<1>10. CASE Send(c)
  <2>1. PICK q : /\ StepTo(c, q)
                 /\ \/ \E code \in Codes : Resolves(q, r, code)
                    \/ Sends(q, r, Attached(r))
    BY <1>10, SendStep
  <2> QED BY <1>2, <2>1
<1>11. CASE WriteBody(c)
  <2>1. PICK q : StepTo(c, q) /\ Works(q, r) /\ q.phase = "sending"
    BY <1>11, WriteBodyStep
  <2> QED BY <1>3, <2>1
<1>12. CASE EndBody(c)
  <2>1. PICK q : /\ StepTo(c, q)
                 /\ \/ \E code \in Codes : Resolves(q, r, code)
                    \/ Works(q, r) /\ q.phase = "head"
    BY <1>12, EndBodyStep
  <2> QED BY <1>2, <1>3, <2>1
<1>13. ASSUME NEW a \in Answers, Answer(c, a) PROVE \E q : StepTo(c, q) /\ Shaped(q)
  <2>1. PICK q : StepTo(c, q) /\ Answered(q, r, a)
    BY <1>13, AnswerStep
  <2>2. Shaped(q)
    BY <2>1 DEF Answered
  <2> QED BY <2>1, <2>2
<1>14. CASE ReadBody(c)
  <2>1. PICK q : /\ StepTo(c, q)
                 /\ \/ \E code : Resolves(q, r, code)
                    \/ DOMAIN q = Fields /\ q.phase = "reading"
    BY <1>14, ReadBodyStep
  <2> QED BY <1>2, <2>1
<1>15. ASSUME NEW e \in EngineErrors, Fail(c, e) PROVE \E q : StepTo(c, q) /\ Shaped(q)
  BY <1>2, <1>15, FailStep
<1>16. CASE Continue(c)
  <2>1. PICK q : /\ StepTo(c, q)
                 /\ \/ \E code : Settles(q, r, code)
                    \/ DOMAIN q = Fields /\ q.phase = "handed"
    BY <1>16, ContinueStep
  <2> QED BY <1>2, <2>1
<1>17. CASE Abort(c)
  <2>1. PICK q : StepTo(c, q) /\ DOMAIN q = Fields /\ q.phase = r.phase
    BY <1>17, AbortStep
  <2> QED BY <2>1
<1>18. CASE CancelTask(c)
  BY <1>2, <1>18, CancelTaskStep
<1>19. CASE HandleSteps(c)
  <2>1. PICK q : StepTo(c, q) /\ DOMAIN q = Fields /\ q.phase = "handed"
    BY <1>19, HandleStep
  <2> QED BY <2>1
<1> QED
  BY <1>4, <1>5, <1>6, <1>7, <1>8, <1>9, <1>10, <1>11, <1>12, <1>13, <1>14, <1>15, <1>16, <1>17,
     <1>18, <1>19 DEF Steps

\* Before a call only its signal can change.
LEMMA IdleAborts ==
  ASSUME NEW c \in Calls, Inv, Steps(c), call[c].phase = "idle"
  PROVE  DOMAIN call'[c] = {"phase", "aborted"} /\ call'[c].phase = "idle"
<1>1. Abort(c)
  BY DEF Steps, Build, RustSend, Poll, Park, Cancelled, Start, AddPart, Send, WriteBody, EndBody,
         Answer, ReadBody, Fail, Continue, CancelTask, HandleSteps, EndHandle, SendFails,
         CloseSocket, RecvWhileClosing, SocketClosed, Pending
<1>2. call'[c] = [call[c] EXCEPT !.aborted = TRUE]
  BY <1>1 DEF Abort, Inv
<1>3. DOMAIN call[c] = {"phase", "aborted"}
  BY DEF Inv, CallInv
<1> QED BY <1>2, <1>3

LEMMA StepsKeep ==
  ASSUME NEW c \in Calls, Inv, Steps(c)
  PROVE  CallInv(c, call'[c])
<1>1. CASE call[c].phase = "idle"
  BY <1>1, IdleAborts DEF CallInv
<1>2. CASE call[c].phase # "idle"
  <2>1. /\ DOMAIN call = Calls /\ DOMAIN call[c] = Fields
        /\ AbortInv(call[c]) /\ LimitInv(call[c]) /\ HandshakeInv(c, call[c])
    BY <1>2 DEF Inv, CallInv
  <2>2. DOMAIN call'[c] = Fields /\ call'[c].phase # "idle"
    BY <1>2, <2>1, FieldsKept
  <2>3. AbortInv(call'[c])
    BY <1>2, <2>1, AbortKept
  <2>4. LimitInv(call'[c])
    BY <1>2, <2>1, LimitKept
  <2>5. HandshakeInv(c, call'[c])
    BY <2>1, HandshakeKept
  <2> QED BY <2>2, <2>3, <2>4, <2>5 DEF CallInv
<1> QED BY <1>1, <1>2

\* A step of one call leaves the others alone.
LEMMA OthersAlone ==
  ASSUME NEW c \in Calls, Steps(c) \/ \E s \in Specs : Call(c, s) \/ CallRust(c, s),
         DOMAIN call = Calls
  PROVE  /\ DOMAIN call' = Calls /\ UNCHANGED <<client, size, shrunk>>
         /\ \A d \in Calls : d # c => call'[d] = call[d]
<1>1. UNCHANGED <<client, size, shrunk>> /\ \E q : call' = [call EXCEPT ![c] = q]
  BY DEF Steps, Call, CallRust, Build, RustSend, Poll, Park, Cancelled, Start, AddPart, Send,
         WriteBody, EndBody, Answer, ReadBody, Fail, Continue, Abort, CancelTask, HandleSteps,
         EndHandle, SendFails, CloseSocket, RecvWhileClosing, SocketClosed
<1> QED BY <1>1

LEMMA InvInit == Init => Inv
<1> SUFFICES ASSUME Init PROVE Inv
  OBVIOUS
<1>1. DOMAIN client = {"state", "config", "max"} /\ client.state = "new"
  BY DEF Init
<1>2. \A c \in Calls : call[c] = Idle
  BY DEF Init
<1>3. DOMAIN Idle = {"phase", "aborted"} /\ Idle.phase = "idle"
  BY DEF Idle
<1>4. \A c \in Calls : CallInv(c, call[c])
  BY <1>2, <1>3 DEF CallInv
<1>5. DOMAIN call = Calls
  BY DEF Init
<1> QED BY <1>1, <1>4, <1>5 DEF Inv, ClientInv

LEMMA InvNext ==
  ASSUME Inv, [Next]_vars
  PROVE  Inv'
<1>1. ASSUME NEW s \in ClientSpecs, NewClient(s) PROVE Inv'
  <2>1. ClientInv' /\ call' = call
    BY <1>1, ClientMade DEF NewClient
  <2>2. DOMAIN client' = {"state", "config", "max"}
    BY <1>1 DEF NewClient
  <2> QED BY <2>1, <2>2 DEF Inv
<1>2. CASE CloseClient
  <2>1. ClientInv' /\ call' = call
    BY <1>2, ClientClosed DEF CloseClient, Inv
  <2>2. DOMAIN client' = {"state", "config", "max"}
    BY <1>2 DEF CloseClient, Inv
  <2> QED BY <2>1, <2>2 DEF Inv
<1>3. ASSUME NEW f \in Files, Append1(f) \/ Truncate(f) PROVE Inv'
  BY <1>3 DEF Append1, Truncate, Inv, ClientInv
<1>4. ASSUME NEW c \in Calls, Steps(c) \/ \E s \in Specs : Call(c, s) \/ CallRust(c, s)
      PROVE  Inv'
  <2>1. CallInv(c, call'[c])
    BY <1>4, StepsKeep, CallBegins, CallRustBegins
  <2>2. /\ DOMAIN call' = Calls /\ UNCHANGED client
        /\ \A d \in Calls : d # c => call'[d] = call[d]
    BY <1>4, OthersAlone DEF Inv
  <2>3. \A d \in Calls : CallInv(d, call'[d])
    BY <2>1, <2>2 DEF Inv
  <2> QED BY <2>2, <2>3 DEF Inv, ClientInv
<1>5. CASE UNCHANGED vars
  BY <1>5 DEF vars, Inv, ClientInv
<1> QED BY <1>1, <1>2, <1>3, <1>4, <1>5 DEF Next, Steps, HandleSteps

\* The invariant holds of every call at every step: its fields are there, its
\* request is well formed, and AbortInv, LimitInv and HandshakeInv hold (bindings,
\* tlsurl-core's Client and the builder between them).
THEOREM InvInvariant == Spec => []Inv
BY InvInit, InvNext, PTL DEF Spec

-----------------------------------------------------------------------------
(* Three theorems.                                                         *)

\* Once the AbortSignal of a Node call has fired, the stream or socket its caller
\* holds is closed, but for a socket that was closing and had lost its listener
\* to a failed recv; and a call whose signal had fired before sends nothing
\* (client.cjs: the listener, the WeakRef and the last look at signal.aborted),
\* for any calls, answers and interleavings of the two threads.
THEOREM AbortIsHonoured == Spec => []AbortHonoured
<1>1. Inv => AbortHonoured
  <2> SUFFICES ASSUME Inv, NEW c \in Calls, call[c].phase # "idle", call[c].aborted
               PROVE  /\ call[c].phase = "handed" => call[c].handle = "closed" \/ Unheard(c)
                      /\ call[c].early => call[c].builder.request = None
    BY DEF AbortHonoured
  <2> QED BY DEF Inv, CallInv, AbortInv, Held, Unheard
<1> QED BY <1>1, InvInvariant, PTL

\* max_response_bytes bounds the decoded body whatever its chunks are, and a
\* body is refused only when all of it is larger (request_with_options).
THEOREM LimitIsExact == Spec => []LimitExact
<1>1. Inv => LimitExact
  <2> SUFFICES ASSUME Inv, NEW c \in Calls, call[c].phase # "idle", call[c].spec.api # "rust",
                      call[c].response # None
               PROVE  /\ call[c].got <= call[c].max
                      /\ call[c].result = "BODY_TOO_LARGE" => Total(call[c]) > call[c].max
    BY DEF LimitExact, Total
  <2> QED BY DEF Inv, CallInv, LimitInv, Fitting, FirstRead
<1> QED BY <1>1, InvInvariant, PTL

\* A WebSocket is handed out only for the answer to this call's handshake: its
\* Sec-WebSocket-Accept comes from the call's nonce, or an HTTP/2 CONNECT was
\* accepted, and the subprotocol is one that was offered (into_websocket), for
\* any headers of the caller, of the client and of its profile.
THEOREM HandshakeIsProven == Spec => []HandshakeProven
<1>1. Inv => HandshakeProven
  <2> SUFFICES ASSUME Inv, NEW c \in Calls, call[c].phase # "idle", call[c].spec.kind = "ws",
                      call[c].handle # "none"
               PROVE  Proven(c, call[c])
    BY DEF HandshakeProven, Proven
  <2> QED BY DEF Inv, CallInv, HandshakeInv
<1> QED BY <1>1, InvInvariant, PTL

-----------------------------------------------------------------------------
(* The bytes of a body.                                                    *)

\* A piece of a body takes a number of bytes from memory or from a file, which
\* has them unless files shrink.
Piece(p, sz, sh) ==
    /\ p.take \in Nat /\ p.file \in Files \cup {None}
    /\ sh = {} /\ p.file # None => p.take <= sz[p.file]

\* T[i] are the bytes of the first i pieces.
IsSums(T, pieces, n) ==
    /\ T \in [0 .. Len(pieces) -> Nat]
    /\ T[0] = 0 /\ T[Len(pieces)] = n
    /\ \A i \in 1 .. Len(pieces) : T[i] = T[i - 1] + pieces[i].take
    /\ \A i \in 0 .. Len(pieces) : T[i] <= n

Measured(pieces, n, sz, sh) ==
    /\ IsList(pieces)
    /\ \A i \in DOMAIN pieces : Piece(pieces[i], sz, sh)
    /\ \E T : IsSums(T, pieces, n)

LEMMA NothingMeasured ==
  ASSUME NEW sz, NEW sh
  PROVE  Measured(<<>>, 0, sz, sh)
<1> DEFINE T == [i \in 0 .. 0 |-> 0]
<1>1. IsSums(T, <<>>, 0)
  BY DEF IsSums
<1>2. IsList(<<>>) /\ DOMAIN <<>> = {}
  BY DEF IsList
<1> QED BY <1>1, <1>2 DEF Measured

LEMMA ListGrows ==
  ASSUME NEW s, IsList(s), NEW x
  PROVE  /\ IsList(Append(s, x)) /\ Len(Append(s, x)) = Len(s) + 1
         /\ DOMAIN Append(s, x) = 1 .. Len(s) + 1
         /\ Append(s, x)[Len(s) + 1] = x
         /\ \A i \in 1 .. Len(s) : Append(s, x)[i] = s[i]
<1> DEFINE S == Range(s) \cup {x}
           g == Append(s, x)
<1>1. s \in Seq(S) /\ x \in S
  BY DEF IsList
<1>2. /\ g \in Seq(S) /\ Len(g) = Len(s) + 1 /\ g[Len(s) + 1] = x
      /\ \A i \in 1 .. Len(s) : g[i] = s[i]
      /\ DOMAIN g = 1 .. Len(s) + 1
  <2> HIDE DEF S
  <2> QED BY <1>1, AppendProperties
<1> HIDE DEF g
<1>3. Len(s) + 1 \in Nat
  BY ListIsSeq
<1>4. g \in [1 .. Len(s) + 1 -> Range(g)]
  BY <1>2 DEF Range
<1>5. IsList(g)
  BY <1>2, <1>3, <1>4 DEF IsList
<1> QED BY <1>2, <1>5 DEF g

LEMMA MeasuredGrows ==
  ASSUME NEW s, NEW n, NEW sz, NEW sh, Measured(s, n, sz, sh), NEW p, Piece(p, sz, sh)
  PROVE  Measured(Append(s, p), n + p.take, sz, sh)
<1> DEFINE g == Append(s, p)
           l == Len(s) + 1
           m == n + p.take
<1>1. Len(s) \in Nat /\ DOMAIN s = 1 .. Len(s)
  BY ListIsSeq DEF Measured
<1>2. /\ IsList(g) /\ Len(g) = l /\ DOMAIN g = 1 .. l /\ g[l] = p
      /\ \A i \in 1 .. Len(s) : g[i] = s[i]
  BY ListGrows DEF Measured
<1> HIDE DEF g
<1>3. PICK T : IsSums(T, s, n)
  BY DEF Measured
<1>4. p.take \in Nat /\ n \in Nat
  BY <1>1, <1>3 DEF Piece, IsSums
<1> DEFINE U == [i \in 0 .. l |-> IF i = l THEN m ELSE T[i]]
<1>5. IsSums(U, g, m)
  <2>1. \A i \in 0 .. Len(s) : T[i] \in Nat /\ T[i] <= n /\ U[i] = T[i]
    BY <1>1, <1>3 DEF IsSums
  <2>2. U[l] = m
    BY <1>1
  <2>3. U \in [0 .. l -> Nat]
    <3>1. \A i \in 0 .. l : i = l \/ i \in 0 .. Len(s)
      BY <1>1
    <3>2. m \in Nat
      BY <1>4
    <3>3. \A i \in 0 .. l : (IF i = l THEN m ELSE T[i]) \in Nat
      BY <2>1, <3>1, <3>2
    <3> HIDE DEF m, l
    <3> QED BY <3>3
  <2>4. U[0] = 0
    BY <1>1, <1>3, <2>1 DEF IsSums
  <2> HIDE DEF U
  <2>5. ASSUME NEW i \in 1 .. l PROVE U[i] = U[i - 1] + g[i].take
    <3>1. CASE i = l
      <4>1. U[i - 1] = T[Len(s)] /\ T[Len(s)] = n
        BY <1>1, <1>3, <2>1, <3>1 DEF IsSums
      <4> QED BY <1>2, <2>2, <3>1, <4>1
    <3>2. CASE i # l
      <4>1. i \in 1 .. Len(s) /\ i - 1 \in 0 .. Len(s) /\ i \in 0 .. Len(s)
        BY <1>1, <3>2
      <4>2. U[i] = T[i] /\ U[i - 1] = T[i - 1] /\ g[i] = s[i]
        BY <1>2, <2>1, <4>1
      <4> QED BY <1>3, <4>1, <4>2 DEF IsSums
    <3> QED BY <3>1, <3>2
  <2>6. ASSUME NEW i \in 0 .. l PROVE U[i] <= m
    <3>1. CASE i = l
      BY <1>4, <2>2, <3>1
    <3>2. CASE i # l
      <4>1. i \in 0 .. Len(s)
        BY <1>1, <3>2
      <4>2. U[i] \in Nat /\ U[i] <= n
        BY <2>1, <4>1
      <4> QED BY <1>4, <4>2
    <3> QED BY <3>1, <3>2
  <2> HIDE DEF m, l
  <2> QED BY <1>2, <2>2, <2>3, <2>4, <2>5, <2>6 DEF IsSums
<1>6. \A i \in DOMAIN g : Piece(g[i], sz, sh)
  <2>1. ASSUME NEW i \in DOMAIN g PROVE Piece(g[i], sz, sh)
    <3>1. CASE i = l
      BY <1>2, <3>1
    <3>2. CASE i # l
      <4>1. i \in DOMAIN s /\ g[i] = s[i]
        BY <1>1, <1>2, <3>2
      <4> QED BY <4>1 DEF Measured
    <3> QED BY <3>1, <3>2
  <2> QED BY <2>1
<1>7. Measured(g, m, sz, sh)
  <2> HIDE DEF U, m
  <2> QED BY <1>2, <1>5, <1>6 DEF Measured
<1> QED BY <1>7 DEF g

\* A file that does not shrink keeps what it had, whatever is appended.
LEMMA PieceLater ==
  ASSUME NEW sz, NEW sh, NEW p, Piece(p, sz, sh), NEW sz2, NEW sh2,
         sz \in [Files -> Nat], sz2 \in [Files -> Nat],
         sh2 = {} => sh = {} /\ \A f \in Files : sz[f] <= sz2[f]
  PROVE  Piece(p, sz2, sh2)
<1>1. p.take \in Nat /\ p.file \in Files \cup {None}
  BY DEF Piece
<1>2. ASSUME sh2 = {}, p.file # None PROVE p.take <= sz2[p.file]
  <2>1. p.file \in Files /\ p.take <= sz[p.file] /\ sz[p.file] <= sz2[p.file]
    BY <1>1, <1>2 DEF Piece
  <2>2. sz[p.file] \in Nat /\ sz2[p.file] \in Nat
    BY <2>1
  <2> QED BY <1>1, <2>1, <2>2
<1> QED BY <1>1, <1>2 DEF Piece

-----------------------------------------------------------------------------
(* Forms: compute_length against into_stream.                              *)

\* A field whose length is known is one piece of that length.
SizedField(x, sz, sh) ==
    value_len(x.part) # None =>
        \E p : /\ x.part.value.pieces = <<p>> /\ Piece(p, sz, sh)
               /\ p.take = value_len(x.part)

SizedForm(f, sz, sh) ==
    IsForm(f) /\ \A i \in DOMAIN f.fields : SizedField(f.fields[i], sz, sh)

LEMMA HeaderIsNumber ==
  ASSUME NEW f, NEW x, IsField(x)
  PROVE  PartHeader(f, x) \in Nat
<1> DEFINE e == percent_encode(f.percent_encoding, x.name)
<1>1. e.len \in Nat
  <2>1. x.name.len \in Nat /\ x.name.special \in Nat
    BY DEF IsField
  <2>2. e.len = x.name.len \/ e.len = x.name.len + 2 * x.name.special
    BY DEF percent_encode
  <2> HIDE DEF e
  <2> QED BY <2>1, <2>2
<1>2. x.part.file_name \in Nat \cup {None} /\ x.part.mime \in Nat \cup {None}
  BY DEF IsField
<1> DEFINE name == IF e.owned THEN 13 ELSE 7
           file == IF x.part.file_name = None THEN 0 ELSE 13 + x.part.file_name
           type == IF x.part.mime = None THEN 0 ELSE 16 + x.part.mime
<1>3. PartHeader(f, x) = 32 + e.len + name + file + type
  BY DEF PartHeader, encode_headers
<1> HIDE DEF e
<1>4. name \in Nat /\ file \in Nat /\ type \in Nat
  BY <1>2
<1> HIDE DEF name, file, type
<1> QED BY <1>1, <1>3, <1>4

LEMMA FourAppended ==
  ASSUME NEW s, IsList(s), NEW a, NEW b, NEW v, NEW d
  PROVE  s \o (<<a, b>> \o <<v>> \o <<d>>) = Append(Append(Append(Append(s, a), b), v), d)
<1> DEFINE S == Range(s) \cup {a, b, v, d}
<1>1. s \in Seq(S) /\ a \in S /\ b \in S /\ v \in S /\ d \in S
  BY DEF IsList
<1> HIDE DEF S
<1>2. /\ <<a>> \in Seq(S) /\ <<b>> \in Seq(S) /\ <<v>> \in Seq(S) /\ <<d>> \in Seq(S)
      /\ <<a, b>> \in Seq(S)
  BY <1>1
<1>3. \A t \in Seq(S), x \in S : Append(t, x) \in Seq(S) /\ Append(t, x) = t \o <<x>>
  BY AppendProperties, AppendIsConcat
<1>4. <<a, b>> = <<a>> \o <<b>>
  <2>1. <<a, b>> = Append(<<a>>, b)
    OBVIOUS
  <2> QED BY <1>1, <1>2, <1>3, <2>1
<1>5. \A t, u, w \in Seq(S) : (t \o u) \o w = t \o (u \o w)
  BY ConcatAssociative
<1>6. \A t, u \in Seq(S) : t \o u \in Seq(S)
  BY ConcatProperties
<1>7. Append(Append(s, a), b) = s \o <<a, b>> /\ s \o <<a, b>> \in Seq(S)
  BY <1>1, <1>2, <1>3, <1>4, <1>5, <1>6
<1>8. Append(s \o <<a, b>>, v) = s \o (<<a, b>> \o <<v>>) /\ <<a, b>> \o <<v>> \in Seq(S)
  BY <1>1, <1>2, <1>3, <1>5, <1>6, <1>7
<1>9. Append(s \o (<<a, b>> \o <<v>>), d) = s \o ((<<a, b>> \o <<v>>) \o <<d>>)
  <2>1. s \o (<<a, b>> \o <<v>>) \in Seq(S)
    BY <1>1, <1>6, <1>8
  <2> HIDE DEF S
  <2> QED BY <1>1, <1>2, <1>3, <1>5, <1>8, <2>1
<1> QED BY <1>7, <1>8, <1>9

\* Form::part_stream: the pieces of a field are as long as compute_length counts.
LEMMA PartMeasured ==
  ASSUME NEW s, NEW n, NEW sz, NEW sh, Measured(s, n, sz, sh),
         NEW f, f.boundary \in Nat, NEW x, IsField(x),
         SizedField(x, sz, sh), value_len(x.part) # None
  PROVE  Measured(s \o part_stream(f, x), n + LengthOf(f, x), sz, sh)
<1>1. PICK p : /\ x.part.value.pieces = <<p>> /\ Piece(p, sz, sh)
               /\ p.take = value_len(x.part)
  BY DEF SizedField
<1> DEFINE h == PartHeader(f, x)
           a == Bytes(2 + f.boundary + 2)
           b == Bytes(h + 4)
           d == Bytes(2)
<1>2. h \in Nat /\ p.take \in Nat /\ n \in Nat
  BY <1>1, HeaderIsNumber, ListIsSeq DEF Piece, Measured, IsSums
<1>3. part_stream(f, x) = <<a, b>> \o <<p>> \o <<d>>
  BY <1>1 DEF part_stream
<1>4. LengthOf(f, x) = 2 + f.boundary + 2 + h + 4 + p.take + 2
  BY <1>1 DEF LengthOf
<1> HIDE DEF h
<1>5. \A k \in Nat : Piece(Bytes(k), sz, sh) /\ Bytes(k).take = k
  BY DEF Piece, Bytes
<1>6. /\ Piece(a, sz, sh) /\ a.take = 2 + f.boundary + 2
      /\ Piece(b, sz, sh) /\ b.take = h + 4
      /\ Piece(d, sz, sh) /\ d.take = 2
  <2>1. 2 + f.boundary + 2 \in Nat /\ h + 4 \in Nat /\ 2 \in Nat
    BY <1>2
  <2> QED BY <1>5, <2>1
<1> HIDE DEF a, b, d
<1>7. Measured(Append(s, a), n + a.take, sz, sh)
  BY <1>6, MeasuredGrows
<1>8. Measured(Append(Append(s, a), b), n + a.take + b.take, sz, sh)
  BY <1>6, <1>7, MeasuredGrows
<1>9. Measured(Append(Append(Append(s, a), b), p), n + a.take + b.take + p.take, sz, sh)
  BY <1>1, <1>8, MeasuredGrows
<1>10. Measured(Append(Append(Append(Append(s, a), b), p), d),
                n + a.take + b.take + p.take + d.take, sz, sh)
  BY <1>6, <1>9, MeasuredGrows
<1>11. n + a.take + b.take + p.take + d.take = n + LengthOf(f, x)
  BY <1>2, <1>4, <1>6
<1>12. s \o part_stream(f, x) = Append(Append(Append(Append(s, a), b), p), d)
  BY <1>3, FourAppended DEF Measured
<1> QED BY <1>10, <1>11, <1>12

LEMMA PartsFold ==
  ASSUME NEW f, Len(f.fields) \in Nat, DOMAIN f.fields = 1 .. Len(f.fields)
  PROVE  FoldLeft(LAMBDA pieces, field : pieces \o part_stream(f, field), <<>>, f.fields)
         = Upto("parts", f, <<>>, f.fields, Len(f.fields))
BY DEF FoldLeft, MapThenFoldSet, Upto, Folds, Step

LEMMA LengthsFold ==
  ASSUME NEW f, Len(f.fields) \in Nat, DOMAIN f.fields = 1 .. Len(f.fields)
  PROVE  FoldLeft(LAMBDA sum, field : sum + LengthOf(f, field), 0, f.fields)
         = Upto("lengths", f, 0, f.fields, Len(f.fields))
BY DEF FoldLeft, MapThenFoldSet, Upto, Folds, Step

\* Form::into_stream sends what Form::compute_length says.
LEMMA FormMeasured ==
  ASSUME NEW f, NEW sz, NEW sh, SizedForm(f, sz, sh), compute_length(f) # None
  PROVE  Measured(form_stream(f).pieces, compute_length(f), sz, sh)
<1> DEFINE s == f.fields
           P(k) == Upto("parts", f, <<>>, s, k)
           L(k) == Upto("lengths", f, 0, s, k)
           Bad == {k \in 0 .. Len(s) : ~Measured(P(k), L(k), sz, sh)}
<1>1. Len(s) \in Nat /\ DOMAIN s = 1 .. Len(s) /\ f.boundary \in Nat
  BY ListIsSeq DEF SizedForm, IsForm
<1>2. \A i \in DOMAIN s : value_len(s[i].part) # None
  BY DEF compute_length
<1>3. compute_length(f) = L(Len(s)) + (IF s = <<>> THEN 0 ELSE 2 + f.boundary + 4)
  <2>1. FoldLeft(LAMBDA sum, field : sum + LengthOf(f, field), 0, s) = L(Len(s))
    BY <1>1, LengthsFold
  <2> QED BY <1>2, <2>1 DEF compute_length, LengthOf
<1>4. s # <<>> => form_stream(f).pieces = P(Len(s)) \o <<Bytes(2 + f.boundary + 4)>>
  <2>1. FoldLeft(LAMBDA pieces, field : pieces \o part_stream(f, field), <<>>, s) = P(Len(s))
    BY <1>1, PartsFold
  <2> QED BY <2>1 DEF form_stream, wrap_stream
<1>5. P(0) = <<>> /\ \A k \in 1 .. Len(s) : P(k) = P(k - 1) \o part_stream(f, s[k])
  <2>1. \A acc, x : Step("parts", f, acc, x) = acc \o part_stream(f, x)
    BY DEF Step
  <2>2. OneByOne("parts", f, <<>>, s)
    BY <1>1, FoldSteps
  <2> QED BY <2>1, <2>2 DEF OneByOne
<1>6. L(0) = 0 /\ \A k \in 1 .. Len(s) : L(k) = L(k - 1) + LengthOf(f, s[k])
  <2>1. \A acc, x : Step("lengths", f, acc, x) = acc + LengthOf(f, x)
    BY DEF Step
  <2>2. OneByOne("lengths", f, 0, s)
    BY <1>1, FoldSteps
  <2> QED BY <2>1, <2>2 DEF OneByOne
<1> HIDE DEF P, L
<1>7. Bad = {}
  <2>1. SUFFICES ASSUME Bad # {} PROVE FALSE
    OBVIOUS
  <2>2. PICK k \in Bad : \A m \in Bad : k <= m
    <3>1. Bad \in SUBSET Nat
      BY <1>1
    <3> HIDE DEF Bad
    <3> QED BY <2>1, <3>1, LeastNumber
  <2>3. k # 0
    BY <1>5, <1>6, <2>2, NothingMeasured
  <2>4. /\ k \in 1 .. Len(s) /\ ~Measured(P(k), L(k), sz, sh)
        /\ Measured(P(k - 1), L(k - 1), sz, sh)
    BY <1>1, <2>2, <2>3
  <2>5. IsField(s[k]) /\ SizedField(s[k], sz, sh) /\ value_len(s[k].part) # None
    BY <1>1, <1>2, <2>4 DEF SizedForm, IsForm
  <2>6. Measured(P(k - 1) \o part_stream(f, s[k]), L(k - 1) + LengthOf(f, s[k]), sz, sh)
    BY <1>1, <2>4, <2>5, PartMeasured
  <2> QED BY <1>5, <1>6, <2>4, <2>6
<1>8. Measured(P(Len(s)), L(Len(s)), sz, sh)
  BY <1>1, <1>7
<1>9. \A k \in Nat : Piece(Bytes(k), sz, sh) /\ Bytes(k).take = k
  BY DEF Piece, Bytes
<1>10. CASE s = <<>>
  <2>1. form_stream(f).pieces = <<Bytes(0)>>
    BY <1>10 DEF form_stream, Full
  <2>2. compute_length(f) = 0
    <3>1. L(Len(s)) = 0
      BY <1>6, <1>10
    <3> QED BY <1>3, <1>10, <3>1
  <2>3. Measured(Append(<<>>, Bytes(0)), 0 + Bytes(0).take, sz, sh)
    BY <1>9, NothingMeasured, MeasuredGrows
  <2>4. Append(<<>>, Bytes(0)) = <<Bytes(0)>> /\ 0 + Bytes(0).take = 0
    BY <1>9
  <2> QED BY <2>1, <2>2, <2>3, <2>4
<1>11. CASE s # <<>>
  <2> DEFINE e == Bytes(2 + f.boundary + 4)
  <2>1. Piece(e, sz, sh) /\ e.take = 2 + f.boundary + 4
    <3>1. 2 + f.boundary + 4 \in Nat
      BY <1>1
    <3> QED BY <1>9, <3>1
  <2> HIDE DEF e
  <2>2. Measured(Append(P(Len(s)), e), L(Len(s)) + e.take, sz, sh)
    BY <1>8, <2>1, MeasuredGrows
  <2>3. P(Len(s)) \o <<e>> = Append(P(Len(s)), e)
    <3> DEFINE t == P(Len(s))
               S == Range(t) \cup {e}
    <3>1. t \in Seq(S) /\ e \in S
      BY <1>8 DEF Measured, IsList
    <3> HIDE DEF t, S
    <3>2. Append(t, e) = t \o <<e>>
      BY <3>1, AppendIsConcat
    <3> QED BY <3>2 DEF t
  <2> QED BY <1>3, <1>4, <1>11, <2>1, <2>2, <2>3 DEF e
<1> QED BY <1>10, <1>11

-----------------------------------------------------------------------------
(* What a request declares.                                                *)

\* Nothing is declared and there is no body; all that is declared is the
\* length of the body.
Bare(request) == CL \notin Names(request.headers) /\ request.body = NoBody

Framed(request, sz, sh) ==
    \A n \in Declared(request) : Measured(BodyOf(request).pieces, n, sz, sh)

SameFraming(q, r) ==
    /\ CL \in Names(q.headers) <=> CL \in Names(r.headers)
    /\ Values(q.headers, CL) = Values(r.headers, CL)
    /\ q.body = r.body

LEMMA FramingKept ==
  ASSUME NEW q, NEW r, SameFraming(q, r)
  PROVE  /\ Declared(q) = Declared(r) /\ BodyOf(q) = BodyOf(r)
         /\ Bare(r) => Bare(q)
         /\ \A sz, sh : Framed(r, sz, sh) => Framed(q, sz, sh)
<1>1. BodyOf(q) = BodyOf(r)
  BY DEF SameFraming, BodyOf
<1>2. Values(q.headers, CL) = Values(r.headers, CL)
  BY DEF SameFraming
<1>3. Declared(q) = Declared(r)
  BY <1>1, <1>2 DEF Declared, CL
<1> QED BY <1>1, <1>3 DEF Bare, SameFraming, Framed

\* A body in memory, declared by nothing else.
LEMMA FullFramed ==
  ASSUME NEW r, CL \notin Names(r.headers), NEW n \in Nat, BodyOf(r) = Full(n), NEW sz, NEW sh
  PROVE  Framed(r, sz, sh)
<1>1. Values(r.headers, "content-length") = <<>>
  BY DEF Values, CL
<1>2. content_length(Full(n)) = n /\ Full(n).pieces = <<Bytes(n)>>
  BY DEF content_length, Full, Bytes
<1>3. Range(<<>>) = {}
  BY DEF Range
<1>4. n # None
  BY BodiesAreMeasured
<1>5. Declared(r) = {n}
  BY <1>1, <1>2, <1>3, <1>4 DEF Declared
<1>6. Measured(<<Bytes(n)>>, n, sz, sh)
  <2>1. Piece(Bytes(n), sz, sh) /\ Bytes(n).take = n
    BY DEF Piece, Bytes
  <2>2. Measured(Append(<<>>, Bytes(n)), 0 + Bytes(n).take, sz, sh)
    BY <2>1, NothingMeasured, MeasuredGrows
  <2>3. Append(<<>>, Bytes(n)) = <<Bytes(n)>> /\ 0 + Bytes(n).take = n
    BY <2>1
  <2> QED BY <2>2, <2>3
<1> QED BY <1>2, <1>5, <1>6 DEF Framed

LEMMA BareFramed ==
  ASSUME NEW r, Bare(r), NEW sz, NEW sh
  PROVE  Framed(r, sz, sh)
<1>1. BodyOf(r) = Full(0) /\ CL \notin Names(r.headers)
  BY DEF Bare, BodyOf, NoBody
<1> QED BY <1>1, FullFramed

\* A stream that nothing declares is sent in chunks.
LEMMA StreamFramed ==
  ASSUME NEW r, CL \notin Names(r.headers), content_length(BodyOf(r)) = None, NEW sz, NEW sh
  PROVE  Framed(r, sz, sh)
<1>1. Values(r.headers, "content-length") = <<>>
  BY DEF Values, CL
<1>2. Range(<<>>) = {}
  BY DEF Range
<1>3. Declared(r) = {}
  BY <1>1, <1>2 DEF Declared
<1> QED BY <1>3 DEF Framed

\* A Content-Length that is the length of the body.
LEMMA LengthFramed ==
  ASSUME NEW r, NEW n, Values(r.headers, CL) = <<n>>, NEW sz, NEW sh,
         Measured(BodyOf(r).pieces, n, sz, sh)
  PROVE  Framed(r, sz, sh)
<1>1. Range(<<n>>) = {n}
  BY DEF Range
<1>2. Declared(r) = {n}
  BY <1>1 DEF Declared, CL
<1> QED BY <1>2 DEF Framed

-----------------------------------------------------------------------------
(* What the calls on a builder do to the framing.                          *)

\* Only a builder without an error changes, and what it declares stays.
Keeps(g, b) ==
    /\ b.error # None => g = b
    /\ g.request = b.request \/ SameFraming(g.request, b.request)

LEMMA KeepsTwice ==
  ASSUME NEW a, NEW b, NEW d, Keeps(b, a), Keeps(d, b)
  PROVE  Keeps(d, a)
BY DEF Keeps, SameFraming

LEMMA OtherValues ==
  ASSUME NEW h, IsHeaderMap(h), NEW n, n # CL, NEW v
  PROVE  \A g \in {append(h, n, v), insert(h, n, v), or_insert(h, n, v)} :
           /\ CL \in Names(g) <=> CL \in Names(h)
           /\ Values(g, CL) = Values(h, CL)
<1>1. \A w : ValuesSet(set_values(h, n, w), h, n, w)
  BY SetValues
<1>2. \A w : LET g == set_values(h, n, w)
             IN  (CL \in Names(g) <=> CL \in Names(h)) /\ Values(g, CL) = Values(h, CL)
  BY <1>1 DEF ValuesSet
<1> QED BY <1>2 DEF append, insert, or_insert

\* A builder whose request changes to r.
LEMMA RequestKeeps ==
  ASSUME NEW b, IsBuilder(b), NEW g, NEW r,
         g = (IF b.error # None THEN b ELSE [b EXCEPT !.request = r]),
         b.error = None => SameFraming(r, b.request)
  PROVE  Keeps(g, b)
<1>1. CASE b.error # None
  BY <1>1 DEF Keeps
<1>2. CASE b.error = None
  <2>1. g.request = r
    BY <1>2 DEF IsBuilder
  <2> QED BY <1>2, <2>1 DEF Keeps
<1> QED BY <1>1, <1>2

LEMMA ErrorKeeps ==
  ASSUME NEW b, IsBuilder(b), b.error = None, NEW e
  PROVE  Keeps(Err(b, e), b)
BY DEF Keeps, Err, IsBuilder

LEMMA HeaderKeeps ==
  ASSUME NEW b, IsBuilder(b), NEW n, n # CL, NEW v
  PROVE  Keeps(header_sensitive(b, n, v), b)
<1> DEFINE h == append(b.request.headers, n, v)
           r == [b.request EXCEPT !.headers = h]
<1>1. \/ b.error = None /\ header_sensitive(b, n, v) = Err(b, Error("Builder", {}))
      \/ header_sensitive(b, n, v) = IF b.error # None THEN b ELSE [b EXCEPT !.request = r]
  BY DEF header_sensitive, OnOk
<1>2. b.error = None => /\ CL \in Names(h) <=> CL \in Names(b.request.headers)
                        /\ Values(h, CL) = Values(b.request.headers, CL)
  BY OtherValues DEF IsBuilder, IsRequest
<1> HIDE DEF h
<1>3. b.error = None => r.headers = h /\ r.body = b.request.body
  BY DEF IsBuilder, IsRequest
<1> HIDE DEF r
<1>4. b.error = None => SameFraming(r, b.request)
  BY <1>2, <1>3 DEF SameFraming
<1> QED BY <1>1, <1>4, RequestKeeps, ErrorKeeps

LEMMA OptionKeeps ==
  ASSUME NEW b, IsBuilder(b), NEW n, NEW v
  PROVE  Keeps(set_option(b, n, v), b)
<1> DEFINE o == With(b.request.options, n, v)
           r == [b.request EXCEPT !.options = o]
<1>1. set_option(b, n, v) = IF b.error # None THEN b ELSE [b EXCEPT !.request = r]
  BY DEF set_option, OnOk
<1> HIDE DEF o
<1>2. b.error = None => r.headers = b.request.headers /\ r.body = b.request.body
  BY DEF IsBuilder, IsRequest
<1> HIDE DEF r
<1>3. b.error = None => SameFraming(r, b.request)
  BY <1>2 DEF SameFraming
<1> QED BY <1>1, <1>3, RequestKeeps

LEMMA ReplaceKeeps ==
  ASSUME NEW b, IsBuilder(b), NEW h, IsHeaderMap(h), CL \notin Names(h)
  PROVE  Keeps(set_headers(b, h), b)
<1> DEFINE k == replace_headers(b.request.headers, h)
           r == [b.request EXCEPT !.headers = k]
<1>1. set_headers(b, h) = IF b.error # None THEN b ELSE [b EXCEPT !.request = r]
  BY DEF set_headers, OnOk
<1>2. b.error = None => /\ CL \in Names(k) <=> CL \in Names(b.request.headers)
                        /\ Values(k, CL) = Values(b.request.headers, CL)
  BY Replaced DEF IsBuilder, IsRequest
<1> HIDE DEF k
<1>3. b.error = None => r.headers = k /\ r.body = b.request.body
  BY DEF IsBuilder, IsRequest
<1> HIDE DEF r
<1>4. b.error = None => SameFraming(r, b.request)
  BY <1>2, <1>3 DEF SameFraming
<1> QED BY <1>1, <1>4, RequestKeeps

LEMMA QueryKeeps ==
  ASSUME NEW b, IsBuilder(b), NEW pairs
  PROVE  Keeps(query(b, pairs), b)
<1> DEFINE r == [b.request EXCEPT !.uri.query = pairs]
<1>1. query(b, pairs) = IF b.error # None THEN b ELSE [b EXCEPT !.request = r]
  BY DEF query, OnOk
<1>2. b.error = None => r.headers = b.request.headers /\ r.body = b.request.body
  BY DEF IsBuilder, IsRequest
<1> HIDE DEF r
<1>3. b.error = None => SameFraming(r, b.request)
  BY <1>2 DEF SameFraming
<1> QED BY <1>1, <1>3, RequestKeeps

\* The header lines of a call, none of them a Content-Length.
LEMMA LinesKeep ==
  ASSUME NEW b, IsBuilder(b), NEW lines, IsList(lines),
         \A i \in DOMAIN lines : lines[i][1] # CL
  PROVE  Keeps(AddHeaders(b, lines), b)
<1> DEFINE U(k) == Upto("lines", 0, b, lines, k)
           Good(k) == IsBuilder(U(k)) /\ Keeps(U(k), b)
           Bad == {k \in 0 .. Len(lines) : ~Good(k)}
<1>1. Len(lines) \in Nat /\ DOMAIN lines = 1 .. Len(lines)
  BY ListIsSeq
<1>2. OneByOne("lines", 0, b, lines)
  BY <1>1, FoldSteps
<1>3. U(0) = b /\ \A k \in 1 .. Len(lines) :
                    U(k) = header_sensitive(U(k - 1), lines[k][1], lines[k][2])
  <2>1. \A acc, x : Step("lines", 0, acc, x) = header_sensitive(acc, x[1], x[2])
    BY DEF Step
  <2> QED BY <1>2, <2>1 DEF OneByOne
<1>4. AddHeaders(b, lines) = U(Len(lines))
  BY <1>1, LinesFold
<1> HIDE DEF U
<1>5. Good(0)
  BY <1>3 DEF Keeps
<1>6. ASSUME NEW k \in 1 .. Len(lines), Good(k - 1) PROVE Good(k)
  <2>1. lines[k][1] # CL
    BY <1>1
  <2>2. Keeps(U(k), U(k - 1)) /\ IsBuilder(U(k))
    BY <1>3, <1>6, <2>1, HeaderKeeps, HeaderSensitive
  <2> QED BY <1>6, <2>2, KeepsTwice
<1> HIDE DEF Good
<1>7. Bad = {}
  <2>1. SUFFICES ASSUME Bad # {} PROVE FALSE
    OBVIOUS
  <2>2. PICK k \in Bad : \A m \in Bad : k <= m
    <3>1. Bad \in SUBSET Nat
      BY <1>1
    <3> HIDE DEF Bad
    <3> QED BY <2>1, <3>1, LeastNumber
  <2>3. k \in 1 .. Len(lines) /\ ~Good(k) /\ Good(k - 1)
    BY <1>1, <1>5, <2>2
  <2> QED BY <1>6, <2>3
<1> QED BY <1>1, <1>4, <1>7 DEF Good

-----------------------------------------------------------------------------
(* Bodies are attached.                                                    *)

BareBuilder(b) == Bare(b.request) \/ (b.error # None /\ b.request = None)

FramedBuilder(b, sz, sh) == Framed(b.request, sz, sh) \/ (b.error # None /\ b.request = None)

LEMMA BuilderKept ==
  ASSUME NEW b, NEW g, Keeps(g, b)
  PROVE  /\ BareBuilder(b) => BareBuilder(g)
         /\ \A sz, sh : FramedBuilder(b, sz, sh) => FramedBuilder(g, sz, sh)
<1>1. CASE b.error # None
  BY <1>1 DEF Keeps
<1>2. CASE b.error = None
  <2>1. g.request = b.request \/ SameFraming(g.request, b.request)
    BY DEF Keeps
  <2>2. Bare(b.request) => Bare(g.request)
    BY <2>1, FramingKept
  <2>3. \A sz, sh : Framed(b.request, sz, sh) => Framed(g.request, sz, sh)
    BY <2>1, FramingKept
  <2> QED BY <1>2, <2>2, <2>3 DEF BareBuilder, FramedBuilder
<1> QED BY <1>1, <1>2

LEMMA BareIsFramed ==
  ASSUME NEW b, BareBuilder(b), NEW sz, NEW sh
  PROVE  FramedBuilder(b, sz, sh)
BY BareFramed DEF BareBuilder, FramedBuilder

\* The request r that replaces one without a body.
LEMMA RequestFramed ==
  ASSUME NEW b, IsBuilder(b), BareBuilder(b), NEW g, NEW r, NEW sz, NEW sh,
         g = (IF b.error # None THEN b ELSE [b EXCEPT !.request = r]),
         b.error = None => Framed(r, sz, sh)
  PROVE  FramedBuilder(g, sz, sh)
<1>1. CASE b.error # None
  BY <1>1, BareIsFramed
<1>2. CASE b.error = None
  <2>1. g.request = r
    BY <1>2 DEF IsBuilder
  <2> QED BY <1>2, <2>1 DEF FramedBuilder
<1> QED BY <1>1, <1>2

LEMMA ErrorFramed ==
  ASSUME NEW b, IsBuilder(b), b.error = None, BareBuilder(b), NEW e, NEW sz, NEW sh
  PROVE  FramedBuilder(Err(b, e), sz, sh)
BY ErrorKeeps, BuilderKept, BareIsFramed

\* A body in memory, or a stream.
LEMMA BodyFramed ==
  ASSUME NEW r, CL \notin Names(r.headers), IsBody(r.body), NEW sz, NEW sh
  PROVE  Framed(r, sz, sh)
<1>1. BodyOf(r) = r.body
  BY DEF IsBody, BodyOf
<1>2. CASE r.body.kind = "full"
  <2>1. content_length(r.body) \in Nat /\ r.body = Full(content_length(r.body))
    BY <1>2 DEF IsBody
  <2> QED BY <1>1, <2>1, FullFramed
<1>3. CASE r.body.kind # "full"
  <2>1. content_length(BodyOf(r)) = None
    BY <1>1, <1>3 DEF content_length
  <2> QED BY <2>1, StreamFramed
<1> QED BY <1>2, <1>3

LEMMA EncodedFramed ==
  ASSUME NEW b, IsBuilder(b), BareBuilder(b), NEW type, NEW n \in Nat \cup {Illegal},
         NEW sz, NEW sh
  PROVE  FramedBuilder(encoded_body(b, type, n), sz, sh)
<1> DEFINE h == or_insert(b.request.headers, "content-type", type)
           r == [b.request EXCEPT !.headers = h, !.body = Full(n)]
           e == Error("Builder", {})
<1>1. CASE b.error = None /\ n = Illegal
  <2>1. encoded_body(b, type, n) = Err(b, e)
    BY <1>1 DEF encoded_body
  <2> HIDE DEF e
  <2> QED BY <1>1, <2>1, ErrorFramed
<1>2. CASE ~(b.error = None /\ n = Illegal)
  <2>1. encoded_body(b, type, n) = IF b.error # None THEN b ELSE [b EXCEPT !.request = r]
    BY <1>2 DEF encoded_body, OnOk
  <2>2. ASSUME b.error = None PROVE Framed(r, sz, sh)
    <3>1. n \in Nat /\ IsRequest(b.request) /\ CL \notin Names(b.request.headers)
      BY <1>2, <2>2 DEF IsBuilder, BareBuilder, Bare
    <3>2. CL \notin Names(h)
      <4>1. "content-type" # CL
        BY DEF CL
      <4> QED BY <3>1, <4>1, OtherValues DEF IsRequest
    <3> HIDE DEF h
    <3>3. r.headers = h /\ r.body = Full(n)
      BY <3>1 DEF IsRequest
    <3>4. IsBody(Full(n))
      BY <3>1 DEF IsBody, Full, content_length, Bytes
    <3> HIDE DEF r
    <3> QED BY <3>2, <3>3, <3>4, BodyFramed
  <2> HIDE DEF r
  <2> QED BY <2>1, <2>2, RequestFramed
<1> QED BY <1>1, <1>2

LEMMA SetBodyFramed ==
  ASSUME NEW b, IsBuilder(b), BareBuilder(b), NEW body, IsBody(body), NEW sz, NEW sh
  PROVE  FramedBuilder(set_body(b, body), sz, sh)
<1> DEFINE r == [b.request EXCEPT !.body = body]
<1>1. set_body(b, body) = IF b.error # None THEN b ELSE [b EXCEPT !.request = r]
  BY DEF set_body, OnOk
<1>2. ASSUME b.error = None PROVE Framed(r, sz, sh)
  <2>1. IsRequest(b.request) /\ CL \notin Names(b.request.headers)
    BY <1>2 DEF IsBuilder, BareBuilder, Bare
  <2>2. r.headers = b.request.headers /\ r.body = body
    BY <2>1 DEF IsRequest
  <2> HIDE DEF r
  <2> QED BY <2>1, <2>2, BodyFramed
<1> HIDE DEF r
<1> QED BY <1>1, <1>2, RequestFramed

\* RequestBuilder::multipart declares what its form sends.
LEMMA MultipartFramed ==
  ASSUME NEW b, IsBuilder(b), BareBuilder(b), NEW f, NEW sz, NEW sh, SizedForm(f, sz, sh)
  PROVE  FramedBuilder(multipart(b, f), sz, sh)
<1> DEFINE n == compute_length(f)
           typed == or_insert(b.request.headers, "content-type", "multipart/form-data")
           sized == IF n = None THEN typed ELSE or_insert(typed, "content-length", n)
           body == form_stream(f)
           r == [b.request EXCEPT !.headers = sized, !.body = body]
<1>1. multipart(b, f) = IF b.error # None THEN b ELSE [b EXCEPT !.request = r]
  BY DEF multipart, OnOk
<1>2. body.kind \in {"full", "stream"}
  BY DEF form_stream, Full, wrap_stream
<1>3. ASSUME b.error = None PROVE Framed(r, sz, sh)
  <2>1. IsRequest(b.request) /\ CL \notin Names(b.request.headers)
    BY <1>3 DEF IsBuilder, BareBuilder, Bare
  <2>2. CL \notin Names(typed) /\ IsHeaderMap(typed)
    <3>1. "content-type" # CL
      BY DEF CL
    <3> QED BY <2>1, <3>1, OtherValues, InsertMap DEF IsRequest
  <2>3. r.headers = sized /\ BodyOf(r) = body
    <3> HIDE DEF sized, body
    <3>1. r.headers = sized /\ r.body = body
      BY <2>1 DEF IsRequest
    <3> HIDE DEF r
    <3> QED BY <1>2, <3>1 DEF BodyOf
  <2> HIDE DEF typed, r
  <2>4. CASE n = None
    <3>1. f.fields # <<>>
      <4>1. ASSUME f.fields = <<>> PROVE FALSE
        <5>1. Len(f.fields) = 0 /\ DOMAIN f.fields = 1 .. Len(f.fields) /\ Len(f.fields) \in Nat
          BY <4>1
        <5>2. FoldLeft(LAMBDA sum, field : sum + LengthOf(f, field), 0, f.fields)
              = Upto("lengths", f, 0, f.fields, Len(f.fields))
          BY <5>1, LengthsFold
        <5>3. OneByOne("lengths", f, 0, f.fields)
          BY <5>1, FoldSteps
        <5>5. Upto("lengths", f, 0, f.fields, Len(f.fields)) = 0
          BY <5>1, <5>3 DEF OneByOne
        <5>6. FoldLeft(LAMBDA sum, field : sum + LengthOf(f, field), 0, f.fields) = 0
          BY <5>2, <5>5
        <5>7. ~\E i \in DOMAIN f.fields : value_len(f.fields[i].part) = None
          BY <5>1
        <5>4. n = 0 + (IF f.fields = <<>> THEN 0 ELSE 2 + f.boundary + 4)
          BY <5>6, <5>7 DEF compute_length, LengthOf
        <5> HIDE DEF n
        <5> QED BY <2>4, <4>1, <5>4, BodiesAreMeasured
      <4> QED BY <4>1
    <3>2. content_length(body) = None
      BY <3>1 DEF form_stream, wrap_stream, content_length
    <3>3. CL \notin Names(r.headers)
      BY <2>2, <2>3, <2>4
    <3> HIDE DEF n, body
    <3> QED BY <2>3, <3>2, <3>3, StreamFramed
  <2>5. CASE n # None
    <3>1. Measured(body.pieces, n, sz, sh)
      BY <2>5, FormMeasured
    <3>2. sized = insert(typed, CL, n)
      BY <2>2, <2>5 DEF or_insert, CL
    <3>3. Values(sized, CL) = <<n>>
      <4> HIDE DEF n, sized
      <4>1. ValuesSet(insert(typed, CL, n), typed, CL, <<n>>)
        BY <2>2, InsertMap
      <4> QED BY <3>2, <4>1 DEF ValuesSet
    <3> HIDE DEF n, sized, body
    <3> QED BY <2>3, <3>1, <3>3, LengthFramed
  <2> QED BY <2>4, <2>5
<1> HIDE DEF r
<1> QED BY <1>1, <1>3, RequestFramed

\* tlsurl-core's upload::file_body: the length of the file is declared and no
\* more is taken.
LEMMA UploadFramed ==
  ASSUME NEW b, IsBuilder(b), BareBuilder(b), NEW f \in Files, NEW sz, NEW sh,
         sz \in [Files -> Nat]
  PROVE  FramedBuilder(set_body(header_sensitive(b, CL, sz[f]), file_body(f, sz[f])), sz, sh)
<1> DEFINE n == sz[f]
           body == file_body(f, n)
           h == append(b.request.headers, CL, n)
           r == [b.request EXCEPT !.headers = h]
           q == [b.request EXCEPT !.headers = h, !.body = body]
           g == set_body(header_sensitive(b, CL, n), body)
<1>1. n \in Nat /\ n # Illegal
  BY BodiesAreMeasured
<1>2. g = IF b.error # None THEN b ELSE [b EXCEPT !.request = q]
  <2>1. header_sensitive(b, CL, n) = IF b.error # None THEN b ELSE [b EXCEPT !.request = r]
    BY <1>1 DEF header_sensitive, OnOk
  <2>2. CASE b.error # None
    BY <2>1, <2>2 DEF set_body, OnOk
  <2>3. CASE b.error = None
    <3> DEFINE d == [b EXCEPT !.request = r]
    <3>1. d.error = None /\ d.request = r /\ DOMAIN d = {"request", "error"}
      BY <2>3 DEF IsBuilder
    <3>2. set_body(d, body) = [d EXCEPT !.request = [r EXCEPT !.body = body]]
      <4> HIDE DEF d, body, r
      <4> QED BY <3>1 DEF set_body, OnOk
    <3>3. [r EXCEPT !.body = body] = q
      <4> HIDE DEF h, body
      <4> QED BY <2>3 DEF IsBuilder, IsRequest
    <3>4. [d EXCEPT !.request = q] = [b EXCEPT !.request = q]
      <4> HIDE DEF q, r
      <4> QED BY <2>3 DEF IsBuilder
    <3> HIDE DEF q, r, body, d
    <3> QED BY <2>1, <2>3, <3>2, <3>3, <3>4 DEF d
  <2> QED BY <2>2, <2>3
<1>3. ASSUME b.error = None PROVE Framed(q, sz, sh)
  <2>1. IsRequest(b.request) /\ CL \notin Names(b.request.headers)
    BY <1>3 DEF IsBuilder, BareBuilder, Bare
  <2>2. Values(h, CL) = <<n>>
    <3>1. Values(b.request.headers, CL) = <<>>
      BY <2>1 DEF Values
    <3>2. h = set_values(b.request.headers, CL, <<n>>)
      <4> HIDE DEF n
      <4> QED BY <3>1 DEF append
    <3>3. ValuesSet(set_values(b.request.headers, CL, <<n>>), b.request.headers, CL, <<n>>)
      BY <2>1, SetValues DEF IsRequest
    <3> HIDE DEF h
    <3> QED BY <3>2, <3>3 DEF ValuesSet
  <2> DEFINE p == [file |-> f, take |-> n]
  <2>3. body.kind = "stream" /\ body.pieces = <<p>>
    BY DEF file_body, wrap_stream
  <2>4. Piece(p, sz, sh) /\ p.take = n
    BY <1>1 DEF Piece
  <2>5. Measured(<<p>>, n, sz, sh)
    <3> HIDE DEF p, n
    <3>1. Measured(Append(<<>>, p), 0 + p.take, sz, sh)
      BY <2>4, NothingMeasured, MeasuredGrows
    <3>2. Append(<<>>, p) = <<p>> /\ 0 + p.take = n
      BY <1>1, <2>4
    <3> QED BY <3>1, <3>2
  <2> HIDE DEF h, body, n
  <2>6. q.headers = h /\ q.body = body
    BY <2>1 DEF IsRequest
  <2> HIDE DEF q
  <2>7. BodyOf(q) = body
    BY <2>3, <2>6 DEF BodyOf
  <2> QED BY <2>2, <2>3, <2>5, <2>6, <2>7, LengthFramed
<1> HIDE DEF q
<1> QED BY <1>2, <1>3, RequestFramed DEF g

-----------------------------------------------------------------------------
(* Builders before a body.                                                 *)

Blank(b) == IsBuilder(b) /\ BareBuilder(b)

LEMMA BlankKept ==
  ASSUME NEW b, Blank(b), NEW n, NEW v
  PROVE  Blank(set_option(b, n, v)) /\ (n # CL => Blank(header_sensitive(b, n, v)))
<1>1. Blank(set_option(b, n, v))
  BY OptionKeeps, OptionSet, BuilderKept DEF Blank
<1>2. ASSUME n # CL PROVE Blank(header_sensitive(b, n, v))
  BY <1>2, HeaderKeeps, HeaderSensitive, BuilderKept DEF Blank
<1> QED BY <1>1, <1>2

LEMMA BlankAuth ==
  ASSUME NEW b, Blank(b), NEW token
  PROVE  Blank(auth(b, token))
<1>1. "authorization" # CL
  BY DEF CL
<1> QED BY <1>1, BlankKept DEF auth

LEMMA NewIsBlank ==
  ASSUME NEW method, NEW uri
  PROVE  Blank(NewBuilder(method, uri))
<1>1. ASSUME NEW u PROVE Blank(Ok(NewRequest(method, u)))
  <2> DEFINE r == NewRequest(method, u)
             b == Ok(r)
  <2>1. IsRequest(r) /\ r.headers = <<>> /\ r.body = NoBody
    BY EmptyMap DEF IsRequest, NewRequest
  <2> HIDE DEF r
  <2>2. Names(<<>>) = {}
    BY DEF Names
  <2>3. b.request = r /\ DOMAIN b = {"request", "error"}
    BY DEF Ok
  <2>4. Bare(r)
    BY <2>1, <2>2 DEF Bare
  <2> HIDE DEF b
  <2>5. Blank(b)
    BY <2>1, <2>3, <2>4 DEF Blank, IsBuilder, BareBuilder
  <2> QED BY <2>5 DEF b, r
<1>2. Blank([request |-> None, error |-> Error("Builder", {"BadScheme"})])
  BY NoneIsNoError DEF Blank, IsBuilder, BareBuilder
<1>3. \/ NewBuilder(method, uri) = [request |-> None, error |-> Error("Builder", {"BadScheme"})]
      \/ NewBuilder(method, uri) = Ok(NewRequest(method, uri))
      \/ NewBuilder(method, uri)
           = auth(Ok(NewRequest(method, extract_authority(uri))),
                  [scheme |-> "Basic", token |-> uri.user])
  BY Zenon DEF NewBuilder, basic_auth
<1> QED BY <1>1, <1>2, <1>3, BlankAuth

LEMMA BlankLines ==
  ASSUME NEW b, Blank(b), NEW lines, IsList(lines), \A i \in DOMAIN lines : lines[i][1] # CL
  PROVE  Blank(AddHeaders(b, lines))
BY LinesKeep, HeadersAdded, BuilderKept DEF Blank

\* The lines of a call are the caller's and at most a Content-Type.
LEMMA LinesPassed ==
  ASSUME NEW s, IsList(s.headers), \A i \in DOMAIN s.headers : s.headers[i][1] # CL
  PROVE  /\ IsList(PassedHeaders(s))
         /\ \A i \in DOMAIN PassedHeaders(s) : PassedHeaders(s)[i][1] # CL
<1>1. \/ PassedHeaders(s) = s.headers
      \/ \E type : PassedHeaders(s) = Append(s.headers, <<"content-type", type>>)
  BY Zenon DEF PassedHeaders
<1>2. ASSUME NEW type
      PROVE  LET g == Append(s.headers, <<"content-type", type>>)
             IN  IsList(g) /\ \A i \in DOMAIN g : g[i][1] # CL
  <2> DEFINE x == <<"content-type", type>>
             g == Append(s.headers, x)
             l == Len(s.headers)
  <2>1. x[1] # CL
    BY DEF CL
  <2> HIDE DEF x
  <2>2. /\ IsList(g) /\ DOMAIN g = 1 .. l + 1 /\ g[l + 1] = x
        /\ \A i \in 1 .. l : g[i] = s.headers[i]
    BY ListGrows
  <2>3. l \in Nat /\ DOMAIN s.headers = 1 .. l
    BY ListIsSeq
  <2> HIDE DEF g
  <2>4. ASSUME NEW i \in DOMAIN g PROVE g[i][1] # CL
    <3>1. i = l + 1 \/ i \in 1 .. l
      BY <2>2, <2>3
    <3>2. CASE i = l + 1
      BY <2>1, <2>2, <3>2
    <3>3. CASE i \in 1 .. l
      <4>1. g[i] = s.headers[i] /\ i \in DOMAIN s.headers
        BY <2>2, <2>3, <3>3
      <4> QED BY <4>1
    <3> QED BY <3>1, <3>2, <3>3
  <2> QED BY <2>2, <2>4 DEF g, x
<1> QED BY <1>1, <1>2

\* stream_with_options up to its first await.
LEMMA PreparedBlank ==
  ASSUME NEW s, IsList(s.headers), \A i \in DOMAIN s.headers : s.headers[i][1] # CL
  PROVE  Blank(Prepared(s))
<1> DEFINE new == NewBuilder("POST", s.uri)
           timed == WithTimeout(new, s.timeout)
           limited == IF s.max_redirects = None THEN timed ELSE redirect(timed, s.max_redirects)
           basic == IF s.basic_auth = None THEN limited ELSE basic_auth(limited, s.basic_auth)
           bearer == IF s.bearer_token = None THEN basic ELSE bearer_auth(basic, s.bearer_token)
           lines == PassedHeaders(s)
<1>1. Blank(timed)
  BY NewIsBlank, BlankKept DEF WithTimeout, timeout
<1>2. Prepared(s) = WithHeaders(bearer, lines)
  BY DEF Prepared
<1> HIDE DEF timed, lines
<1>3. Blank(limited)
  <2>1. limited = timed \/ \E v : limited = set_option(timed, "redirect", v)
    BY Zenon DEF redirect
  <2> HIDE DEF limited
  <2> QED BY <1>1, <2>1, BlankKept
<1> HIDE DEF limited
<1>4. Blank(basic)
  BY <1>3, BlankAuth DEF basic_auth
<1> HIDE DEF basic
<1>5. Blank(bearer)
  BY <1>4, BlankAuth DEF bearer_auth
<1> HIDE DEF bearer
<1>6. Blank(AddHeaders(bearer, lines))
  BY <1>5, LinesPassed, BlankLines DEF lines
<1>7. \/ WithHeaders(bearer, lines) = bearer
      \/ \E v : WithHeaders(bearer, lines)
                  = set_option(AddHeaders(bearer, lines), "orig_headers", v)
  BY Zenon DEF WithHeaders, orig_headers
<1> QED BY <1>2, <1>5, <1>6, <1>7, BlankKept

-----------------------------------------------------------------------------
(* The handshake and the client's defaults.                                *)

\* WebSocketRequestBuilder::send: what it inserts is no length and no body.
LEMMA SocketKeeps ==
  ASSUME NEW b, IsBuilder(b), NEW protocols, NEW c, ws_send(b, protocols, c).error = None
  PROVE  b.error = None /\ SameFraming(ws_send(b, protocols, c).request, b.request)
<1> DEFINE r0 == b.request
           v == Option(r0, "version")
           h1 == insert(r0.headers, "sec-websocket-version", "13")
           h2 == insert(h1, "upgrade", "websocket")
           h3 == insert(h2, "connection", "upgrade")
           h4 == insert(h3, Key, c)
           common == [r0 EXCEPT !.uri.scheme = http_scheme(r0.uri.scheme), !.headers = h1]
           http1 == [common EXCEPT !.method = "GET", !.headers =
                         insert(insert(insert(common.headers, "upgrade", "websocket"),
                                       "connection", "upgrade"), Key, c),
                         !.options = With(common.options, "version", "HTTP/1.1")]
           http2 == [common EXCEPT !.method = "CONNECT"]
           Offered(r) == IF protocols = <<>> THEN r
                         ELSE [r EXCEPT !.headers =
                                   insert(r.headers, "sec-websocket-protocol", protocols)]
           Others(h) == /\ IsHeaderMap(h)
                        /\ CL \in Names(h) <=> CL \in Names(r0.headers)
                        /\ Values(h, CL) = Values(r0.headers, CL)
           D == {"method", "uri", "headers", "body", "options"}
           g == ws_send(b, protocols, c)
<1>0. SUFFICES b.error = None /\ SameFraming(g.request, r0)
  OBVIOUS
<1>1. b.error = None /\ IsRequest(r0)
  <2>1. b.error # None => g = b
    BY DEF ws_send
  <2> QED BY <2>1 DEF IsBuilder
<1>2. \/ g = [b EXCEPT !.request = Offered(http1)]
      \/ g = [b EXCEPT !.request = Offered(http2)]
      \/ g = Err(b, Error("Upgrade", {}))
  BY <1>1 DEF ws_send, OnOk, Key
<1>3. g # Err(b, Error("Upgrade", {}))
  <2>1. Err(b, Error("Upgrade", {})).error = Error("Upgrade", {})
    BY DEF Err, IsBuilder
  <2> QED BY <2>1, NoneIsNoError
<1>4. \A h, n, w : Others(h) /\ n # CL => Others(insert(h, n, w))
  <2>1. ASSUME NEW h, NEW n, NEW w, Others(h), n # CL PROVE Others(insert(h, n, w))
    <3>1. IsHeaderMap(insert(h, n, w))
      BY <2>1, InsertMap
    <3>2. /\ CL \in Names(insert(h, n, w)) <=> CL \in Names(h)
          /\ Values(insert(h, n, w), CL) = Values(h, CL)
      BY <2>1, OtherValues
    <3> QED BY <2>1, <3>1, <3>2
  <2> QED BY <2>1
<1>5. Others(r0.headers)
  BY <1>1 DEF IsRequest
<1> HIDE DEF Others
<1>6. Others(h1)
  <2>1. "sec-websocket-version" # CL
    BY DEF CL
  <2> QED BY <1>4, <1>5, <2>1
<1>7. Others(h4)
  <2> HIDE DEF h1
  <2>1. "upgrade" # CL /\ "connection" # CL /\ Key # CL
    BY DEF CL, Key
  <2> QED BY <1>4, <1>6, <2>1
<1>8. DOMAIN common = D /\ common.headers = h1 /\ common.body = r0.body
  BY <1>1 DEF IsRequest
<1>9. DOMAIN http1 = D /\ http1.headers = h4 /\ http1.body = r0.body
  <2> HIDE DEF common, h1
  <2> QED BY <1>8
<1>10. DOMAIN http2 = D /\ http2.headers = h1 /\ http2.body = r0.body
  <2> HIDE DEF common, h1
  <2> QED BY <1>8
<1> HIDE DEF http1, http2, h1, h4, g
<1>11. ASSUME NEW r, DOMAIN r = D, Others(r.headers), r.body = r0.body
       PROVE  SameFraming(Offered(r), r0)
  <2>1. /\ Offered(r).body = r.body
        /\ \/ Offered(r).headers = r.headers
           \/ Offered(r).headers = insert(r.headers, "sec-websocket-protocol", protocols)
    BY <1>11
  <2>2. "sec-websocket-protocol" # CL
    BY DEF CL
  <2>3. Others(Offered(r).headers)
    BY <1>4, <1>11, <2>1, <2>2
  <2> HIDE DEF Offered
  <2> QED BY <1>11, <2>1, <2>3 DEF SameFraming, Others
<1> HIDE DEF Offered
<1>12. SameFraming(Offered(http1), r0) /\ SameFraming(Offered(http2), r0)
  BY <1>6, <1>7, <1>9, <1>10, <1>11
<1>13. g.request = Offered(http1) \/ g.request = Offered(http2)
  BY <1>2, <1>3 DEF IsBuilder
<1> QED BY <1>1, <1>12, <1>13

\* ConfigService: the client's defaults declare no length.
LEMMA ConfigFraming ==
  ASSUME NEW config, IsHeaderMap(config.headers), CL \notin Names(config.headers),
         NEW r, IsRequest(r)
  PROVE  SameFraming(config_call(config, r), r)
<1> DEFINE merged == IF Option(r, "default_headers") = FALSE THEN r.headers
                     ELSE replace_headers(config.headers, r.headers)
           orig == IF Option(r, "orig_headers") = None THEN config.orig_headers
                   ELSE Option(r, "orig_headers")
           q == [r EXCEPT !.headers = merged, !.options = With(r.options, "orig_headers", orig)]
<1>1. config_call(config, r) = q
  BY DEF config_call
<1>2. /\ CL \in Names(merged) <=> CL \in Names(r.headers)
      /\ Values(merged, CL) = Values(r.headers, CL)
  <2> DEFINE g == replace_headers(config.headers, r.headers)
  <2>1. merged = r.headers \/ merged = g
    OBVIOUS
  <2> HIDE DEF merged
  <2>2. /\ CL \in Names(r.headers) => CL \in Names(g) /\ Values(g, CL) = Values(r.headers, CL)
        /\ CL \notin Names(r.headers) =>
             /\ CL \in Names(g) <=> CL \in Names(config.headers)
             /\ Values(g, CL) = Values(config.headers, CL)
    BY Replaced DEF IsRequest
  <2> HIDE DEF g
  <2>3. CL \notin Names(r.headers) => Values(r.headers, CL) = <<>>
    BY DEF Values
  <2>4. Values(config.headers, CL) = <<>>
    BY DEF Values
  <2> QED BY <2>1, <2>2, <2>3, <2>4
<1> HIDE DEF merged, orig
<1>3. q.headers = merged /\ q.body = r.body
  BY DEF IsRequest
<1> HIDE DEF q
<1> QED BY <1>1, <1>2, <1>3 DEF SameFraming

\* The request of Client::websocket.
LEMMA SocketFramed ==
  ASSUME NEW c, NEW s, IsList(s.headers), \A i \in DOMAIN s.headers : s.headers[i][1] # CL,
         SocketOf(c, s).error = None, NEW sz, NEW sh
  PROVE  Framed(SocketOf(c, s).request, sz, sh)
<1> DEFINE timed == WithTimeout(NewBuilder("GET", s.uri), s.timeout)
           lines == AddHeaders(timed, s.headers)
           b == ws_new(lines)
<1>1. Blank(timed)
  BY NewIsBlank, BlankKept DEF WithTimeout, timeout
<1> HIDE DEF timed
<1>2. Blank(lines)
  BY <1>1, BlankLines
<1> HIDE DEF lines
<1>3. Blank(b)
  BY <1>2, BlankKept DEF ws_new, version
<1>4. SocketOf(c, s) = ws_send(b, s.protocols, c)
  BY DEF SocketOf, timed, lines
<1> HIDE DEF b
<1>5. b.error = None /\ SameFraming(SocketOf(c, s).request, b.request)
  BY <1>3, <1>4, SocketKeeps DEF Blank
<1>6. Bare(b.request)
  BY <1>3, <1>5 DEF Blank, BareBuilder
<1>7. Framed(b.request, sz, sh)
  BY <1>6, BareFramed
<1> QED BY <1>5, <1>7, FramingKept

-----------------------------------------------------------------------------
(* The calls of a program on its builder.                                  *)

\* A value in memory has the length of its bytes.
LEMMA MemoryField ==
  ASSUME NEW x, IsBody(x.part.value), x.part.body_length = None, NEW sz, NEW sh
  PROVE  SizedField(x, sz, sh)
<1> DEFINE n == content_length(x.part.value)
           p == Bytes(n)
<1>1. value_len(x.part) = n
  BY DEF value_len
<1>2. ASSUME n # None
      PROVE  x.part.value.pieces = <<p>> /\ Piece(p, sz, sh) /\ p.take = n
  <2>1. x.part.value.kind = "full"
    BY <1>2 DEF content_length
  <2>2. n \in Nat /\ x.part.value = Full(n)
    BY <2>1 DEF IsBody
  <2> HIDE DEF n
  <2>3. x.part.value.pieces = <<Bytes(n)>>
    BY <2>2 DEF Full
  <2> QED BY <2>2, <2>3 DEF Piece, Bytes
<1> HIDE DEF p, n
<1> QED BY <1>1, <1>2 DEF SizedField

LEMMA MemoryForm ==
  ASSUME NEW f, IsForm(f), NEW sz, NEW sh,
         \A i \in DOMAIN f.fields : f.fields[i].part.body_length = None
  PROVE  SizedForm(f, sz, sh)
<1>1. \A i \in DOMAIN f.fields : IsBody(f.fields[i].part.value)
  BY DEF IsForm, IsField
<1>2. \A i \in DOMAIN f.fields : SizedField(f.fields[i], sz, sh)
  BY <1>1, MemoryField
<1> QED BY <1>2 DEF SizedForm

Attaches(op) == op.name \in {"form", "json", "body", "multipart"}

LEMMA EmulationKeeps ==
  ASSUME NEW b, IsBuilder(b), NEW e, IsHeaderMap(e.headers), CL \notin Names(e.headers)
  PROVE  Keeps(emulation(b, e), b)
<1> DEFINE x == set_option(b, "emulation", e.tls)
           y == set_headers(x, e.headers)
           z == set_option(y, "orig_headers", e.orig)
<1>1. emulation(b, e) = z
  BY DEF emulation, orig_headers
<1>2. IsBuilder(x) /\ Keeps(x, b)
  BY OptionSet, OptionKeeps
<1> HIDE DEF x
<1>3. IsBuilder(y) /\ Keeps(y, x)
  BY <1>2, HeadersReplaced, ReplaceKeeps
<1> HIDE DEF y
<1>4. Keeps(z, y)
  BY <1>3, OptionKeeps
<1> HIDE DEF z
<1> QED BY <1>1, <1>2, <1>3, <1>4, KeepsTwice

\* A call that neither attaches a body nor declares a length keeps both; one
\* that attaches the first body declares its length.
LEMMA AppliedFramed ==
  ASSUME NEW b, IsBuilder(b), NEW i \in DOMAIN BuilderOps, ~Frames(BuilderOps[i])
  PROVE  /\ ~Attaches(BuilderOps[i]) => Keeps(Applied(b, BuilderOps[i]), b)
         /\ Attaches(BuilderOps[i]) /\ BareBuilder(b) =>
              \A sz, sh : FramedBuilder(Applied(b, BuilderOps[i]), sz, sh)
<1> DEFINE op == BuilderOps[i]
<1>0. /\ op.name \in OpNames /\ ~Frames(op)
      /\ op.name = "headers" => IsHeaderMap(op.value)
      /\ op.name = "emulation" => IsHeaderMap(op.value.headers)
      /\ op.name \in {"form", "json"} => op.value \in Nat \cup {Illegal}
      /\ op.name = "body" => IsBody(op.value)
      /\ op.name = "multipart" => IsForm(op.value)
  BY HeadersAreMaps, BodiesAreMeasured
<1> HIDE DEF op
<1> SUFFICES /\ ~Attaches(op) => Keeps(Applied(b, op), b)
             /\ Attaches(op) /\ BareBuilder(b) => \A sz, sh : FramedBuilder(Applied(b, op), sz, sh)
  BY DEF op
<1>1. CASE op.name = "header"
  <2>1. Applied(b, op) = header_sensitive(b, op.key, op.value)
    BY <1>1, Zenon DEF Applied
  <2>2. op.key # CL
    BY <1>0, <1>1 DEF Frames, CL
  <2>3. ~Attaches(op)
    BY <1>1 DEF Attaches
  <2> QED BY <2>1, <2>2, <2>3, HeaderKeeps
<1>2. CASE op.name = "headers"
  <2>1. Applied(b, op) = set_headers(b, op.value)
    BY <1>2, Zenon DEF Applied
  <2>2. CL \notin Names(op.value)
    BY <1>0, <1>2 DEF Frames, CL
  <2>3. ~Attaches(op)
    BY <1>2 DEF Attaches
  <2> QED BY <1>0, <1>2, <2>1, <2>2, <2>3, ReplaceKeeps
<1>3. CASE op.name = "auth"
  <2>1. Applied(b, op) = auth(b, op.value)
    BY <1>3, Zenon DEF Applied
  <2>2. "authorization" # CL
    BY DEF CL
  <2>3. ~Attaches(op)
    BY <1>3 DEF Attaches
  <2> QED BY <2>1, <2>2, <2>3, HeaderKeeps DEF auth
<1>4. CASE op.name \in {"default_headers", "version", "accept_encoding", "proxy"}
  <2>1. \/ Applied(b, op) = default_headers(b, op.value)
        \/ Applied(b, op) = version(b, op.value)
        \/ Applied(b, op) = accept_encoding(b, op.value)
        \/ Applied(b, op) = proxy(b, op.value)
    BY <1>4, Zenon DEF Applied
  <2>2. \E n : Applied(b, op) = set_option(b, n, op.value)
    BY <2>1, Zenon DEF default_headers, version, accept_encoding, proxy
  <2>3. ~Attaches(op)
    BY <1>4 DEF Attaches
  <2> QED BY <2>2, <2>3, OptionKeeps
<1>5. CASE op.name \in {"form", "json"}
  <2>1. Applied(b, op) = form(b, op.value) \/ Applied(b, op) = json(b, op.value)
    BY <1>5, Zenon DEF Applied
  <2>2. \E type : Applied(b, op) = encoded_body(b, type, op.value)
    BY <2>1, Zenon DEF form, json
  <2>3. Attaches(op)
    BY <1>5 DEF Attaches
  <2> QED BY <1>0, <1>5, <2>2, <2>3, EncodedFramed
<1>6. CASE op.name = "body"
  <2>1. Applied(b, op) = set_body(b, op.value)
    BY <1>6, Zenon DEF Applied
  <2>2. Attaches(op)
    BY <1>6 DEF Attaches
  <2> QED BY <1>0, <1>6, <2>1, <2>2, SetBodyFramed
<1>7. CASE op.name = "multipart"
  <2>1. Applied(b, op) = multipart(b, op.value)
    BY <1>7, Zenon DEF Applied
  <2>2. \A j \in DOMAIN op.value.fields : op.value.fields[j].part.body_length = None
    BY <1>0, <1>7 DEF Frames
  <2>3. \A sz, sh : SizedForm(op.value, sz, sh)
    BY <1>0, <1>7, <2>2, MemoryForm
  <2>4. Attaches(op)
    BY <1>7 DEF Attaches
  <2> QED BY <2>1, <2>3, <2>4, MultipartFramed
<1>8. CASE op.name = "query"
  <2>1. Applied(b, op) = query(b, op.value)
    BY <1>8, Zenon DEF Applied
  <2>2. ~Attaches(op)
    BY <1>8 DEF Attaches
  <2> QED BY <2>1, <2>2, QueryKeeps
<1>9. CASE op.name = "emulation"
  <2>1. Applied(b, op) = emulation(b, op.value)
    BY <1>9, Zenon DEF Applied
  <2>2. CL \notin Names(op.value.headers)
    BY <1>0, <1>9 DEF Frames, CL
  <2>3. ~Attaches(op)
    BY <1>9 DEF Attaches
  <2> QED BY <1>0, <1>9, <2>1, <2>2, <2>3, EmulationKeeps
<1> QED BY <1>0, <1>1, <1>2, <1>3, <1>4, <1>5, <1>6, <1>7, <1>8, <1>9 DEF OpNames

-----------------------------------------------------------------------------
(* The body of a call of the bindings.                                     *)

\* The parts of a form, one more.
LEMMA FieldAdded ==
  ASSUME NEW f, NEW sz, NEW sh, SizedForm(f, sz, sh),
         DOMAIN f = {"boundary", "fields", "percent_encoding"},
         NEW name, NEW part, IsField([name |-> name, part |-> part]),
         SizedField([name |-> name, part |-> part], sz, sh)
  PROVE  /\ SizedForm(add_part(f, name, part), sz, sh)
         /\ DOMAIN add_part(f, name, part) = DOMAIN f
<1> DEFINE x == [name |-> name, part |-> part]
           l == Len(f.fields)
           grown == Append(f.fields, x)
           g == [f EXCEPT !.fields = grown]
<1>1. add_part(f, name, part) = g
  BY DEF add_part
<1>2. IsField(x) /\ SizedField(x, sz, sh)
  OBVIOUS
<1> HIDE DEF x
<1>3. IsList(f.fields) /\ l \in Nat /\ DOMAIN f.fields = 1 .. l
  BY ListIsSeq DEF SizedForm, IsForm
<1>4. /\ IsList(grown) /\ DOMAIN grown = 1 .. l + 1 /\ grown[l + 1] = x
      /\ \A i \in 1 .. l : grown[i] = f.fields[i]
  BY <1>3, ListGrows
<1> HIDE DEF grown
<1>5. ASSUME NEW i \in DOMAIN grown PROVE IsField(grown[i]) /\ SizedField(grown[i], sz, sh)
  <2>1. i = l + 1 \/ i \in 1 .. l
    BY <1>3, <1>4
  <2>2. CASE i = l + 1
    BY <1>2, <1>4, <2>2
  <2>3. CASE i \in 1 .. l
    <3>1. grown[i] = f.fields[i] /\ i \in DOMAIN f.fields
      BY <1>3, <1>4, <2>3
    <3> QED BY <3>1 DEF SizedForm, IsForm
  <2> QED BY <2>1, <2>2, <2>3
<1>6. g.fields = grown /\ g.boundary = f.boundary /\ DOMAIN g = DOMAIN f
  OBVIOUS
<1> HIDE DEF g
<1>7. g.boundary \in Nat
  BY <1>6 DEF SizedForm, IsForm
<1>8. SizedForm(g, sz, sh)
  BY <1>4, <1>5, <1>6, <1>7 DEF SizedForm, IsForm
<1> QED BY <1>1, <1>6, <1>8

LEMMA RegularFile ==
  ASSUME NEW f, IsPath(f), f # None, FileError(f) = None
  PROVE  f \in Files
<1>1. f # "missing" /\ f # "directory"
  <2>1. f = "missing" => FileError(f) = "FILE_IO"
    BY Zenon DEF FileError
  <2>2. f = "directory" => FileError(f) = "INVALID_REQUEST"
    BY DEF FileError
  <2> QED BY <2>1, <2>2, NoneIsNoCode
<1> QED BY <1>1 DEF IsPath

\* A descriptor becomes a part whose length is known.
LEMMA PartSized ==
  ASSUME NEW p, IsDescriptor(p), (p.data # None) # (p.file # None),
         p.file # None => FileError(p.file) = None, p.content_type # Illegal,
         size \in [Files -> Nat], NEW sh
  PROVE  LET x == [name |-> p.name, part |-> PartOf(p)]
         IN  IsField(x) /\ SizedField(x, size, sh)
<1> DEFINE value == IF p.file = None THEN Full(p.data) ELSE file_body(p.file, size[p.file])
           length == IF p.file = None THEN None ELSE size[p.file]
           part == PartOf(p)
           x == [name |-> p.name, part |-> part]
<1>1. /\ part.value = value /\ part.body_length = length
      /\ part.file_name = p.filename /\ part.mime = p.content_type
  <2>1. CASE p.file = None
    BY <2>1 DEF PartOf, mime, file_name, part_bytes, NewPart
  <2>2. CASE p.file # None
    BY <2>2 DEF PartOf, mime, file_name, stream_with_length, NewPart
  <2> QED BY <2>1, <2>2
<1> HIDE DEF part
<1>2. x.part = part /\ x.name = p.name
  OBVIOUS
<1> HIDE DEF x
<1>3. /\ p.name.len \in Nat /\ p.name.special \in Nat
      /\ p.filename \in Nat \cup {None} /\ p.content_type \in Nat \cup {None}
      /\ p.data \in Nat \cup {None}
  BY DEF IsDescriptor
<1>4. CASE p.file = None
  <2>1. p.data \in Nat /\ value = Full(p.data) /\ length = None
    BY <1>3, <1>4
  <2> HIDE DEF value, length
  <2>2. IsBody(value)
    BY <2>1 DEF IsBody, Full, content_length, Bytes
  <2>3. IsField(x)
    BY <1>1, <1>2, <1>3, <2>1, <2>2 DEF IsField
  <2>4. SizedField(x, size, sh)
    BY <1>1, <1>2, <2>1, <2>2, MemoryField
  <2> QED BY <2>3, <2>4 DEF x, part
<1>5. CASE p.file # None
  <2> DEFINE f == p.file
             n == size[f]
             q == [file |-> f, take |-> n]
  <2>1. f \in Files
    BY <1>5, RegularFile DEF IsDescriptor
  <2>2. n \in Nat
    BY <2>1
  <2>3. value = file_body(f, n) /\ length = n
    BY <1>5
  <2> HIDE DEF value, length
  <2>4. value.kind = "stream" /\ value.pieces = <<q>>
    BY <2>3 DEF file_body, wrap_stream
  <2>5. Piece(q, size, sh) /\ q.take = n
    BY <2>1, <2>2 DEF Piece
  <2> HIDE DEF q, n
  <2>6. IsBody(value)
    BY <2>4 DEF IsBody
  <2>7. IsField(x)
    BY <1>1, <1>2, <1>3, <2>2, <2>3, <2>6 DEF IsField
  <2>8. value_len(x.part) = n
    <3>1. n # None
      BY <2>2, BodiesAreMeasured
    <3> QED BY <1>1, <1>2, <2>3, <3>1 DEF value_len
  <2>9. SizedField(x, size, sh)
    BY <1>1, <1>2, <2>4, <2>5, <2>8 DEF SizedField
  <2> QED BY <2>7, <2>9 DEF x, part
<1> QED BY <1>4, <1>5

LEMMA BodyPassed ==
  ASSUME NEW s \in Specs, s.multipart = None, PassedBody(s) # None
  PROVE  PassedBody(s) \in Nat
<1>1. {s.body, s.json, s.form} \subseteq Nat \cup {None}
  BY BodiesAreMeasured
<1>2. \/ s.json # None /\ PassedBody(s) = s.json
      \/ s.form # None /\ PassedBody(s) = s.form
      \/ s.multipart # None
      \/ PassedBody(s) = s.body
  BY DEF PassedBody
<1> QED BY <1>1, <1>2

\* The rest of stream_with_options: what is attached is what is declared.
LEMMA AttachedFramed ==
  ASSUME NEW r, r.spec \in Specs, Blank(r.builder), NEW sh, SizedForm(r.form, size, sh),
         size \in [Files -> Nat],
         r.spec.body_file # None => FileError(r.spec.body_file) = None
  PROVE  IsBuilder(Attached(r)) /\ FramedBuilder(Attached(r), size, sh)
<1> DEFINE b == r.builder
           f == r.spec.body_file
           n == PassedBody(r.spec)
<1>1. IsBuilder(b) /\ BareBuilder(b)
  BY DEF Blank
<1>2. \A d, body : IsBuilder(d) => IsBuilder(set_body(d, body))
  <2> SUFFICES ASSUME NEW d, IsBuilder(d), NEW body PROVE IsBuilder(set_body(d, body))
    OBVIOUS
  <2>1. d.error = None => IsHeaderMap(d.request.headers)
    BY DEF IsBuilder, IsRequest
  <2> QED BY <2>1, BodySet
<1>3. CASE r.spec.multipart # None
  <2>1. Attached(r) = multipart(b, r.form)
    BY <1>3 DEF Attached
  <2> QED BY <1>1, <2>1, MultipartFramed, MultipartBody
<1>4. CASE r.spec.multipart = None /\ f # None
  <2>1. Attached(r) = set_body(header_sensitive(b, CL, size[f]), file_body(f, size[f]))
    BY <1>4 DEF Attached, CL
  <2>2. f \in Files
    BY <1>4, BodiesAreMeasured, RegularFile
  <2>3. FramedBuilder(Attached(r), size, sh)
    BY <1>1, <2>1, <2>2, UploadFramed
  <2>4. IsBuilder(Attached(r))
    BY <1>1, <1>2, <2>1, HeaderSensitive
  <2> QED BY <2>3, <2>4
<1>5. CASE r.spec.multipart = None /\ f = None /\ n # None
  <2>1. Attached(r) = set_body(b, Full(n))
    BY <1>5 DEF Attached
  <2>2. n \in Nat
    BY <1>5, BodyPassed
  <2> HIDE DEF n
  <2>3. IsBody(Full(n))
    BY <2>2 DEF IsBody, Full, content_length, Bytes
  <2> QED BY <1>1, <1>2, <2>1, <2>3, SetBodyFramed
<1>6. CASE r.spec.multipart = None /\ f = None /\ n = None
  <2>1. Attached(r) = b
    BY <1>6 DEF Attached
  <2> QED BY <1>1, <2>1, BareIsFramed
<1> QED BY <1>3, <1>4, <1>5, <1>6

-----------------------------------------------------------------------------
(* The body goes out.                                                      *)

\* How much of a file one read returns.
LEMMA ReadAmount ==
  ASSUME NEW left \in Int, NEW room \in Int
  PROVE  LET n == Max({0, Min({left, room, ReadSize})})
         IN  n \in Nat /\ (n = 0 => left <= 0 \/ room <= 0) /\ (n # 0 => n <= room)
<1> DEFINE A == {left, room, ReadSize}
           least == Min(A)
           n == Max({0, least})
<1>1. ReadSize \in Nat /\ ReadSize > 0
  BY BodiesAreMeasured
<1>2. \E x \in A : \A y \in A : x <= y
  BY <1>1
<1>3. least \in A /\ \A y \in A : least <= y
  BY <1>2 DEF Min
<1>4. least \in Int /\ least <= room /\ (least = left \/ least = room \/ least = ReadSize)
  BY <1>1, <1>3
<1> HIDE DEF least
<1>5. \E x \in {0, least} : \A y \in {0, least} : x >= y
  BY <1>4
<1>6. n \in {0, least} /\ \A y \in {0, least} : n >= y
  BY <1>5 DEF Max
<1>7. n \in Nat /\ n >= least /\ (n = 0 \/ n = least)
  BY <1>4, <1>6
<1> HIDE DEF n
<1>8. n = 0 => left <= 0 \/ room <= 0
  BY <1>1, <1>4, <1>7
<1>9. n # 0 => n <= room
  BY <1>4, <1>7
<1> QED BY <1>7, <1>8, <1>9 DEF n, least

\* rest is what is left of s after its first k elements.
Suffix(rest, s, k) ==
    /\ k \in 0 .. Len(s)
    /\ IsList(rest) /\ Len(rest) = Len(s) - k
    /\ \A j \in 1 .. Len(rest) : rest[j] = s[k + j]

LEMMA SuffixTail ==
  ASSUME NEW s, IsList(s), NEW k, NEW rest, Suffix(rest, s, k), rest # <<>>
  PROVE  /\ k + 1 \in 1 .. Len(s) /\ Head(rest) = s[k + 1]
         /\ Suffix(Tail(rest), s, k + 1)
<1> DEFINE S == Range(rest)
           t == Tail(rest)
<1>0. Len(s) \in Nat /\ rest \in Seq(S) /\ k \in 0 .. Len(s)
  BY ListIsSeq DEF Suffix, IsList
<1> HIDE DEF S
<1>1. Len(rest) \in Nat /\ Len(rest) > 0 /\ Len(rest) = Len(s) - k
  BY <1>0 DEF Suffix
<1>2. k + 1 \in 1 .. Len(s) /\ 1 \in 1 .. Len(rest)
  BY <1>0, <1>1
<1>3. Head(rest) = rest[1] /\ rest[1] = s[k + 1]
  BY <1>0, <1>1, <1>2 DEF Suffix
<1>4. t \in Seq(S) /\ Len(t) = Len(rest) - 1 /\ DOMAIN t = 1 .. Len(t)
  BY <1>0, <1>1
<1>5. \A j \in 1 .. Len(t) : t[j] = rest[j + 1]
  BY <1>0, <1>1, <1>4
<1> HIDE DEF t
<1>6. Len(t) \in Nat /\ Len(t) = Len(s) - (k + 1)
  BY <1>0, <1>1, <1>4
<1>7. IsList(t)
  <2>1. t \in [1 .. Len(t) -> Range(t)]
    BY <1>4 DEF Range
  <2> QED BY <1>6, <2>1 DEF IsList
<1>8. ASSUME NEW j \in 1 .. Len(t) PROVE t[j] = s[(k + 1) + j]
  <2>1. j + 1 \in 1 .. Len(rest) /\ t[j] = rest[j + 1]
    BY <1>1, <1>4, <1>5
  <2>2. rest[j + 1] = s[k + (j + 1)]
    BY <2>1 DEF Suffix
  <2>3. k + (j + 1) = (k + 1) + j
    BY <1>0, <1>6
  <2> QED BY <2>1, <2>2, <2>3
<1>9. k + 1 \in 0 .. Len(s)
  BY <1>0, <1>2
<1>10. Suffix(t, s, k + 1)
  BY <1>6, <1>7, <1>8, <1>9 DEF Suffix
<1> QED BY <1>2, <1>3, <1>10 DEF t

\* k pieces of P are sent and `read` bytes of the next, a file; less only of
\* files that shrank.
At(r, P, T, k, sh) ==
    /\ Suffix(r.pieces, P, k)
    /\ r.read \in Nat /\ r.sent \in Nat
    /\ r.sent <= T[k] + r.read
    /\ sh = {} => r.sent = T[k] + r.read
    /\ r.read # 0 => k < Len(P) /\ P[k + 1].file # None /\ r.read <= P[k + 1].take

Writing(r, n, sz, sh) ==
    LET P == BodyOf(r.builder.request).pieces
    IN  /\ IsList(P) /\ \A i \in DOMAIN P : Piece(P[i], sz, sh)
        /\ \E T : IsSums(T, P, n) /\ \E k \in 0 .. Len(P) : At(r, P, T, k, sh)

\* The exchange starts with all of the body ahead.
LEMMA WritingBegins ==
  ASSUME NEW r, NEW n, NEW sz, NEW sh,
         Measured(BodyOf(r.builder.request).pieces, n, sz, sh),
         r.pieces = BodyOf(r.builder.request).pieces, r.read = 0, r.sent = 0
  PROVE  Writing(r, n, sz, sh)
<1> DEFINE P == BodyOf(r.builder.request).pieces
<1>1. IsList(P) /\ (\A i \in DOMAIN P : Piece(P[i], sz, sh)) /\ r.pieces = P
  BY DEF Measured
<1>2. PICK T : IsSums(T, P, n)
  BY DEF Measured
<1> HIDE DEF P
<1>3. Len(P) \in Nat
  BY <1>1, ListIsSeq
<1>4. Suffix(r.pieces, P, 0)
  <2>1. \A j \in 1 .. Len(P) : 0 + j = j
    BY <1>3
  <2> QED BY <1>1, <1>3, <2>1 DEF Suffix
<1>5. At(r, P, T, 0, sh)
  BY <1>2, <1>4 DEF At, IsSums
<1>6. 0 \in 0 .. Len(P)
  BY <1>3
<1> QED BY <1>1, <1>2, <1>5, <1>6 DEF Writing, P

\* WriteBody: the next bytes of the piece, or the next piece.
WritesOn(q, r) ==
    LET piece == Head(r.pieces)
        left == size[piece.file] - r.read
        room == IF piece.take = None THEN left ELSE piece.take - r.read
        n == Max({0, Min({left, room, ReadSize})})
    IN  \/ /\ piece.file = None
           /\ q.sent = r.sent + piece.take
           /\ q.pieces = Tail(r.pieces) /\ q.read = r.read
        \/ /\ piece.file # None /\ n = 0
           /\ q.sent = r.sent
           /\ q.pieces = Tail(r.pieces) /\ q.read = 0
        \/ /\ piece.file # None /\ n # 0
           /\ q.sent = r.sent + n
           /\ q.pieces = r.pieces /\ q.read = r.read + n

LEMMA WritingOn ==
  ASSUME NEW r, NEW q, NEW n, size \in [Files -> Nat], Writing(r, n, size, shrunk),
         r.pieces # <<>>, q.builder = r.builder, WritesOn(q, r)
  PROVE  Writing(q, n, size, shrunk)
<1> DEFINE P == BodyOf(r.builder.request).pieces
           piece == Head(r.pieces)
           left == size[piece.file] - r.read
           room == piece.take - r.read
           m == Max({0, Min({left, room, ReadSize})})
<1>1. /\ IsList(P) /\ (\A i \in DOMAIN P : Piece(P[i], size, shrunk))
      /\ P = BodyOf(q.builder.request).pieces
  BY DEF Writing
<1>T. PICK T : IsSums(T, P, n) /\ \E k \in 0 .. Len(P) : At(r, P, T, k, shrunk)
  BY DEF Writing
<1>2. PICK k \in 0 .. Len(P) : IsSums(T, P, n) /\ At(r, P, T, k, shrunk)
  BY <1>T
<1> HIDE DEF P
<1>3. /\ k + 1 \in 1 .. Len(P) /\ piece = P[k + 1] /\ Suffix(Tail(r.pieces), P, k + 1)
  BY <1>1, <1>2, SuffixTail DEF At
<1>4. Len(P) \in Nat /\ DOMAIN P = 1 .. Len(P) /\ k \in Nat
  BY <1>1, ListIsSeq
<1>5. Piece(piece, size, shrunk)
  BY <1>1, <1>3, <1>4
<1>6. piece.take \in Nat /\ piece.take # None /\ piece.file \in Files \cup {None}
  BY <1>5, BodiesAreMeasured DEF Piece
<1>7. k + 1 \in 0 .. Len(P) /\ (k + 1) - 1 = k
  BY <1>3, <1>4
<1>8. T[k] \in Nat /\ T[k + 1] \in Nat /\ T[k + 1] = T[k] + piece.take
  BY <1>2, <1>3, <1>7 DEF IsSums
<1>9. /\ r.read \in Nat /\ r.sent \in Nat
      /\ r.sent <= T[k] + r.read
      /\ shrunk = {} => r.sent = T[k] + r.read
      /\ r.read # 0 => piece.file # None /\ r.read <= piece.take
  BY <1>2, <1>3 DEF At
<1>10. \/ /\ piece.file = None /\ q.sent = r.sent + piece.take
          /\ q.pieces = Tail(r.pieces) /\ q.read = r.read
       \/ /\ piece.file # None /\ m = 0 /\ q.sent = r.sent
          /\ q.pieces = Tail(r.pieces) /\ q.read = 0
       \/ /\ piece.file # None /\ m # 0 /\ q.sent = r.sent + m
          /\ q.pieces = r.pieces /\ q.read = r.read + m
  BY <1>6 DEF WritesOn
<1>11. piece.file # None =>
         /\ m \in Nat /\ (m = 0 => left <= 0 \/ room <= 0) /\ (m # 0 => m <= room)
         /\ size[piece.file] \in Nat
         /\ shrunk = {} => piece.take <= size[piece.file]
  <2>1. SUFFICES ASSUME piece.file # None
                 PROVE  /\ m \in Nat /\ (m = 0 => left <= 0 \/ room <= 0) /\ (m # 0 => m <= room)
                        /\ size[piece.file] \in Nat
                        /\ shrunk = {} => piece.take <= size[piece.file]
    OBVIOUS
  <2>2. size[piece.file] \in Nat
    BY <1>6, <2>1
  <2>3. left \in Int /\ room \in Int
    BY <1>6, <1>9, <2>2
  <2>4. m \in Nat /\ (m = 0 => left <= 0 \/ room <= 0) /\ (m # 0 => m <= room)
    <3> HIDE DEF left, room
    <3> QED BY <2>3, ReadAmount
  <2>5. shrunk = {} => piece.take <= size[piece.file]
    BY <1>5, <2>1 DEF Piece
  <2> QED BY <2>2, <2>4, <2>5
<1> HIDE DEF m
<1>12. CASE /\ piece.file = None /\ q.sent = r.sent + piece.take
            /\ q.pieces = Tail(r.pieces) /\ q.read = r.read
  <2>1. r.read = 0
    BY <1>9, <1>12
  <2>2. /\ q.read = 0 /\ q.sent \in Nat /\ q.sent <= T[k + 1] + 0
        /\ shrunk = {} => q.sent = T[k + 1] + 0
    <3> HIDE DEF piece
    <3> QED BY <1>6, <1>8, <1>9, <1>12, <2>1
  <2>3. At(q, P, T, k + 1, shrunk)
    BY <1>3, <1>12, <2>2 DEF At
  <2> QED BY <1>1, <1>2, <1>7, <2>3 DEF Writing
<1>13. CASE /\ piece.file # None /\ m = 0 /\ q.sent = r.sent
            /\ q.pieces = Tail(r.pieces) /\ q.read = 0
  <2>1. /\ q.sent \in Nat /\ q.sent <= T[k + 1] + 0
        /\ shrunk = {} => q.sent = T[k + 1] + 0
    <3>1. r.read <= piece.take
      BY <1>6, <1>9
    <3>2. shrunk = {} => piece.take <= r.read
      <4>1. left <= 0 \/ room <= 0
        BY <1>11, <1>13
      <4>2. size[piece.file] <= r.read \/ piece.take <= r.read
        <5>1. size[piece.file] \in Nat
          BY <1>11, <1>13
        <5> HIDE DEF piece
        <5> QED BY <1>6, <1>9, <4>1, <5>1
      <4>3. shrunk = {} => piece.take <= size[piece.file] /\ size[piece.file] \in Nat
        BY <1>11, <1>13
      <4> HIDE DEF piece
      <4> QED BY <1>6, <1>9, <4>2, <4>3
    <3> HIDE DEF piece
    <3> QED BY <1>6, <1>8, <1>9, <1>13, <3>1, <3>2
  <2>2. At(q, P, T, k + 1, shrunk)
    BY <1>3, <1>13, <2>1 DEF At
  <2> QED BY <1>1, <1>2, <1>7, <2>2 DEF Writing
<1>14. CASE /\ piece.file # None /\ m # 0 /\ q.sent = r.sent + m
            /\ q.pieces = r.pieces /\ q.read = r.read + m
  <2>1. m \in Nat /\ m <= piece.take - r.read
    BY <1>11, <1>14
  <2>2. /\ q.read \in Nat /\ q.sent \in Nat /\ q.sent <= T[k] + q.read
        /\ shrunk = {} => q.sent = T[k] + q.read
        /\ q.read <= piece.take
    <3> HIDE DEF piece
    <3>1. q.read \in Nat /\ q.read <= piece.take
      BY <1>6, <1>9, <1>14, <2>1
    <3>2. q.sent \in Nat /\ q.sent <= T[k] + q.read
      BY <1>8, <1>9, <1>14, <2>1
    <3>3. shrunk = {} => q.sent = T[k] + q.read
      BY <1>8, <1>9, <1>14, <2>1
    <3> QED BY <3>1, <3>2, <3>3
  <2>3. k < Len(P)
    BY <1>3, <1>4
  <2>4. Suffix(q.pieces, P, k)
    BY <1>2, <1>14 DEF At
  <2>5. At(q, P, T, k, shrunk)
    BY <1>3, <1>14, <2>2, <2>3, <2>4 DEF At
  <2> QED BY <1>1, <1>2, <2>5 DEF Writing
<1> QED BY <1>10, <1>12, <1>13, <1>14

\* What is written stays within what is declared, and is all of it at the end.
LEMMA WritingBound ==
  ASSUME NEW r, NEW n, NEW sz, NEW sh, Writing(r, n, sz, sh)
  PROVE  /\ n \in Nat /\ r.sent \in Nat /\ r.sent <= n
         /\ r.pieces = <<>> /\ sh = {} => r.sent = n
<1> DEFINE P == BodyOf(r.builder.request).pieces
<1>1. IsList(P) /\ \A i \in DOMAIN P : Piece(P[i], sz, sh)
  BY DEF Writing
<1>T. PICK T : IsSums(T, P, n) /\ \E k \in 0 .. Len(P) : At(r, P, T, k, sh)
  BY DEF Writing
<1>2. PICK k \in 0 .. Len(P) : IsSums(T, P, n) /\ At(r, P, T, k, sh)
  BY <1>T
<1> HIDE DEF P
<1>3. Len(P) \in Nat /\ DOMAIN P = 1 .. Len(P) /\ k \in Nat
  BY <1>1, ListIsSeq
<1>4. /\ n \in Nat /\ T[k] \in Nat /\ T[k] <= n /\ T[Len(P)] = n
  BY <1>2, <1>3 DEF IsSums
<1>5. /\ r.read \in Nat /\ r.sent \in Nat
      /\ r.sent <= T[k] + r.read
      /\ sh = {} => r.sent = T[k] + r.read
      /\ r.read # 0 => k < Len(P) /\ r.read <= P[k + 1].take
  BY <1>2 DEF At
<1>6. CASE r.read = 0
  <2>1. r.sent <= n
    BY <1>4, <1>5, <1>6
  <2>2. ASSUME r.pieces = <<>>, sh = {} PROVE r.sent = n
    <3>1. Len(P) - k = 0
      <4>1. Len(r.pieces) = Len(P) - k
        BY <1>2 DEF At, Suffix
      <4>2. Len(<<>>) = 0
        OBVIOUS
      <4> QED BY <2>2, <4>1, <4>2
    <3>2. k = Len(P)
      <4>1. \A l, m \in Nat : l - m = 0 => m = l
        OBVIOUS
      <4>2. Len(P) \in Nat /\ k \in Nat
        BY <1>3
      <4> QED BY <3>1, <4>1, <4>2
    <3> QED BY <1>4, <1>5, <1>6, <2>2, <3>2
  <2> QED BY <1>4, <1>5, <2>1, <2>2
<1>7. CASE r.read # 0
  <2>1. k + 1 \in 1 .. Len(P) /\ k + 1 \in 0 .. Len(P) /\ (k + 1) - 1 = k
    BY <1>3, <1>5, <1>7
  <2>2. P[k + 1].take \in Nat /\ r.read <= P[k + 1].take
    BY <1>1, <1>3, <1>5, <1>7, <2>1 DEF Piece
  <2>3. T[k + 1] = T[k] + P[k + 1].take /\ T[k + 1] <= n /\ T[k + 1] \in Nat
    BY <1>2, <2>1 DEF IsSums
  <2>4. r.sent <= n
    BY <1>4, <1>5, <2>2, <2>3
  <2>5. r.pieces # <<>>
    <3>1. SUFFICES ASSUME r.pieces = <<>> PROVE FALSE
      OBVIOUS
    <3>2. Len(P) - k = 0
      BY <1>2, <3>1 DEF At, Suffix
    <3> QED BY <1>3, <1>5, <1>7, <3>2
  <2> QED BY <1>4, <1>5, <2>4, <2>5
<1> QED BY <1>6, <1>7

-----------------------------------------------------------------------------
(* BodyAsDeclared.                                                         *)

\* The caller answers for what it declares itself.
Own(r) ==
    \/ r.spec.api = "rust" /\ (r.bodies > 1 \/ r.framed)
    \/ ~HasFiles(r.spec) /\ \E i \in DOMAIN r.spec.headers : r.spec.headers[i][1] = CL

Over(r) ==
    \/ r.builder.request = None
    \/ \A n \in Declared(r.builder.request) : n \in Nat /\ r.sent \in Nat /\ r.sent <= n

\* A builder declares the length of its body, the parts of a form are as long
\* as it says, and a body that is being sent is where its pieces are.
BodyInv(r, sz, sh) ==
    /\ r.spec \in Specs /\ r.bodies \in Nat
    /\ IsHeaderMap(r.config.headers) /\ CL \notin Names(r.config.headers)
    /\ r.phase \in {"start", "building", "files"} => r.read = 0 /\ r.sent = 0
    /\ r.phase = "start" =>
         r.builder.request = None /\ r.form = NewForm /\ parts_valid(r.spec)
    /\ r.phase = "building" => r.spec.api = "rust"
    /\ r.phase = "building" /\ ~Own(r) =>
         /\ IsBuilder(r.builder) /\ FramedBuilder(r.builder, sz, sh)
         /\ r.bodies = 0 => BareBuilder(r.builder)
    /\ r.phase = "files" =>
         /\ parts_valid(r.spec)
         /\ SizedForm(r.form, sz, sh)
         /\ DOMAIN r.form = {"boundary", "fields", "percent_encoding"}
         /\ ~Own(r) => Blank(r.builder)
    /\ r.phase = "sending" /\ ~Own(r) =>
         \A n \in Declared(r.builder.request) : Writing(r, n, sz, sh)
    /\ r.phase \in {"head", "reading", "resolved", "handed"} /\ ~Own(r) => Over(r)

LEMMA OwnSame ==
  ASSUME NEW q, NEW r, q.spec = r.spec, q.bodies = r.bodies, q.framed = r.framed
  PROVE  Own(q) <=> Own(r)
BY DEF Own

LEMMA FramedOver ==
  ASSUME NEW r, NEW sz, NEW sh, FramedBuilder(r.builder, sz, sh), r.sent = 0
  PROVE  Over(r)
<1>1. ASSUME NEW n, NEW pieces, Measured(pieces, n, sz, sh) PROVE n \in Nat
  <2>1. IsList(pieces) /\ \E T : IsSums(T, pieces, n)
    BY <1>1 DEF Measured
  <2>2. Len(pieces) \in Nat
    BY <2>1, ListIsSeq
  <2> QED BY <2>1, <2>2 DEF IsSums
<1>2. CASE Framed(r.builder.request, sz, sh)
  <2>1. \A n \in Declared(r.builder.request) : n \in Nat
    BY <1>1, <1>2 DEF Framed
  <2> QED BY <2>1 DEF Over
<1>3. CASE r.builder.request = None
  BY <1>3 DEF Over
<1> QED BY <1>2, <1>3 DEF FramedBuilder

\* Wherever a call ends, it has written no more than it declared.
LEMMA BodyOver ==
  ASSUME NEW r, NEW sz, NEW sh, BodyInv(r, sz, sh), ~Own(r),
         r.phase \in Pending \cup {"building", "resolved", "handed"}
  PROVE  Over(r)
<1>1. CASE r.phase = "start"
  BY <1>1 DEF BodyInv, Over
<1>2. CASE r.phase = "building"
  <2>1. FramedBuilder(r.builder, sz, sh) /\ r.sent = 0
    BY <1>2 DEF BodyInv
  <2> QED BY <2>1, FramedOver
<1>3. CASE r.phase = "files"
  <2>1. BareBuilder(r.builder) /\ r.sent = 0
    BY <1>3 DEF BodyInv, Blank
  <2> QED BY <2>1, BareIsFramed, FramedOver
<1>4. CASE r.phase = "sending"
  <2>1. \A n \in Declared(r.builder.request) : Writing(r, n, sz, sh)
    BY <1>4 DEF BodyInv
  <2> QED BY <2>1, WritingBound DEF Over
<1>5. CASE r.phase \in {"head", "reading", "resolved", "handed"}
  BY <1>5 DEF BodyInv
<1> QED BY <1>1, <1>2, <1>3, <1>4, <1>5 DEF Pending

\* A step that leaves the request alone.
LEMMA BodyStill ==
  ASSUME NEW r, NEW q, NEW sz, NEW sh, BodyInv(r, sz, sh), SameCall(q, r), SameRequest(q, r),
         \/ q.phase = r.phase
         \/ q.phase = "settled"
         \/ /\ q.phase \in {"head", "reading", "resolved", "handed"}
            /\ r.phase \in Pending \cup {"building", "resolved", "handed"}
  PROVE  BodyInv(q, sz, sh)
<1>1. /\ q.spec = r.spec /\ q.config = r.config /\ q.bodies = r.bodies /\ q.framed = r.framed
      /\ q.form = r.form /\ q.builder = r.builder /\ q.pieces = r.pieces
      /\ q.read = r.read /\ q.sent = r.sent
  BY DEF SameCall, SameRequest
<1>2. Own(q) <=> Own(r)
  BY <1>1, OwnSame
<1>3. Over(q) <=> Over(r)
  BY <1>1 DEF Over
<1>4. \A n : Writing(q, n, sz, sh) <=> Writing(r, n, sz, sh)
  BY <1>1 DEF Writing, At
<1>5. CASE q.phase = r.phase
  BY <1>1, <1>2, <1>3, <1>4, <1>5 DEF BodyInv
<1>6. CASE q.phase = "settled"
  BY <1>1, <1>6 DEF BodyInv
<1>7. CASE /\ q.phase \in {"head", "reading", "resolved", "handed"}
           /\ r.phase \in Pending \cup {"building", "resolved", "handed"}
  <2>1. ~Own(q) => Over(q)
    BY <1>2, <1>3, <1>7, BodyOver
  <2> QED BY <1>1, <1>7, <2>1 DEF BodyInv
<1> QED BY <1>5, <1>6, <1>7

LEMMA BodyEnds ==
  ASSUME NEW r, NEW q, NEW sz, NEW sh, BodyInv(r, sz, sh),
         \/ /\ \E code : Resolves(q, r, code)
            /\ r.phase \in Pending \cup {"building", "resolved", "handed"}
         \/ \E code : Settles(q, r, code)
  PROVE  BodyInv(q, sz, sh)
BY BodyStill DEF Resolves, Settles

\* The exchange of a request starts.
LEMMA BodySent ==
  ASSUME NEW r, NEW q, NEW b, NEW sz, NEW sh, BodyInv(r, sz, sh), Sends(q, r, b),
         r.phase \in {"start", "building", "files"},
         ~Own(r) => IsRequest(b.request) /\ Framed(b.request, sz, sh)
  PROVE  BodyInv(q, sz, sh)
<1> DEFINE request == config_call(r.config, b.request)
<1>1. /\ q.spec = r.spec /\ q.config = r.config /\ q.bodies = r.bodies /\ q.framed = r.framed
      /\ q.phase = "sending" /\ q.read = 0 /\ q.sent = 0
      /\ q.builder.request = request /\ q.pieces = BodyOf(q.builder.request).pieces
  BY DEF Sends, Works, SameCall, Ok, BodyInv
<1>2. Own(q) <=> Own(r)
  BY <1>1, OwnSame
<1>3. ASSUME ~Own(q), NEW n \in Declared(q.builder.request) PROVE Writing(q, n, sz, sh)
  <2>1. SameFraming(request, b.request)
    BY <1>2, <1>3, ConfigFraming DEF BodyInv
  <2>2. Framed(request, sz, sh)
    BY <1>2, <1>3, <2>1, FramingKept
  <2> HIDE DEF request
  <2>3. Measured(BodyOf(q.builder.request).pieces, n, sz, sh)
    BY <1>1, <1>3, <2>2 DEF Framed
  <2> QED BY <1>1, <2>3, WritingBegins
<1> HIDE DEF request
<1> QED BY <1>1, <1>3 DEF BodyInv

LEMMA BodyBuilt ==
  ASSUME NEW c \in Calls, DOMAIN call = Calls, DOMAIN call[c] = Fields,
         NEW i \in DOMAIN BuilderOps, Build(c, BuilderOps[i]), BodyInv(call[c], size, shrunk)
  PROVE  BodyInv(call'[c], size, shrunk)
<1> DEFINE r == call[c]
           op == BuilderOps[i]
<1>1. PICK q : /\ StepTo(c, q) /\ Works(q, r) /\ q.phase = "building"
               /\ q.builder = Applied(r.builder, op)
               /\ q.bodies = IF Attaches(op) THEN r.bodies + 1 ELSE r.bodies
               /\ q.framed = (r.framed \/ Frames(op))
               /\ q.read = r.read /\ q.sent = r.sent
  BY BuildStep DEF Attaches
<1>2. r.phase = "building" /\ call'[c] = q
  BY <1>1 DEF Build, StepTo
<1>3. /\ q.spec = r.spec /\ q.config = r.config /\ r.spec.api = "rust"
      /\ r.bodies \in Nat /\ r.read = 0 /\ r.sent = 0
  BY <1>1, <1>2 DEF Works, SameCall, BodyInv
<1>4. q.bodies \in Nat
  BY <1>1, <1>3
<1>5. ASSUME ~Own(q)
      PROVE  /\ IsBuilder(q.builder) /\ FramedBuilder(q.builder, size, shrunk)
             /\ q.bodies = 0 => BareBuilder(q.builder)
  <2>1. ~(q.bodies > 1) /\ ~q.framed
    BY <1>3, <1>5 DEF Own
  <2>2. ~r.framed /\ ~Frames(op)
    BY <1>1, <2>1
  <2>3. ~(r.bodies > 1)
    BY <1>1, <1>3, <2>1
  <2>4. ~Own(r)
    BY <1>3, <1>5, <2>2, <2>3 DEF Own
  <2>5. /\ IsBuilder(r.builder) /\ FramedBuilder(r.builder, size, shrunk)
        /\ r.bodies = 0 => BareBuilder(r.builder)
    BY <1>2, <2>4 DEF BodyInv
  <2>6. IsBuilder(q.builder)
    BY <1>1, <2>5, BuilderApplied
  <2>7. CASE Attaches(op)
    <3>1. q.bodies = r.bodies + 1 /\ r.bodies = 0 /\ q.bodies # 0
      BY <1>1, <1>3, <2>1, <2>7
    <3>2. FramedBuilder(q.builder, size, shrunk)
      BY <1>1, <2>2, <2>5, <2>7, <3>1, AppliedFramed
    <3> QED BY <2>6, <3>1, <3>2
  <2>8. CASE ~Attaches(op)
    <3>1. Keeps(q.builder, r.builder) /\ q.bodies = r.bodies
      BY <1>1, <2>2, <2>5, <2>8, AppliedFramed
    <3> QED BY <2>5, <2>6, <3>1, BuilderKept
  <2> QED BY <2>7, <2>8
<1>6. BodyInv(q, size, shrunk)
  BY <1>1, <1>2, <1>3, <1>4, <1>5 DEF BodyInv
<1> QED BY <1>2, <1>6

LEMMA BodyRustSent ==
  ASSUME NEW c \in Calls, DOMAIN call = Calls, DOMAIN call[c] = Fields, RustSend(c),
         BodyInv(call[c], size, shrunk)
  PROVE  BodyInv(call'[c], size, shrunk)
<1> DEFINE r == call[c]
<1>1. PICK q, b : /\ StepTo(c, q) /\ r.phase = "building"
                  /\ b = IF r.spec.kind = "ws"
                         THEN ws_send(r.builder, r.spec.protocols, c) ELSE r.builder
                  /\ (\E code \in Codes : Resolves(q, r, code)) \/ Sends(q, r, b)
  BY RustSendStep
<1>2. call'[c] = q
  BY <1>1 DEF StepTo
<1>3. CASE \E code \in Codes : Resolves(q, r, code)
  BY <1>1, <1>2, <1>3, BodyEnds
<1>4. CASE Sends(q, r, b)
  <2>1. b.error = None
    BY <1>4 DEF Sends
  <2>2. ASSUME ~Own(r) PROVE IsRequest(b.request) /\ Framed(b.request, size, shrunk)
    <3>1. IsBuilder(r.builder) /\ FramedBuilder(r.builder, size, shrunk)
      BY <1>1, <2>2 DEF BodyInv
    <3>2. CASE r.spec.kind = "ws"
      <4>1. b = ws_send(r.builder, r.spec.protocols, c)
        BY <1>1, <3>2
      <4>2. r.builder.error = None /\ SameFraming(b.request, r.builder.request)
        BY <2>1, <3>1, <4>1, SocketKeeps
      <4>3. IsRequest(b.request)
        BY <2>1, <3>1, <4>1, SocketSend
      <4>4. Framed(r.builder.request, size, shrunk)
        BY <3>1, <4>2 DEF FramedBuilder
      <4> QED BY <4>2, <4>3, <4>4, FramingKept
    <3>3. CASE r.spec.kind # "ws"
      <4>1. b = r.builder
        BY <1>1, <3>3
      <4> QED BY <2>1, <3>1, <4>1 DEF IsBuilder, FramedBuilder
    <3> QED BY <3>2, <3>3
  <2>3. BodyInv(q, size, shrunk)
    BY <1>1, <1>4, <2>2, BodySent
  <2> QED BY <1>2, <2>3
<1> QED BY <1>1, <1>3, <1>4

\* A call of the bindings that declares a length itself, with a file, is refused.
LEMMA NoLength ==
  ASSUME NEW r, ~Own(r), r.spec \in Specs, r.spec.kind = "ws" \/ refusal(r.spec) = None
  PROVE  \A i \in DOMAIN r.spec.headers : r.spec.headers[i][1] # CL
<1>1. CASE ~HasFiles(r.spec)
  BY <1>1 DEF Own
<1>2. CASE HasFiles(r.spec)
  <2>1. r.spec.kind # "ws"
    BY <1>2, BodiesAreMeasured DEF HasFiles
  <2>2. refusal(r.spec) = None
    BY <2>1
  <2>3. ~\E i \in DOMAIN r.spec.headers : r.spec.headers[i][1] \in Framing
    BY <1>2, <2>2, NoneIsNoCode DEF refusal
  <2> QED BY <2>3 DEF Framing, CL
<1> QED BY <1>1, <1>2

LEMMA NewFormSized ==
  ASSUME NEW sz, NEW sh
  PROVE  SizedForm(NewForm, sz, sh) /\ DOMAIN NewForm = {"boundary", "fields", "percent_encoding"}
<1>1. IsList(<<>>) /\ DOMAIN <<>> = {}
  BY DEF IsList
<1>2. NewForm.fields = <<>> /\ NewForm.boundary = 38
  BY DEF NewForm, Boundary
<1>3. DOMAIN NewForm = {"boundary", "fields", "percent_encoding"}
  BY DEF NewForm
<1> QED BY <1>1, <1>2, <1>3 DEF SizedForm, IsForm

LEMMA BodyStarted ==
  ASSUME NEW c \in Calls, DOMAIN call = Calls, DOMAIN call[c] = Fields, Start(c),
         BodyInv(call[c], size, shrunk)
  PROVE  BodyInv(call'[c], size, shrunk)
<1> DEFINE r == call[c]
           s == r.spec
<1>1. PICK q : /\ StepTo(c, q) /\ r.phase = "start"
               /\ \/ \E code \in Codes : Resolves(q, r, code)
                  \/ s.kind = "ws" /\ Sends(q, r, SocketOf(c, s))
                  \/ /\ s.kind # "ws" /\ refusal(s) = None
                     /\ Works(q, r) /\ q.phase = "files" /\ q.builder = Prepared(s)
                     /\ q.bodies = r.bodies /\ q.framed = r.framed /\ q.form = r.form
                     /\ q.read = r.read /\ q.sent = r.sent
  BY StartStep
<1>2. call'[c] = q
  BY <1>1 DEF StepTo
<1>3. s \in Specs /\ IsList(s.headers)
  BY HeadersAreMaps DEF BodyInv
<1>4. CASE \E code \in Codes : Resolves(q, r, code)
  <2>1. r.phase \in Pending
    BY <1>1 DEF Pending
  <2> QED BY <1>2, <1>4, <2>1, BodyEnds
<1>5. CASE s.kind = "ws" /\ Sends(q, r, SocketOf(c, s))
  <2>1. SocketOf(c, s).error = None
    BY <1>5 DEF Sends
  <2>2. IsRequest(SocketOf(c, s).request)
    BY <1>3, <2>1, SocketKeyed
  <2>3. ~Own(r) => Framed(SocketOf(c, s).request, size, shrunk)
    BY <1>3, <1>5, <2>1, NoLength, SocketFramed
  <2>4. BodyInv(q, size, shrunk)
    BY <1>1, <1>5, <2>2, <2>3, BodySent
  <2> QED BY <1>2, <2>4
<1>6. CASE /\ s.kind # "ws" /\ refusal(s) = None
           /\ Works(q, r) /\ q.phase = "files" /\ q.builder = Prepared(s)
           /\ q.bodies = r.bodies /\ q.framed = r.framed /\ q.form = r.form
           /\ q.read = r.read /\ q.sent = r.sent
  <2>1. q.spec = s /\ q.config = r.config
    BY <1>6 DEF Works, SameCall
  <2>2. Own(q) <=> Own(r)
    BY <1>6, <2>1, OwnSame
  <2>3. ~Own(q) => Blank(q.builder)
    BY <1>3, <1>6, <2>2, NoLength, PreparedBlank
  <2>4. q.form = NewForm /\ parts_valid(s) /\ q.read = 0 /\ q.sent = 0
    BY <1>1, <1>6 DEF BodyInv
  <2>5. BodyInv(q, size, shrunk)
    BY <1>6, <2>1, <2>3, <2>4, NewFormSized DEF BodyInv
  <2> QED BY <1>2, <2>5
<1> QED BY <1>1, <1>4, <1>5, <1>6

LEMMA BodyParted ==
  ASSUME NEW c \in Calls, DOMAIN call = Calls, DOMAIN call[c] = Fields, AddPart(c),
         BodyInv(call[c], size, shrunk), size \in [Files -> Nat]
  PROVE  BodyInv(call'[c], size, shrunk)
<1> DEFINE r == call[c]
           parts == r.spec.multipart
           i == Len(r.form.fields) + 1
           p == parts[i]
<1>1. PICK q : /\ StepTo(c, q) /\ r.phase = "files"
               /\ \/ \E code \in Codes : Resolves(q, r, code)
                  \/ /\ Works(q, r) /\ q.phase = "files"
                     /\ parts # None /\ i <= Len(parts)
                     /\ p.file # None => FileError(p.file) = None
                     /\ p.content_type # Illegal
                     /\ q.form = add_part(r.form, p.name, PartOf(p))
                     /\ q.bodies = r.bodies /\ q.framed = r.framed /\ q.builder = r.builder
                     /\ q.read = r.read /\ q.sent = r.sent
  BY AddPartStep
<1>2. call'[c] = q
  BY <1>1 DEF StepTo
<1>3. CASE \E code \in Codes : Resolves(q, r, code)
  <2>1. r.phase \in Pending
    BY <1>1 DEF Pending
  <2> QED BY <1>2, <1>3, <2>1, BodyEnds
<1>4. CASE /\ Works(q, r) /\ q.phase = "files"
           /\ parts # None /\ i <= Len(parts)
           /\ p.file # None => FileError(p.file) = None
           /\ p.content_type # Illegal
           /\ q.form = add_part(r.form, p.name, PartOf(p))
           /\ q.bodies = r.bodies /\ q.framed = r.framed /\ q.builder = r.builder
           /\ q.read = r.read /\ q.sent = r.sent
  <2>1. /\ r.spec \in Specs /\ parts_valid(r.spec) /\ SizedForm(r.form, size, shrunk)
        /\ DOMAIN r.form = {"boundary", "fields", "percent_encoding"}
    BY <1>1 DEF BodyInv
  <2>2. i \in DOMAIN parts
    <3>1. Len(r.form.fields) \in Nat
      BY <2>1, ListIsSeq DEF SizedForm, IsForm
    <3>2. Len(parts) \in Nat /\ DOMAIN parts = 1 .. Len(parts)
      BY <1>4, <2>1, BodiesAreMeasured, ListIsSeq
    <3> QED BY <1>4, <3>1, <3>2
  <2> HIDE DEF i
  <2>3. IsDescriptor(p)
    BY <1>4, <2>1, <2>2, BodiesAreMeasured
  <2>4. (p.data # None) # (p.file # None)
    BY <1>4, <2>1, <2>2 DEF parts_valid
  <2> HIDE DEF p
  <2> DEFINE part == PartOf(p)
             name == p.name
             x == [name |-> name, part |-> part]
  <2>5. IsField(x) /\ SizedField(x, size, shrunk)
    BY <1>4, <2>3, <2>4, PartSized
  <2>part. q.form = add_part(r.form, name, part)
    BY <1>4
  <2>6. SizedForm(q.form, size, shrunk) /\ DOMAIN q.form = DOMAIN r.form
    <3> HIDE DEF part, name
    <3>1. IsField([name |-> name, part |-> part])
      BY <2>5
    <3>2. SizedField([name |-> name, part |-> part], size, shrunk)
      BY <2>5
    <3> DEFINE f == r.form
    <3>3. SizedForm(f, size, shrunk) /\ DOMAIN f = {"boundary", "fields", "percent_encoding"}
      BY <2>1
    <3> HIDE DEF f, x
    <3>4. /\ SizedForm(add_part(f, name, part), size, shrunk)
          /\ DOMAIN add_part(f, name, part) = DOMAIN f
      BY <3>1, <3>2, <3>3, FieldAdded
    <3> QED BY <2>part, <3>4 DEF f
  <2> HIDE DEF x, part, name
  <2>7. q.spec = r.spec /\ q.config = r.config
    BY <1>4 DEF Works, SameCall
  <2>8. Own(q) <=> Own(r)
    BY <1>4, <2>7, OwnSame
  <2>9. BodyInv(q, size, shrunk)
    BY <1>1, <1>4, <2>1, <2>6, <2>7, <2>8 DEF BodyInv
  <2> QED BY <1>2, <2>9
<1> QED BY <1>1, <1>3, <1>4

LEMMA BodyFilesSent ==
  ASSUME NEW c \in Calls, DOMAIN call = Calls, DOMAIN call[c] = Fields, Send(c),
         BodyInv(call[c], size, shrunk), size \in [Files -> Nat]
  PROVE  BodyInv(call'[c], size, shrunk)
<1> DEFINE r == call[c]
           b == Attached(r)
<1>1. PICK q : /\ StepTo(c, q) /\ r.phase = "files"
               /\ \/ \E code \in Codes : Resolves(q, r, code)
                  \/ /\ Sends(q, r, b)
                     /\ r.spec.body_file # None => FileError(r.spec.body_file) = None
  BY SendStep
<1>2. call'[c] = q
  BY <1>1 DEF StepTo
<1>3. CASE \E code \in Codes : Resolves(q, r, code)
  <2>1. r.phase \in Pending
    BY <1>1 DEF Pending
  <2> QED BY <1>2, <1>3, <2>1, BodyEnds
<1>4. CASE Sends(q, r, b) /\ (r.spec.body_file # None => FileError(r.spec.body_file) = None)
  <2>1. b.error = None
    BY <1>4 DEF Sends
  <2>2. ASSUME ~Own(r) PROVE IsRequest(b.request) /\ Framed(b.request, size, shrunk)
    <3>1. r.spec \in Specs /\ Blank(r.builder) /\ SizedForm(r.form, size, shrunk)
      BY <1>1, <2>2 DEF BodyInv
    <3>2. IsBuilder(b) /\ FramedBuilder(b, size, shrunk)
      BY <1>4, <3>1, AttachedFramed
    <3> HIDE DEF b
    <3> QED BY <2>1, <3>2 DEF IsBuilder, FramedBuilder
  <2>3. BodyInv(q, size, shrunk)
    <3> HIDE DEF b
    <3> QED BY <1>1, <1>4, <2>2, BodySent
  <2> QED BY <1>2, <2>3
<1> QED BY <1>1, <1>3, <1>4

LEMMA BodyWritten ==
  ASSUME NEW c \in Calls, DOMAIN call = Calls, DOMAIN call[c] = Fields, WriteBody(c),
         BodyInv(call[c], size, shrunk), size \in [Files -> Nat]
  PROVE  BodyInv(call'[c], size, shrunk)
<1> DEFINE r == call[c]
<1>1. PICK q : /\ StepTo(c, q) /\ r.phase = "sending" /\ q.phase = "sending"
               /\ Works(q, r) /\ q.builder = r.builder
               /\ q.bodies = r.bodies /\ q.framed = r.framed
               /\ WritesOn(q, r)
  BY WriteBodyStep DEF WritesOn
<1>2. call'[c] = q /\ r.pieces # <<>>
  BY <1>1 DEF StepTo, WriteBody
<1>3. q.spec = r.spec /\ q.config = r.config
  BY <1>1 DEF Works, SameCall
<1>4. Own(q) <=> Own(r)
  BY <1>1, <1>3, OwnSame
<1>5. ASSUME ~Own(q), NEW n \in Declared(q.builder.request)
      PROVE  Writing(q, n, size, shrunk)
  <2>1. Writing(r, n, size, shrunk)
    BY <1>1, <1>4, <1>5 DEF BodyInv
  <2> QED BY <1>1, <1>2, <2>1, WritingOn
<1>6. BodyInv(q, size, shrunk)
  BY <1>1, <1>3, <1>5 DEF BodyInv
<1> QED BY <1>2, <1>6

LEMMA BodyKept ==
  ASSUME NEW c \in Calls, DOMAIN call = Calls, DOMAIN call[c] = Fields, Steps(c),
         size \in [Files -> Nat], BodyInv(call[c], size, shrunk)
  PROVE  BodyInv(call'[c], size, shrunk)
<1> DEFINE r == call[c]
           Left(q) == /\ SameCall(q, r) /\ SameRequest(q, r)
                      /\ \/ q.phase = r.phase
                         \/ q.phase = "settled"
                         \/ /\ q.phase \in {"head", "reading", "resolved", "handed"}
                            /\ r.phase \in Pending \cup {"building", "resolved", "handed"}
           Ends(q) == \/ /\ \E code : Resolves(q, r, code)
                         /\ r.phase \in Pending \cup {"building", "resolved", "handed"}
                      \/ \E code : Settles(q, r, code)
<1>0. ASSUME NEW q, StepTo(c, q), Left(q) \/ Ends(q) PROVE BodyInv(call'[c], size, shrunk)
  <2>1. call'[c] = q
    BY <1>0 DEF StepTo
  <2>2. BodyInv(q, size, shrunk)
    BY <1>0, BodyStill, BodyEnds
  <2> QED BY <2>1, <2>2
<1>1. ASSUME NEW i \in DOMAIN BuilderOps, Build(c, BuilderOps[i])
      PROVE  BodyInv(call'[c], size, shrunk)
  BY <1>1, BodyBuilt
<1>2. CASE RustSend(c)
  BY <1>2, BodyRustSent
<1>3. CASE Poll(c) \/ Park(c)
  <2>1. PICK q : StepTo(c, q) /\ SameCall(q, r) /\ SameRequest(q, r) /\ q.phase = r.phase
    BY <1>3, PollStep
  <2> QED BY <1>0, <2>1
<1>4. CASE Cancelled(c)
  <2>1. PICK q : StepTo(c, q) /\ r.phase \in Pending /\ Resolves(q, r, "CANCELLED")
    BY <1>4, CancelledStep
  <2> QED BY <1>0, <2>1
<1>5. CASE Start(c)
  BY <1>5, BodyStarted
<1>6. CASE AddPart(c)
  BY <1>6, BodyParted
<1>7. CASE Send(c)
  BY <1>7, BodyFilesSent
<1>8. CASE WriteBody(c)
  BY <1>8, BodyWritten
<1>9. CASE EndBody(c)
  <2>1. PICK q : /\ StepTo(c, q) /\ r.phase = "sending"
                 /\ \/ \E code \in Codes : Resolves(q, r, code)
                    \/ Works(q, r) /\ SameRequest(q, r) /\ q.phase = "head"
    BY <1>9, EndBodyStep
  <2>2. r.phase \in Pending
    BY <2>1 DEF Pending
  <2>3. Left(q) \/ Ends(q)
    BY <2>1, <2>2 DEF Works
  <2> QED BY <1>0, <2>1, <2>3
<1>10. ASSUME NEW a \in Answers, Answer(c, a) PROVE BodyInv(call'[c], size, shrunk)
  <2>1. PICK q : StepTo(c, q) /\ r.phase = "head" /\ Answered(q, r, a)
    BY <1>10, AnswerStep
  <2>2. r.phase \in Pending
    BY <2>1 DEF Pending
  <2>3. Left(q)
    BY <2>1, <2>2 DEF Answered
  <2> QED BY <1>0, <2>1, <2>3
<1>11. CASE ReadBody(c)
  <2>1. PICK q : /\ StepTo(c, q) /\ r.phase = "reading"
                 /\ \/ \E code : Resolves(q, r, code)
                    \/ SameCall(q, r) /\ SameRequest(q, r) /\ q.phase = "reading"
    BY <1>11, ReadBodyStep
  <2>2. r.phase \in Pending
    BY <2>1 DEF Pending
  <2> QED BY <1>0, <2>1, <2>2
<1>12. ASSUME NEW e \in EngineErrors, Fail(c, e) PROVE BodyInv(call'[c], size, shrunk)
  <2>1. PICK q : /\ StepTo(c, q) /\ r.phase \in {"sending", "head", "reading"}
                 /\ \E code \in Codes : Resolves(q, r, code)
    BY <1>12, FailStep
  <2>2. r.phase \in Pending
    BY <2>1 DEF Pending
  <2> QED BY <1>0, <2>1, <2>2
<1>13. CASE Continue(c)
  <2>1. PICK q : /\ StepTo(c, q) /\ r.phase = "resolved"
                 /\ \/ \E code : Settles(q, r, code)
                    \/ SameCall(q, r) /\ SameRequest(q, r) /\ q.phase = "handed"
    BY <1>13, ContinueStep
  <2> QED BY <1>0, <2>1
<1>14. CASE Abort(c)
  <2>1. PICK q : StepTo(c, q) /\ SameCall(q, r) /\ SameRequest(q, r) /\ q.phase = r.phase
    BY <1>14, AbortStep
  <2> QED BY <1>0, <2>1
<1>15. CASE CancelTask(c)
  <2>1. PICK q : StepTo(c, q) /\ Settles(q, r, "CancelledError")
    BY <1>15, CancelTaskStep
  <2> QED BY <1>0, <2>1
<1>16. CASE HandleSteps(c)
  <2>1. PICK q : /\ StepTo(c, q) /\ r.phase = "handed"
                 /\ SameCall(q, r) /\ SameRequest(q, r) /\ q.phase = "handed"
    BY <1>16, HandleStep
  <2> QED BY <1>0, <2>1
<1> QED
  BY <1>1, <1>2, <1>3, <1>4, <1>5, <1>6, <1>7, <1>8, <1>9, <1>10, <1>11, <1>12, <1>13, <1>14,
     <1>15, <1>16 DEF Steps

\* A call begins without a body.
LEMMA BodyBegins ==
  ASSUME NEW c \in Calls, NEW s \in Specs, Inv, Call(c, s)
  PROVE  BodyInv(call'[c], size, shrunk) /\ call'[c].phase # "idle"
<1>1. PICK q : /\ StepTo(c, q) /\ Fresh(q, s) /\ q.builder = Ok(None)
               /\ q.phase \in {"start", "settled"}
               /\ q.phase = "start" => parts_valid(s)
  BY CallStep
<1>2. IsHeaderMap(client.config.headers) /\ CL \notin Names(client.config.headers)
  BY DEF Call, Inv, ClientInv
<1>3. /\ q.spec = s /\ q.config = client.config /\ q.bodies = 0 /\ q.form = NewForm
      /\ q.read = 0 /\ q.sent = 0 /\ q.builder.request = None
  BY <1>1 DEF Fresh, Ok
<1>4. BodyInv(q, size, shrunk)
  BY <1>1, <1>2, <1>3 DEF BodyInv
<1>5. call'[c] = q
  BY <1>1 DEF StepTo, Inv
<1> QED BY <1>1, <1>4, <1>5

LEMMA BodyRustBegins ==
  ASSUME NEW c \in Calls, NEW s \in Specs, Inv, CallRust(c, s)
  PROVE  BodyInv(call'[c], size, shrunk) /\ call'[c].phase # "idle"
<1> DEFINE b == NewBuilder("POST", s.uri)
<1>1. PICK q : /\ StepTo(c, q) /\ Fresh(q, s) /\ q.phase = "building"
               /\ q.builder = IF s.kind = "ws" THEN ws_new(b) ELSE b
  BY CallRustStep
<1>2. /\ IsHeaderMap(client.config.headers) /\ CL \notin Names(client.config.headers)
      /\ s.api = "rust"
  BY DEF CallRust, Inv, ClientInv
<1>3. /\ q.spec = s /\ q.config = client.config /\ q.bodies = 0
      /\ q.read = 0 /\ q.sent = 0
  BY <1>1 DEF Fresh
<1>4. Blank(b)
  BY NewIsBlank
<1>5. Blank(ws_new(b))
  <2> HIDE DEF b
  <2> QED BY <1>4, BlankKept DEF ws_new, version
<1>6. Blank(q.builder)
  <2> HIDE DEF b
  <2> QED BY <1>1, <1>4, <1>5
<1>7. /\ IsBuilder(q.builder) /\ BareBuilder(q.builder)
      /\ FramedBuilder(q.builder, size, shrunk)
  BY <1>6, BareIsFramed DEF Blank
<1>8. BodyInv(q, size, shrunk)
  BY <1>1, <1>2, <1>3, <1>7 DEF BodyInv
<1>9. call'[c] = q
  BY <1>1 DEF StepTo, Inv
<1> QED BY <1>1, <1>8, <1>9

\* Other processes append to files, or take bytes from them.
LEMMA BodyLater ==
  ASSUME NEW r, NEW sz, NEW sh, BodyInv(r, sz, sh), NEW sz2, NEW sh2,
         sz \in [Files -> Nat], sz2 \in [Files -> Nat],
         sh2 = {} => sh = {} /\ \A f \in Files : sz[f] <= sz2[f]
  PROVE  BodyInv(r, sz2, sh2)
<1>1. \A p : Piece(p, sz, sh) => Piece(p, sz2, sh2)
  BY PieceLater
<1>2. ASSUME NEW pieces, NEW n, Measured(pieces, n, sz, sh) PROVE Measured(pieces, n, sz2, sh2)
  BY <1>1, <1>2 DEF Measured
<1>3. FramedBuilder(r.builder, sz, sh) => FramedBuilder(r.builder, sz2, sh2)
  BY <1>2 DEF FramedBuilder, Framed
<1>4. ASSUME NEW x, SizedField(x, sz, sh) PROVE SizedField(x, sz2, sh2)
  BY <1>1, <1>4 DEF SizedField
<1>5. SizedForm(r.form, sz, sh) => SizedForm(r.form, sz2, sh2)
  BY <1>4 DEF SizedForm
<1>6. ASSUME NEW n, Writing(r, n, sz, sh) PROVE Writing(r, n, sz2, sh2)
  <2> DEFINE P == BodyOf(r.builder.request).pieces
  <2>1. IsList(P) /\ \A i \in DOMAIN P : Piece(P[i], sz, sh)
    BY <1>6 DEF Writing
  <2>2. \E T : IsSums(T, P, n) /\ \E k \in 0 .. Len(P) : At(r, P, T, k, sh)
    BY <1>6 DEF Writing
  <2> HIDE DEF P
  <2>3. \A T, k : At(r, P, T, k, sh) => At(r, P, T, k, sh2)
    BY DEF At
  <2>4. \A i \in DOMAIN P : Piece(P[i], sz2, sh2)
    BY <1>1, <2>1
  <2>5. \E T : IsSums(T, P, n) /\ \E k \in 0 .. Len(P) : At(r, P, T, k, sh2)
    BY <2>2, <2>3
  <2> QED BY <2>1, <2>4, <2>5 DEF Writing, P
<1> QED BY <1>3, <1>5, <1>6 DEF BodyInv

BodiesInv ==
    /\ size \in [Files -> Nat]
    /\ \A c \in Calls : call[c].phase # "idle" => BodyInv(call[c], size, shrunk)

LEMMA BodiesInit == Init => BodiesInv
<1>1. 0 .. MaxSize \subseteq Nat
  BY BodiesAreMeasured
<1>2. Idle.phase = "idle"
  BY DEF Idle
<1> QED BY <1>1, <1>2 DEF Init, BodiesInv

LEMMA BodiesAppended ==
  ASSUME BodiesInv, NEW f \in Files, Append1(f)
  PROVE  BodiesInv'
<1>1. /\ size' = [size EXCEPT ![f] = size[f] + 1] /\ shrunk' = shrunk /\ call' = call
      /\ size \in [Files -> Nat]
  BY DEF Append1, BodiesInv
<1>2. size' \in [Files -> Nat] /\ \A g \in Files : size[g] <= size'[g]
  BY <1>1
<1>3. \A r : BodyInv(r, size, shrunk) => BodyInv(r, size', shrunk')
  BY <1>1, <1>2, BodyLater
<1> QED BY <1>1, <1>2, <1>3 DEF BodiesInv

LEMMA BodiesTruncated ==
  ASSUME BodiesInv, NEW f \in Files, Truncate(f)
  PROVE  BodiesInv'
<1>1. /\ size' = [size EXCEPT ![f] = 0] /\ shrunk' = shrunk \cup {f} /\ call' = call
      /\ size \in [Files -> Nat]
  BY DEF Truncate, BodiesInv
<1>2. size' \in [Files -> Nat] /\ shrunk' # {}
  BY <1>1
<1>3. \A r : BodyInv(r, size, shrunk) => BodyInv(r, size', shrunk')
  BY <1>1, <1>2, BodyLater
<1> QED BY <1>1, <1>2, <1>3 DEF BodiesInv

LEMMA BodiesNext ==
  ASSUME Inv, BodiesInv, [Next]_vars
  PROVE  BodiesInv'
<1>1. ASSUME UNCHANGED <<size, shrunk, call>> PROVE BodiesInv'
  BY <1>1 DEF BodiesInv
<1>2. ASSUME (\E s \in ClientSpecs : NewClient(s)) \/ CloseClient \/ UNCHANGED vars
      PROVE  BodiesInv'
  BY <1>1, <1>2 DEF NewClient, CloseClient, vars
<1>3. ASSUME NEW f \in Files, Append1(f) \/ Truncate(f) PROVE BodiesInv'
  BY <1>3, BodiesAppended, BodiesTruncated
<1>4. ASSUME NEW c \in Calls, Steps(c) \/ \E s \in Specs : Call(c, s) \/ CallRust(c, s)
      PROVE  BodiesInv'
  <2>1. call'[c].phase # "idle" => BodyInv(call'[c], size, shrunk)
    <3>1. CASE \E s \in Specs : Call(c, s) \/ CallRust(c, s)
      BY <3>1, BodyBegins, BodyRustBegins
    <3>2. CASE Steps(c) /\ call[c].phase = "idle"
      BY <3>2, IdleAborts
    <3>3. CASE Steps(c) /\ call[c].phase # "idle"
      <4>1. DOMAIN call = Calls /\ DOMAIN call[c] = Fields
        BY <3>3 DEF Inv, CallInv
      <4> QED BY <3>3, <4>1, BodyKept DEF BodiesInv
    <3> QED BY <1>4, <3>1, <3>2, <3>3
  <2>2. /\ UNCHANGED <<size, shrunk>>
        /\ \A d \in Calls : d # c => call'[d] = call[d]
    BY <1>4, OthersAlone DEF Inv
  <2> QED BY <2>1, <2>2 DEF BodiesInv
<1> QED BY <1>2, <1>3, <1>4 DEF Next, Steps, HandleSteps

\* A body never carries more bytes than its request declares, and at its end
\* exactly those unless a file lost bytes, whatever is appended to files while
\* they are sent (upload::file_body, compute_length against into_stream, and the
\* content-length wreq-proto writes or the caller gave), for any forms, parts,
\* files and calls of the builder.
THEOREM BodyIsAsDeclared == Spec => []BodyAsDeclared
<1>1. Inv /\ BodiesInv /\ [Next]_vars => BodiesInv'
  BY BodiesNext
<1>2. BodiesInv => BodyAsDeclared
  <2> SUFFICES ASSUME BodiesInv, NEW c \in Calls, Running(c), call[c].builder.request # None,
                      ~Own(call[c]), NEW n \in Declared(call[c].builder.request)
               PROVE  /\ call[c].sent <= n
                      /\ call[c].phase = "sending" /\ call[c].pieces = <<>> /\ shrunk = {} =>
                             call[c].sent = n
    BY DEF BodyAsDeclared, Own, CL
  <2>1. call[c].phase # "idle" /\ BodyInv(call[c], size, shrunk)
    BY DEF Running, BodiesInv
  <2>2. CASE call[c].phase = "sending"
    <3>1. Writing(call[c], n, size, shrunk)
      BY <2>1, <2>2 DEF BodyInv
    <3> QED BY <3>1, WritingBound
  <2>3. CASE call[c].phase # "sending"
    <3>1. Over(call[c])
      BY <2>1, <2>3 DEF BodyInv, Running
    <3> QED BY <2>3, <3>1 DEF Over
  <2> QED BY <2>2, <2>3
<1> QED BY <1>1, <1>2, BodiesInit, InvInvariant, PTL DEF Spec

=============================================================================

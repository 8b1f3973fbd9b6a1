------------------------ MODULE HappyEyeballsProofs -------------------------
(***************************************************************************)
(* Theorems about HappyEyeballs, for every list of addresses: which        *)
(* addresses a race tries, and which error it reports.                     *)
(***************************************************************************)
EXTENDS HappyEyeballs, FiniteSetTheorems, SequenceTheorems, WellFoundedInduction, TLAPS

-----------------------------------------------------------------------------
(* Least elements and sequences.                                           *)

LEMMA MinOf ==
    ASSUME NEW T \in SUBSET Nat, T # {}
    PROVE  Min(T) \in T /\ \A k \in T : Min(T) <= k
  <1>1. PICK i \in T : \A k \in T : ~(<<k, i>> \in OpToRel(<, Nat))
    BY NatLessThanWellFounded, WFMin
  <1>2. \A k \in T : k \in Nat
    OBVIOUS
  <1>3. \A k \in T : ~(k < i)
    BY <1>1, <1>2 DEF OpToRel
  <1>4. \A k \in T : i <= k
    BY <1>2, <1>3
  <1> QED BY <1>4 DEF Min

Increasing(s) == \A i, j \in DOMAIN s : i < j => s[i] < s[j]

LEMMA HeadLeft ==
    ASSUME NEW S \in SUBSET Nat, NEW s \in Seq(S), s # <<>>, Increasing(s)
    PROVE  /\ Head(s) \in S /\ Tail(s) \in Seq(S) /\ Increasing(Tail(s))
           /\ Range(s) = Range(Tail(s)) \cup {Head(s)}
           /\ \A x \in Range(Tail(s)) : Head(s) < x
  <1> DEFINE t == Tail(s)
  <1>1. /\ t \in Seq(S) /\ Len(t) = Len(s) - 1 /\ Head(s) = s[1] /\ Head(s) \in S
        /\ \A i \in 1..Len(t) : t[i] = s[i + 1]
    BY HeadTailProperties
  <1>0. Len(s) \in Nat \ {0} /\ DOMAIN s = 1..Len(s) /\ \A i \in DOMAIN s : s[i] \in S
    BY EmptySeq, LenProperties, ElementOfSeq
  <1>2. /\ DOMAIN t = 1..(Len(s) - 1) /\ DOMAIN s = 1..Len(s) /\ Len(s) \in Nat \ {0}
        /\ \A i \in DOMAIN s : s[i] \in Nat
    <2>1. DOMAIN t = 1..Len(t)
      BY <1>1, LenProperties
    <2>2. \A x \in S : x \in Nat
      OBVIOUS
    <2> HIDE DEF t
    <2> QED BY <1>0, <1>1, <2>1, <2>2
  <1> HIDE DEF t
  <1>3. Increasing(t) /\ \A i \in DOMAIN t : s[1] < t[i]
    <2>1. \A i \in DOMAIN t : /\ i \in Int /\ i + 1 \in DOMAIN s /\ t[i] = s[i + 1]
                              /\ 1 \in DOMAIN s /\ 1 < i + 1
      BY <1>1, <1>2
    <2>2. \A i, j \in DOMAIN t : i < j => i + 1 < j + 1
      BY <2>1
    <2> QED BY <2>1, <2>2 DEF Increasing
  <1>4. ASSUME NEW i \in DOMAIN s, i # 1
        PROVE  s[i] \in Range(t)
    <2>1. i - 1 \in DOMAIN t /\ t[i - 1] = s[i]
      BY <1>1, <1>2, <1>4
    <2> QED BY <2>1 DEF Range
  <1>5. Range(s) = Range(t) \cup {s[1]}
    <2>1. \A i \in DOMAIN t : i + 1 \in DOMAIN s /\ t[i] = s[i + 1]
      BY <1>1, <1>2
    <2>2. Range(t) \subseteq Range(s) /\ s[1] \in Range(s)
      BY <1>2, <2>1 DEF Range
    <2>3. Range(s) \subseteq Range(t) \cup {s[1]}
      BY <1>4 DEF Range
    <2> QED BY <2>2, <2>3
  <1> QED BY <1>1, <1>3, <1>5 DEF t, Range

LEMMA Appended ==
    ASSUME NEW S, NEW s \in Seq(S), NEW e \in S
    PROVE  /\ Append(s, e) \in Seq(S) /\ Len(Append(s, e)) = Len(s) + 1 /\ Len(s) \in Nat
           /\ DOMAIN s = 1..Len(s) /\ DOMAIN Append(s, e) = 1..(Len(s) + 1)
           /\ \A i \in 1..Len(s) : Append(s, e)[i] = s[i]
           /\ Append(s, e)[Len(s) + 1] = e
           /\ Range(Append(s, e)) = Range(s) \cup {e}
  <1> DEFINE t == Append(s, e)
  <1>1. /\ t \in Seq(S) /\ Len(t) = Len(s) + 1 /\ Len(s) \in Nat
        /\ t[Len(s) + 1] = e /\ \A i \in 1..Len(s) : t[i] = s[i]
    BY AppendProperties
  <1>2. DOMAIN t = 1..(Len(s) + 1) /\ DOMAIN s = 1..Len(s)
    BY <1>1
  <1> HIDE DEF t
  <1>3. Range(t) = Range(s) \cup {e}
    BY <1>1, <1>2 DEF Range
  <1> QED BY <1>1, <1>2, <1>3 DEF t

-----------------------------------------------------------------------------
(* The addresses of a family.                                              *)

Numbered(all) ==
    [n \in 1..Cardinality(all) |-> CHOOSE i \in all : Cardinality({j \in all : j <= i}) = n]

LEMMA InOrder ==
    ASSUME NEW all \in SUBSET Nat, IsFiniteSet(all)
    PROVE  /\ Numbered(all) \in Seq(all) /\ Increasing(Numbered(all))
           /\ Range(Numbered(all)) = all
  <1> DEFINE P(i) == {j \in all : j <= i}
             n == Cardinality(all)
             f == [i \in all |-> Cardinality(P(i))]
  <1>1. n \in Nat /\ IsFiniteSet(1..n) /\ Cardinality(1..n) = n
    BY FS_CardinalityType, FS_Interval
  <1>2. \A i \in all : IsFiniteSet(P(i)) /\ Cardinality(P(i)) \in 1..n
    <2> SUFFICES ASSUME NEW i \in all
                 PROVE  IsFiniteSet(P(i)) /\ Cardinality(P(i)) \in 1..n
      OBVIOUS
    <2>1. P(i) \in SUBSET all /\ i \in P(i)
      OBVIOUS
    <2> HIDE DEF P
    <2>2. IsFiniteSet(P(i)) /\ Cardinality(P(i)) <= n
      BY <2>1, FS_Subset
    <2>3. Cardinality(P(i)) \in Nat /\ Cardinality(P(i)) # 0
      BY <2>1, <2>2, FS_CardinalityType, FS_EmptySet
    <2> HIDE DEF n
    <2> QED BY <1>1, <2>2, <2>3
  <1>3. \A i, k \in all : i < k => Cardinality(P(i)) < Cardinality(P(k))
    <2> SUFFICES ASSUME NEW i \in all, NEW k \in all, i < k
                 PROVE  Cardinality(P(i)) < Cardinality(P(k))
      OBVIOUS
    <2>0. \A j \in all : j \in Nat
      OBVIOUS
    <2>a. k \in Nat /\ i \in Nat /\ ~(k <= i) /\ k <= k
      BY <2>0
    <2>b. \A j \in all : j <= i => j <= k
      BY <2>0, <2>a
    <2>1. P(i) \in SUBSET P(k) /\ k \in P(k) /\ k \notin P(i)
      BY <2>a, <2>b
    <2> HIDE DEF P
    <2>2. Cardinality(P(i)) <= Cardinality(P(k)) /\ Cardinality(P(i)) # Cardinality(P(k))
      BY <1>2, <2>1, FS_Subset
    <2>3. Cardinality(P(i)) \in Int /\ Cardinality(P(k)) \in Int
      BY <1>1, <1>2
    <2> QED BY <2>2, <2>3
  <1> HIDE DEF P, n
  <1>4. \A i, k \in all : Cardinality(P(i)) = Cardinality(P(k)) => i = k
    <2>1. \A i \in all : Cardinality(P(i)) \in Int
      BY <1>1, <1>2
    <2> QED BY <1>3, <2>1
  <1>5. f \in Injection(all, 1..n)
    BY <1>2, <1>4 DEF Injection, IsInjective
  <1> HIDE DEF f
  <1>6. f \in Surjection(all, 1..n)
    BY <1>1, <1>5, FS_Injection DEF n
  <1>7. \A m \in 1..n : \E i \in all : Cardinality(P(i)) = m
    BY <1>6 DEF Surjection, f
  <1> DEFINE r == [m \in 1..n |-> CHOOSE i \in all : Cardinality(P(i)) = m]
  <1>8. \A m \in 1..n : r[m] \in all /\ Cardinality(P(r[m])) = m
    BY <1>7
  <1>9. DOMAIN r = 1..n /\ Numbered(all) = r
    BY DEF Numbered, n, P
  <1> HIDE DEF r
  <1>10. r \in Seq(all)
    <2>1. r = [m \in 1..n |-> r[m]]
      BY DEF r
    <2> QED BY <1>1, <1>8, <2>1
  <1>11. Increasing(r)
    <2> SUFFICES ASSUME NEW a \in 1..n, NEW b \in 1..n, a < b
                 PROVE  r[a] < r[b]
      BY <1>9 DEF Increasing
    <2>1. r[a] \in all /\ r[b] \in all /\ Cardinality(P(r[a])) = a /\ Cardinality(P(r[b])) = b
      BY <1>8
    <2>2. r[b] < r[a] => b < a
      BY <1>3, <2>1
    <2>3. r[a] \in Nat /\ r[b] \in Nat
      BY <2>1
    <2>4. a \in Int /\ b \in Int
      BY <1>1
    <2>5. r[a] # r[b]
      BY <2>1, <2>4
    <2> QED BY <2>2, <2>3, <2>4, <2>5
  <1>12. ASSUME NEW i \in all
         PROVE  i \in Range(r)
    <2>1. Cardinality(P(i)) \in 1..n /\ r[Cardinality(P(i))] = i
      BY <1>2, <1>4, <1>8
    <2> QED BY <1>9, <2>1 DEF Range
  <1>13. Range(r) = all
    BY <1>8, <1>9, <1>12 DEF Range
  <1> QED BY <1>9, <1>10, <1>11, <1>13

Places(fam) == 1..Len(fam)

LEMMA FamilyInOrder ==
    ASSUME NEW fam \in Seq({"v4", "v6"}), NEW f
    PROVE  /\ OfFamily(fam, f) \in Seq(Places(fam)) /\ Increasing(OfFamily(fam, f))
           /\ Range(OfFamily(fam, f)) = {i \in Places(fam) : fam[i] = f}
  <1> DEFINE all == {i \in Places(fam) : fam[i] = f}
  <1>1. Len(fam) \in Nat
    BY LenProperties
  <1>2. IsFiniteSet(Places(fam)) /\ Places(fam) \subseteq Nat
    BY <1>1, FS_Interval DEF Places
  <1>3. all \in SUBSET Nat /\ IsFiniteSet(all) /\ all \subseteq Places(fam)
    BY <1>2, FS_Subset
  <1>4. OfFamily(fam, f) = Numbered(all)
    BY DEF OfFamily, Numbered, Places
  <1> HIDE DEF all
  <1>5. Numbered(all) \in Seq(all) /\ Increasing(Numbered(all)) /\ Range(Numbered(all)) = all
    BY <1>3, InOrder
  <1>6. Seq(all) \subseteq Seq(Places(fam))
    BY <1>3, SeqMonotonic
  <1> QED BY <1>4, <1>5, <1>6 DEF all

-----------------------------------------------------------------------------
(* The addresses of a race: p and f are left, t was tried.                 *)

Queued(fam, p, f, t) ==
    /\ fam \in Seq({"v4", "v6"})
    /\ p \in Seq(Places(fam)) /\ f \in Seq(Places(fam)) /\ t \in Seq(Places(fam))
    /\ Increasing(p) /\ Increasing(f)
    /\ \A x \in Range(p), y \in Range(f) : fam[x] # fam[y]
    /\ \A x \in Range(t), y \in Range(p) \cup Range(f) : fam[x] = fam[y] => x < y
    /\ \A i, j \in DOMAIN t : i < j /\ fam[t[i]] = fam[t[j]] => t[i] < t[j]

LEMMA Mirrored ==
    ASSUME NEW fam, NEW p, NEW f, NEW t, Queued(fam, p, f, t)
    PROVE  Queued(fam, f, p, t)
  BY DEF Queued

LEMMA Taken ==
    ASSUME NEW fam, NEW p, NEW f, NEW t, Queued(fam, p, f, t), p # <<>>
    PROVE  /\ Queued(fam, Tail(p), f, Append(t, Head(p)))
           /\ Range(Append(t, Head(p))) \cup Range(Tail(p)) = Range(t) \cup Range(p)
           /\ Len(Append(t, Head(p))) = Len(t) + 1 /\ Len(t) \in Nat
  <1> DEFINE h == Head(p)
             q == Tail(p)
             u == Append(t, h)
             all == Places(fam)
  <1>0. /\ fam \in Seq({"v4", "v6"}) /\ p \in Seq(all) /\ f \in Seq(all) /\ t \in Seq(all)
        /\ Increasing(p) /\ Increasing(f)
        /\ \A x \in Range(p), y \in Range(f) : fam[x] # fam[y]
        /\ \A x \in Range(t), y \in Range(p) \cup Range(f) : fam[x] = fam[y] => x < y
        /\ \A i, j \in DOMAIN t : i < j /\ fam[t[i]] = fam[t[j]] => t[i] < t[j]
    BY DEF Queued
  <1>1. all \in SUBSET Nat
    BY <1>0, LenProperties DEF Places
  <1>2. /\ h \in all /\ q \in Seq(all) /\ Increasing(q) /\ Range(p) = Range(q) \cup {h}
        /\ \A x \in Range(q) : h < x
    BY <1>0, <1>1, HeadLeft
  <1> HIDE DEF h, q, all
  <1>3. /\ u \in Seq(all) /\ Len(u) = Len(t) + 1 /\ Len(t) \in Nat
        /\ DOMAIN t = 1..Len(t) /\ DOMAIN u = 1..(Len(t) + 1)
        /\ \A i \in 1..Len(t) : u[i] = t[i]
        /\ u[Len(t) + 1] = h /\ Range(u) = Range(t) \cup {h}
    BY <1>0, <1>2, Appended
  <1> HIDE DEF u
  <1>4. \A x \in Range(q), y \in Range(f) : fam[x] # fam[y]
    BY <1>0, <1>2
  <1>5. \A x \in Range(u), y \in Range(q) \cup Range(f) : fam[x] = fam[y] => x < y
    BY <1>0, <1>2, <1>3
  <1>6. \A i, j \in DOMAIN u : i < j /\ fam[u[i]] = fam[u[j]] => u[i] < u[j]
    <2> SUFFICES ASSUME NEW i \in DOMAIN u, NEW j \in DOMAIN u, i < j, fam[u[i]] = fam[u[j]]
                 PROVE  u[i] < u[j]
      OBVIOUS
    <2>1. i \in DOMAIN t /\ u[i] = t[i]
      BY <1>3
    <2>2. CASE j \in DOMAIN t
      BY <1>0, <1>3, <2>1, <2>2
    <2>3. CASE j \notin DOMAIN t
      <3>1. u[j] = h
        BY <1>3, <2>3
      <3>2. t[i] \in Range(t) /\ h \in Range(p)
        BY <1>2, <2>1 DEF Range
      <3> QED BY <1>0, <2>1, <3>1, <3>2
    <2> QED BY <2>2, <2>3
  <1>7. Queued(fam, q, f, u)
    BY <1>0, <1>2, <1>3, <1>4, <1>5, <1>6 DEF Queued, all
  <1>8. Range(u) \cup Range(q) = Range(t) \cup Range(p)
    BY <1>2, <1>3
  <1> QED BY <1>3, <1>7, <1>8 DEF h, q, u

\* The lists ConnectingTcp::new makes.
LEMMA SplitOK ==
    ASSUME NEW fam \in Seq({"v4", "v6"}), NEW b \in {"any", "v4", "v6"}, NEW happy
    PROVE  /\ Queued(fam, Split(fam, b, happy)[1], Split(fam, b, happy)[2], <<>>)
           /\ Range(Split(fam, b, happy)[1]) \cup Range(Split(fam, b, happy)[2])
                = {i \in DOMAIN fam : happy /\ b # "any" => fam[i] = b}
  <1> DEFINE all == [i \in 1..Len(fam) |-> i]
             none == << >>
  <1>1. /\ DOMAIN fam = Places(fam) /\ Len(fam) \in Nat
        /\ \A i \in Places(fam) : fam[i] \in {"v4", "v6"}
    BY LenProperties, ElementOfSeq DEF Places
  <1>2. /\ none \in Seq(Places(fam)) /\ Range(none) = {} /\ DOMAIN none = {}
        /\ Increasing(none)
    BY DEF Range, Increasing
  <1>3. CASE ~happy
    <2>1. all \in Seq(Places(fam)) /\ Range(all) = Places(fam) /\ Increasing(all)
      BY <1>1 DEF Places, Range, Increasing
    <2>2. Split(fam, b, happy)[1] = all /\ Split(fam, b, happy)[2] = none
      BY <1>3 DEF Split
    <2> HIDE DEF all, none
    <2>3. Queued(fam, all, none, none)
      BY <1>2, <2>1 DEF Queued
    <2> QED BY <1>1, <1>2, <1>3, <2>1, <2>2, <2>3 DEF none
  <1>4. CASE happy /\ b # "any"
    <2> DEFINE own == OfFamily(fam, b)
    <2>1. /\ own \in Seq(Places(fam)) /\ Increasing(own)
          /\ Range(own) = {i \in Places(fam) : fam[i] = b}
      BY FamilyInOrder
    <2>2. Split(fam, b, happy)[1] = own /\ Split(fam, b, happy)[2] = none
      BY <1>4 DEF Split, SplitByPreference
    <2> HIDE DEF own, none
    <2>3. Queued(fam, own, none, none)
      BY <1>2, <2>1 DEF Queued
    <2> QED BY <1>1, <1>2, <1>4, <2>1, <2>2, <2>3 DEF none
  <1>5. CASE happy /\ b = "any" /\ fam = <<>>
    <2>1. Split(fam, b, happy)[1] = none /\ Split(fam, b, happy)[2] = none
      BY <1>5 DEF Split, SplitByPreference
    <2>2. DOMAIN fam = {}
      BY <1>5
    <2> HIDE DEF none
    <2>3. Queued(fam, none, none, none)
      BY <1>2 DEF Queued
    <2> QED BY <1>2, <2>1, <2>2, <2>3 DEF none
  <1>6. CASE happy /\ b = "any" /\ fam # <<>>
    <2> DEFINE f == fam[1]
               own == OfFamily(fam, f)
               other == OfFamily(fam, Other(f))
    <2>1. /\ own \in Seq(Places(fam)) /\ Increasing(own)
          /\ Range(own) = {i \in Places(fam) : fam[i] = f}
      BY FamilyInOrder
    <2>2. /\ other \in Seq(Places(fam)) /\ Increasing(other)
          /\ Range(other) = {i \in Places(fam) : fam[i] = Other(f)}
      BY FamilyInOrder
    <2>3. Split(fam, b, happy)[1] = own /\ Split(fam, b, happy)[2] = other
      BY <1>6 DEF Split, SplitByPreference
    <2>4. 1 \in Places(fam)
      BY <1>1, <1>6, EmptySeq DEF Places
    <2>5. f \in {"v4", "v6"}
      BY <1>1, <2>4
    <2> HIDE DEF own, other, f, none
    <2>6. Other(f) # f /\ \A g \in {"v4", "v6"} : g = f \/ g = Other(f)
      BY <2>5 DEF Other
    <2>7. \A x \in Range(own), y \in Range(other) : fam[x] # fam[y]
      BY <2>1, <2>2, <2>6
    <2>8. Queued(fam, own, other, none)
      BY <1>2, <2>1, <2>2, <2>7 DEF Queued
    <2>9. Range(own) \cup Range(other) = Places(fam)
      BY <1>1, <2>1, <2>2, <2>6
    <2> QED BY <1>1, <1>6, <2>3, <2>8, <2>9 DEF none
  <1> QED BY <1>3, <1>4, <1>5, <1>6

-----------------------------------------------------------------------------
(* Every address gets its turn.                                            *)

AddrInv ==
    /\ Queued(family, preferred, fallback, tried)
    /\ Range(tried) \cup Range(preferred) \cup Range(fallback) = Candidates

\* The inputs do not change, and neither do the candidates.
LEMMA SameCandidates == ASSUME UNCHANGED inputs PROVE Candidates' = Candidates
  BY DEF Candidates, inputs

LEMMA AddrInvInit == RaceInit => AddrInv
  <1> SUFFICES ASSUME RaceInit PROVE AddrInv
    OBVIOUS
  <1>1. family \in Seq({"v4", "v6"}) /\ bind \in {"any", "v4", "v6"} /\ tried = <<>>
    BY ListsAssumption DEF RaceInit
  <1> DEFINE p == Split(family, bind, stagger)[1]
             f == Split(family, bind, stagger)[2]
  <1>2. /\ Queued(family, p, f, <<>>)
        /\ Range(p) \cup Range(f) = {i \in DOMAIN family : stagger /\ bind # "any" => family[i] = bind}
    BY <1>1, SplitOK
  <1>3. preferred = p /\ fallback = f
    BY DEF RaceInit
  <1> HIDE DEF p, f
  <1>4. Range(tried) = {}
    BY <1>1 DEF Range
  <1> QED BY <1>1, <1>2, <1>3, <1>4 DEF AddrInv, Candidates

LEMMA TakeAddrOK ==
    ASSUME AddrInv, HasRemainingAddrs, TakeAddr, UNCHANGED inputs
    PROVE  AddrInv' /\ Len(tried') = Len(tried) + 1 /\ Len(tried) \in Nat
  <1>1. Candidates' = Candidates /\ family' = family
    BY SameCandidates DEF inputs
  <1>2. CASE UseFallback
    <2>1. /\ tried' = Append(tried, Head(fallback)) /\ fallback' = Tail(fallback)
          /\ preferred' = preferred /\ fallback # <<>>
      BY <1>2 DEF TakeAddr, UseFallback
    <2>2. Queued(family, fallback, preferred, tried)
      BY Mirrored DEF AddrInv
    <2>3. /\ Queued(family, fallback', preferred', tried')
          /\ Range(tried') \cup Range(fallback') = Range(tried) \cup Range(fallback)
          /\ Len(tried') = Len(tried) + 1 /\ Len(tried) \in Nat
      BY <2>1, <2>2, Taken
    <2>4. Queued(family, preferred', fallback', tried')
      BY <2>3, Mirrored
    <2> QED BY <1>1, <2>1, <2>3, <2>4 DEF AddrInv
  <1>3. CASE ~UseFallback
    <2>1. /\ tried' = Append(tried, Head(preferred)) /\ preferred' = Tail(preferred)
          /\ fallback' = fallback /\ preferred # <<>>
      BY <1>3 DEF TakeAddr, UseFallback, HasRemainingAddrs
    <2>2. /\ Queued(family, preferred', fallback', tried')
          /\ Range(tried') \cup Range(preferred') = Range(tried) \cup Range(preferred)
          /\ Len(tried') = Len(tried) + 1 /\ Len(tried) \in Nat
      BY <2>1, Taken DEF AddrInv
    <2> QED BY <1>1, <2>1, <2>2 DEF AddrInv
  <1> QED BY <1>2, <1>3

LEMMA AddrInvKept ==
    ASSUME AddrInv, UNCHANGED <<inputs, lists>>
    PROVE  AddrInv'
  <1>1. Candidates' = Candidates
    BY SameCandidates
  <1> QED BY <1>1 DEF AddrInv, inputs, lists

\* What a step does to the inputs and the lists.
LEMMA StepKinds ==
    ASSUME [RaceNext]_raceVars
    PROVE  \/ UNCHANGED <<inputs, lists>>
           \/ HasRemainingAddrs /\ TakeAddr /\ UNCHANGED inputs
  <1>1. CASE Launch \/ LaunchFails
    BY <1>1 DEF Launch, LaunchFails
  <1>2. CASE NothingToLaunch
    BY <1>2 DEF NothingToLaunch
  <1>3. CASE PollAttempts
    BY <1>3 DEF PollAttempts
  <1>4. CASE DelayElapsed \/ PollDeadline \/ Abandon
    BY <1>4 DEF DelayElapsed, PollDeadline, Abandon
  <1>5. CASE Settle \/ Elapse \/ Expire
    BY <1>5 DEF Settle, Elapse, Expire
  <1>6. CASE UNCHANGED raceVars
    BY <1>6 DEF raceVars
  <1> QED BY <1>1, <1>2, <1>3, <1>4, <1>5, <1>6 DEF RaceNext, Run

LEMMA AddrInvStep == AddrInv /\ [RaceNext]_raceVars => AddrInv'
  BY StepKinds, TakeAddrOK, AddrInvKept

LEMMA AddrInvHolds == RaceSpec => []AddrInv
  BY AddrInvInit, AddrInvStep, PTL DEF RaceSpec

-----------------------------------------------------------------------------
(* The error a race keeps.                                                 *)

\* A race that has tried an address and has none left in flight or to try has
\* seen one fail.
Excused == tried = <<>> \/ failed # {}

ErrorInv ==
    /\ failed \subseteq Orders /\ DOMAIN attempts \subseteq Orders
    /\ firstError = IF failed = {} THEN 0 ELSE Min(failed)
    /\ stage = "launch" /\ ~HasRemainingAddrs /\ DOMAIN attempts = {} => Excused
    /\ outcome = "error" => stage = "done" /\ ~HasRemainingAddrs /\ Excused

\* record_error, whatever the order of the errors.
LEMMA Recorded ==
    ASSUME NEW n \in Nat, failed \subseteq 1..n,
           firstError = IF failed = {} THEN 0 ELSE Min(failed),
           NEW orders, orders \subseteq 1..n, NEW new, new = failed \cup orders
    PROVE  RecordErrors(orders) = IF new = {} THEN 0 ELSE Min(new)
  <1> DEFINE known == (orders \cup {firstError}) \ {0}
  <1>1. \A i \in 1..n : i \in Nat /\ i # 0
    OBVIOUS
  <1>2. RecordErrors(orders) = IF known = {} THEN 0 ELSE Min(known)
    BY DEF RecordErrors
  <1>3. CASE failed = {}
    <2>1. known = new
      BY <1>1, <1>3
    <2> QED BY <1>2, <2>1
  <1>4. CASE failed # {}
    <2>1. failed \in SUBSET Nat /\ new \in SUBSET Nat /\ new # {}
      BY <1>1, <1>4
    <2>2. /\ firstError \in failed /\ \A k \in failed : firstError <= k
          /\ Min(new) \in new /\ \A k \in new : Min(new) <= k
      BY <1>4, <2>1, MinOf
    <2>3. known = orders \cup {firstError} /\ known \in SUBSET Nat /\ known # {}
      BY <1>1, <2>2
    <2>4. Min(known) \in known /\ \A k \in known : Min(known) <= k
      BY <2>3, MinOf
    <2> DEFINE a == Min(known)
               b == Min(new)
    <2>5. a \in known /\ b \in new /\ a \in Nat /\ b \in Nat
      BY <2>1, <2>2, <2>3, <2>4
    <2>6. b <= a
      BY <2>2, <2>3, <2>4
    <2>7. a <= b
      <3>1. CASE b \in orders
        BY <2>3, <2>4, <3>1
      <3>2. CASE b \in failed
        <4>1. firstError <= b /\ a <= firstError /\ firstError \in Nat
          BY <2>1, <2>2, <2>3, <2>4, <3>2
        <4> HIDE DEF a, b
        <4> QED BY <2>5, <4>1
      <3> QED BY <2>5, <3>1, <3>2
    <2> HIDE DEF a, b
    <2>8. a = b
      BY <2>5, <2>6, <2>7
    <2> QED BY <1>2, <2>1, <2>3, <2>8 DEF a, b
  <1> QED BY <1>3, <1>4

LEMMA ErrorInvInit == RaceInit => ErrorInv
  <1> SUFFICES ASSUME RaceInit PROVE ErrorInv
    OBVIOUS
  <1>1. DOMAIN << >> = {}
    OBVIOUS
  <1> QED BY <1>1 DEF RaceInit, ErrorInv, Excused

\* Types of what TakeAddr and the others leave behind.
LEMMA TriedGrows ==
    ASSUME AddrInv, HasRemainingAddrs, TakeAddr, UNCHANGED inputs
    PROVE  /\ Len(tried) \in Nat /\ Orders' = 1..(Len(tried) + 1) /\ Orders \subseteq Orders'
           /\ Len(tried) + 1 \in Orders'
  <1>1. Len(tried') = Len(tried) + 1 /\ Len(tried) \in Nat
    BY TakeAddrOK
  <1> QED BY <1>1 DEF Orders

LEMMA LaunchKeeps ==
    ASSUME AddrInv, ErrorInv, Launch
    PROVE  ErrorInv'
  <1>1. Orders \subseteq Orders' /\ Len(tried) + 1 \in Orders'
    BY TriedGrows DEF Launch
  <1>2. DOMAIN attempts' = DOMAIN attempts \cup {Len(tried) + 1}
    BY DEF Launch
  <1>3. failed' = failed /\ firstError' = firstError /\ stage' = "wait" /\ outcome' = outcome
        /\ stage = "launch"
    BY DEF Launch
  <1> QED BY <1>1, <1>2, <1>3 DEF ErrorInv

LEMMA LaunchFailsKeeps ==
    ASSUME AddrInv, ErrorInv, LaunchFails
    PROVE  ErrorInv'
  <1> DEFINE n == Len(tried) + 1
  <1>1. /\ Orders \subseteq Orders' /\ n \in Orders' /\ Len(tried) \in Nat /\ Orders' = 1..n
    BY TriedGrows DEF LaunchFails
  <1>2. /\ firstError' = RecordErrors({n}) /\ failed' = failed \cup {n}
        /\ attempts' = attempts /\ stage' = stage /\ outcome' = outcome /\ stage = "launch"
    BY DEF LaunchFails
  <1> HIDE DEF n
  <1>3. n \in Nat /\ failed \subseteq 1..n /\ {n} \subseteq 1..n
    BY <1>1 DEF ErrorInv, n
  <1>4. firstError' = IF failed' = {} THEN 0 ELSE Min(failed')
    BY <1>2, <1>3, Recorded DEF ErrorInv
  <1>5. failed' # {} /\ failed' \subseteq Orders' /\ DOMAIN attempts' \subseteq Orders'
    BY <1>1, <1>2 DEF ErrorInv
  <1> QED BY <1>2, <1>4, <1>5 DEF ErrorInv, Excused

\* The steps that record nothing and try nothing.
LEMMA QuietKeeps ==
    ASSUME ErrorInv, UNCHANGED <<lists, firstError, failed>>,
           DOMAIN attempts' \subseteq DOMAIN attempts,
           \/ stage' # "launch" \/ HasRemainingAddrs \/ UNCHANGED <<attempts, stage>>,
           \/ outcome' # "error"
           \/ UNCHANGED <<outcome, stage>>
           \/ stage' = "done" /\ ~HasRemainingAddrs /\ Excused
    PROVE  ErrorInv'
  <1>1. /\ Orders' = Orders /\ (HasRemainingAddrs' <=> HasRemainingAddrs)
        /\ (Excused' <=> Excused)
    BY DEF Orders, HasRemainingAddrs, Excused, lists
  <1>2. failed' = failed /\ firstError' = firstError
    OBVIOUS
  <1> QED BY <1>1, <1>2 DEF ErrorInv

LEMMA PollAttemptsKeeps ==
    ASSUME AddrInv, ErrorInv, PollAttempts
    PROVE  ErrorInv'
  <1> DEFINE n == Len(tried)
  <1>1. n \in Nat /\ Orders = 1..n
    BY LenProperties DEF AddrInv, Queued, Orders
  <1>2. /\ UNCHANGED lists /\ stage = "wait"
        /\ firstError' = RecordErrors(ErrorsPolled) /\ failed' = failed \cup ErrorsPolled
        /\ \/ outcome' = "connected" /\ stage' = "done"
           \/ outcome' = outcome /\ (stage' = "launch" => ErrorsPolled # {})
    BY DEF PollAttempts, End, AllAttemptsFailed
  <1>3. Orders' = Orders
    BY <1>2 DEF Orders, lists
  <1>4. ErrorsPolled \subseteq 1..n /\ failed \subseteq 1..n
    BY <1>1 DEF ErrorsPolled, Polled, Polling, ErrorInv
  <1>5. DOMAIN attempts' \subseteq DOMAIN attempts
    <2>1. DOMAIN << >> = {}
      OBVIOUS
    <2> QED BY <2>1 DEF PollAttempts, End, Restrict, Polling
  <1> HIDE DEF n
  <1>6. firstError' = IF failed' = {} THEN 0 ELSE Min(failed')
    BY <1>1, <1>2, <1>4, Recorded DEF ErrorInv
  <1>7. failed' \subseteq Orders' /\ DOMAIN attempts' \subseteq Orders'
    BY <1>1, <1>2, <1>3, <1>4, <1>5 DEF ErrorInv
  <1>8. outcome # "error"
    BY <1>2 DEF ErrorInv
  <1>9. stage' = "launch" => failed' # {}
    BY <1>2
  <1> QED BY <1>2, <1>6, <1>7, <1>8, <1>9 DEF ErrorInv, Excused

LEMMA ErrorInvStep == AddrInv /\ ErrorInv /\ [RaceNext]_raceVars => ErrorInv'
  <1> SUFFICES ASSUME AddrInv, ErrorInv, [RaceNext]_raceVars PROVE ErrorInv'
    OBVIOUS
  <1>0. DOMAIN << >> = {}
    OBVIOUS
  <1>1. CASE NothingToLaunch
    <2>1. /\ UNCHANGED <<lists, firstError, failed>> /\ stage' # "launch"
          /\ DOMAIN attempts' \subseteq DOMAIN attempts
      BY <1>0, <1>1 DEF NothingToLaunch, End
    <2>2. outcome # "error"
      BY <1>1 DEF ErrorInv, NothingToLaunch
    <2>3. \/ outcome' # "error"
          \/ stage' = "done" /\ ~HasRemainingAddrs /\ Excused
      BY <1>1, <2>2 DEF ErrorInv, NothingToLaunch, End
    <2> QED BY <2>1, <2>3, QuietKeeps
  <1>2. CASE DelayElapsed
    <2>1. /\ UNCHANGED <<lists, firstError, failed>> /\ HasRemainingAddrs
          /\ DOMAIN attempts' \subseteq DOMAIN attempts
      BY <1>2 DEF DelayElapsed, MakeRoom, Restrict, Staggers
    <2>2. outcome' # "error"
      BY <1>2 DEF ErrorInv, DelayElapsed
    <2> QED BY <2>1, <2>2, QuietKeeps
  <1>3. CASE PollDeadline \/ Abandon
    <2>1. /\ UNCHANGED <<lists, firstError, failed>> /\ stage' # "launch"
          /\ DOMAIN attempts' \subseteq DOMAIN attempts
      BY <1>0, <1>3 DEF PollDeadline, Abandon, End
    <2>2. outcome' # "error"
      BY <1>3 DEF ErrorInv, PollDeadline, Abandon, End
    <2> QED BY <2>1, <2>2, QuietKeeps
  <1>4. CASE Settle
    <2>1. UNCHANGED <<lists, firstError, failed, outcome, stage>> /\ DOMAIN attempts' = DOMAIN attempts
      BY <1>4 DEF Settle
    <2>2. stage' # "launch" \/ HasRemainingAddrs \/ (stage = "launch" /\ ~HasRemainingAddrs)
      BY <2>1
    <2>3. /\ Orders' = Orders /\ (HasRemainingAddrs' <=> HasRemainingAddrs)
          /\ (Excused' <=> Excused)
      BY <2>1 DEF Orders, HasRemainingAddrs, Excused, lists
    <2> QED BY <2>1, <2>3 DEF ErrorInv
  <1>5. CASE Elapse \/ Expire \/ UNCHANGED raceVars
    <2>1. UNCHANGED <<lists, firstError, failed, outcome, stage, attempts>>
      BY <1>5 DEF Elapse, Expire, raceVars, race
    <2>2. DOMAIN attempts' \subseteq DOMAIN attempts
      BY <2>1
    <2> QED BY <2>1, <2>2, QuietKeeps
  <1> QED BY <1>1, <1>2, <1>3, <1>4, <1>5, LaunchKeeps, LaunchFailsKeeps, PollAttemptsKeeps
         DEF RaceNext, Run

LEMMA ErrorInvHolds == RaceSpec => []ErrorInv
  BY ErrorInvInit, ErrorInvStep, AddrInvHolds, PTL DEF RaceSpec

-----------------------------------------------------------------------------
(* The theorems.                                                           *)

LEMMA NoneRemain ==
    ASSUME AddrInv, ErrorInv, outcome = "error"
    PROVE  Range(tried) = Candidates
  <1>1. preferred = <<>> /\ fallback = <<>>
    BY DEF ErrorInv, HasRemainingAddrs
  <1>2. Range(preferred) = {} /\ Range(fallback) = {}
    BY <1>1 DEF Range
  <1> QED BY <1>2 DEF AddrInv

\* Theorem: next_remote and connect_next give every candidate its turn, each
\* family in resolver order, and connect_inner reports an error only when
\* none is left.
THEOREM EveryAddressIsTried == RaceSpec => []TriesAll
  <1>1. AddrInv /\ ErrorInv => TriesAll
    <2> SUFFICES ASSUME AddrInv, ErrorInv PROVE TriesAll
      OBVIOUS
    <2>1. DOMAIN tried = Orders
      BY LenProperties DEF AddrInv, Queued, Orders
    <2>2. \A i, j \in Orders : i < j /\ family[tried[i]] = family[tried[j]] => tried[i] < tried[j]
      BY <2>1 DEF AddrInv, Queued
    <2> QED BY <2>2, NoneRemain DEF TriesAll
  <1> QED BY <1>1, AddrInvHolds, ErrorInvHolds, PTL

\* Theorem: the error take_error reports is that of the earliest attempt that
\* failed, whatever the order of the failures, and it is missing only when
\* there was no address.
THEOREM EarliestErrorIsKept == RaceSpec => []ErrorIsEarliest
  <1>1. AddrInv /\ ErrorInv => ErrorIsEarliest
    <2> SUFFICES ASSUME AddrInv, ErrorInv, outcome = "error"
                 PROVE  IF Candidates = {} THEN firstError = 0 ELSE firstError = Min(failed)
      BY DEF ErrorIsEarliest
    <2>1. Range(tried) = Candidates
      BY NoneRemain
    <2>2. Len(tried) \in Nat /\ DOMAIN tried = 1..Len(tried)
      BY LenProperties DEF AddrInv, Queued
    <2>3. CASE tried = <<>>
      <3>1. Range(tried) = {} /\ DOMAIN tried = {}
        BY <2>3 DEF Range
      <3>2. failed = {}
        BY <2>2, <3>1 DEF ErrorInv, Orders
      <3> QED BY <2>1, <3>1, <3>2 DEF ErrorInv
    <2>4. CASE tried # <<>>
      <3>1. failed # {}
        BY <2>4 DEF ErrorInv, Excused
      <3>2. PICK i \in failed : i \in DOMAIN tried
        BY <2>2, <3>1 DEF ErrorInv, Orders
      <3>3. Range(tried) # {}
        BY <3>2 DEF Range
      <3> QED BY <2>1, <3>1, <3>3 DEF ErrorInv
    <2> QED BY <2>3, <2>4
  <1> QED BY <1>1, AddrInvHolds, ErrorInvHolds, PTL
=============================================================================

------------------------ MODULE StreamResponseProofs ------------------------
(***************************************************************************)
(* Theorems about StreamResponse, for every number of readers: the handle  *)
(* implements LentBody, and a body that has not ended looks ended only     *)
(* behind a read whose wrapper is about to close the response.             *)
(***************************************************************************)
EXTENDS StreamResponse, SequenceTheorems, TLAPS

-----------------------------------------------------------------------------
(* The queue of the tokio Mutex has no repetitions: a read joins it at the *)
(* end, leaves it at its head, or gives up wherever it waits.              *)

LEMMA QueueJoined ==
    ASSUME NEW S, NEW s \in Seq(S), IsInjective(s), NEW e \in S, e \notin Range(s)
    PROVE  /\ Append(s, e) \in Seq(S) /\ IsInjective(Append(s, e))
           /\ Range(Append(s, e)) = Range(s) \cup {e}
           /\ Append(s, e) # <<>>
           /\ Head(Append(s, e)) = IF s = <<>> THEN e ELSE Head(s)
  <1> DEFINE t == Append(s, e)
  <1>1. /\ t \in Seq(S) /\ t # <<>> /\ Len(t) = Len(s) + 1
        /\ t[Len(s) + 1] = e /\ \A i \in 1..Len(s) : t[i] = s[i]
        /\ DOMAIN t = 1..(Len(s) + 1) /\ DOMAIN s = 1..Len(s) /\ Len(s) \in Nat
    BY AppendProperties
  <1> HIDE DEF t
  <1>2. IsInjective(t) /\ Range(t) = Range(s) \cup {e}
    BY <1>1 DEF IsInjective, Range
  <1>3. Head(t) = IF s = <<>> THEN e ELSE Head(s)
    BY <1>1
  <1> QED BY <1>1, <1>2, <1>3 DEF t

LEMMA QueueUnlocked ==
    ASSUME NEW S, NEW s \in Seq(S), IsInjective(s), s # <<>>
    PROVE  /\ Tail(s) \in Seq(S) /\ IsInjective(Tail(s))
           /\ Range(Tail(s)) = Range(s) \ {Head(s)}
  <1> DEFINE t == Tail(s)
  <1>1. /\ t \in Seq(S) /\ Len(t) = Len(s) - 1
        /\ \A i \in 1..Len(t) : t[i] = s[i + 1]
        /\ Head(s) = s[1]
    BY HeadTailProperties
  <1>2. /\ DOMAIN t = 1..(Len(s) - 1) /\ DOMAIN s = 1..Len(s)
        /\ Len(s) \in Nat \ {0}
    BY <1>1
  <1> HIDE DEF t
  <1>3. IsInjective(t)
    BY <1>1, <1>2 DEF IsInjective
  <1>4. Range(t) \subseteq Range(s) \ {Head(s)}
    BY <1>1, <1>2 DEF Range, IsInjective
  <1>5. ASSUME NEW i \in 1..Len(s), s[i] # Head(s)
        PROVE  s[i] \in Range(t)
    <2>1. i - 1 \in 1..(Len(s) - 1) /\ t[i - 1] = s[i]
      BY <1>1, <1>2, <1>5
    <2> QED BY <1>2, <2>1 DEF Range
  <1>6. Range(s) \ {Head(s)} \subseteq Range(t)
    BY <1>2, <1>5 DEF Range
  <1> QED BY <1>1, <1>3, <1>4, <1>6 DEF t

\* RemoveFirst takes out the one position a task has.
LEMMA RemovedAt ==
    ASSUME NEW S, NEW s \in Seq(S), IsInjective(s), NEW n \in 1..Len(s)
    PROVE  RemoveFirst(s, s[n]) = SubSeq(s, 1, n - 1) \o SubSeq(s, n + 1, Len(s))
  <1> DEFINE I == {i \in 1..Len(s) : s[i] = s[n]}
  <1>1. I = {n}
    BY DEF IsInjective
  <1>2. Min(I) = n
    BY <1>1 DEF Min
  <1>3. SelectInSeq(s, LAMBDA v : v = s[n]) = n
    BY <1>1, <1>2 DEF SelectInSeq
  <1> QED BY <1>3 DEF RemoveFirst, RemoveAt

LEMMA QueueLeft ==
    ASSUME NEW S, NEW s \in Seq(S), IsInjective(s), NEW e
    PROVE  /\ RemoveFirst(s, e) \in Seq(S) /\ IsInjective(RemoveFirst(s, e))
           /\ Range(RemoveFirst(s, e)) = Range(s) \ {e}
           /\ s # <<>> /\ Head(s) # e =>
                RemoveFirst(s, e) # <<>> /\ Head(RemoveFirst(s, e)) = Head(s)
           /\ Len(RemoveFirst(s, e)) <= Len(s)
           /\ e \notin Range(s) => RemoveFirst(s, e) = s
  <1>1. CASE e \notin Range(s)
    <2>1. RemoveFirst(s, e) = s
      BY <1>1 DEF RemoveFirst, Range
    <2>2. Len(s) <= Len(s)
      BY LenProperties
    <2> QED BY <1>1, <2>1, <2>2
  <1>2. CASE e \in Range(s)
    <2>1. PICK n \in 1..Len(s) : s[n] = e
      BY <1>2, LenProperties DEF Range
    <2> DEFINE a == SubSeq(s, 1, n - 1)
               b == SubSeq(s, n + 1, Len(s))
               t == a \o b
    <2>2. /\ Len(s) \in Nat \ {0} /\ n \in Nat \ {0} /\ n <= Len(s)
          /\ DOMAIN s = 1..Len(s)
      BY LenProperties
    <2>3. /\ a \in Seq(S) /\ Len(a) = n - 1
          /\ \A i \in 1..(n - 1) : a[i] = s[i]
      <3>1. 1 \in Int /\ n - 1 \in Int /\ \A i \in 1..(n - 1) : s[i] \in S
        BY <2>2
      <3>2. /\ a \in Seq(S)
            /\ Len(a) = IF 1 <= n - 1 THEN (n - 1) - 1 + 1 ELSE 0
            /\ \A i \in 1..((n - 1) - 1 + 1) : a[i] = s[1 + i - 1]
        BY <3>1, SubSeqProperties
      <3> QED BY <2>2, <3>2
    <2>4. /\ b \in Seq(S) /\ Len(b) = Len(s) - n
          /\ \A i \in 1..(Len(s) - n) : b[i] = s[n + i]
      <3>1. n + 1 \in Int /\ Len(s) \in Int /\ \A i \in (n + 1)..Len(s) : s[i] \in S
        BY <2>2
      <3>2. /\ b \in Seq(S)
            /\ Len(b) = IF n + 1 <= Len(s) THEN Len(s) - (n + 1) + 1 ELSE 0
            /\ \A i \in 1..(Len(s) - (n + 1) + 1) : b[i] = s[n + 1 + i - 1]
        BY <3>1, SubSeqProperties
      <3> HIDE DEF b
      <3>3. Len(b) = Len(s) - n
        <4>1. CASE n + 1 <= Len(s)
          BY <2>2, <3>2, <4>1
        <4>2. CASE ~(n + 1 <= Len(s))
          <5>1. Len(s) \in Nat /\ n \in Nat /\ n <= Len(s)
            BY <2>2
          <5>2. Len(s) - n = 0
            BY <4>2, <5>1
          <5> QED BY <3>2, <4>2, <5>2, Zenon
        <4> QED BY <4>1, <4>2
      <3>4. ASSUME NEW i \in 1..(Len(s) - n)
            PROVE  b[i] = s[n + i]
        <4>1. i \in 1..(Len(s) - (n + 1) + 1) /\ n + 1 + i - 1 = n + i
          BY <2>2
        <4> QED BY <3>2, <4>1
      <3> QED BY <3>2, <3>3, <3>4
    <2> HIDE DEF a, b
    <2>5. /\ t \in Seq(S) /\ Len(t) = Len(s) - 1
          /\ \A i \in 1..(Len(s) - 1) : t[i] = IF i < n THEN s[i] ELSE s[i + 1]
      <3>1. t \in Seq(S) /\ Len(t) = Len(a) + Len(b)
            /\ \A i \in 1..(Len(a) + Len(b)) :
                 t[i] = IF i <= Len(a) THEN a[i] ELSE b[i - Len(a)]
        BY <2>3, <2>4, ConcatProperties
      <3> HIDE DEF t
      <3>2. Len(t) = Len(s) - 1
        BY <2>2, <2>3, <2>4, <3>1
      <3>3. ASSUME NEW i \in 1..(Len(s) - 1)
            PROVE  t[i] = IF i < n THEN s[i] ELSE s[i + 1]
        <4>1. t[i] = IF i <= n - 1 THEN a[i] ELSE b[i - (n - 1)]
          BY <2>2, <2>3, <2>4, <3>1
        <4>2. CASE i < n
          BY <2>2, <2>3, <4>1, <4>2
        <4>3. CASE ~(i < n)
          <5>1. /\ i - (n - 1) \in 1..(Len(s) - n) /\ n + (i - (n - 1)) = i + 1
                /\ ~(i <= n - 1)
            BY <2>2, <4>3
          <5> QED BY <2>4, <4>1, <4>3, <5>1
        <4> QED BY <4>2, <4>3
      <3> QED BY <3>1, <3>2, <3>3
    <2> HIDE DEF t
    <2>6. RemoveFirst(s, e) = t /\ DOMAIN t = 1..(Len(s) - 1)
      <3>1. RemoveFirst(s, s[n]) = t
        BY RemovedAt DEF t, a, b
      <3> QED BY <2>1, <2>2, <2>5, <3>1
    <2>7. IsInjective(t)
      BY <2>2, <2>5, <2>6 DEF IsInjective
    <2>8. Range(t) \subseteq Range(s) \ {e}
      BY <2>1, <2>2, <2>5, <2>6 DEF Range, IsInjective
    <2>9. ASSUME NEW i \in 1..Len(s), s[i] # e
          PROVE  s[i] \in Range(t)
      <3>1. CASE i < n
        BY <2>2, <2>5, <2>6, <3>1 DEF Range
      <3>2. CASE i > n
        <4>1. i - 1 \in 1..(Len(s) - 1) /\ t[i - 1] = s[i]
          BY <2>2, <2>5, <3>2
        <4> QED BY <2>6, <4>1 DEF Range
      <3> QED BY <2>1, <2>2, <2>9, <3>1, <3>2
    <2>10. ASSUME Head(s) # e
           PROVE  t # <<>> /\ Head(t) = Head(s)
      <3>1. n > 1
        BY <2>1, <2>2, <2>10
      <3> QED BY <2>2, <2>5, <3>1
    <2>11. Range(s) \ {e} \subseteq Range(t)
      BY <2>2, <2>9 DEF Range
    <2>12. Len(t) <= Len(s)
      BY <2>2, <2>5
    <2> QED BY <1>2, <2>5, <2>6, <2>7, <2>8, <2>10, <2>11, <2>12
  <1> QED BY <1>1, <1>2

-----------------------------------------------------------------------------
Queued == {"lock", "enter", "read", "check", "put"}
Inside == {"enter", "read", "check", "put"}
Owning == {"read", "check", "put"}

\* The reads in the queue of the lock are those that have asked for it; those
\* past it hold it; the ones past the take own the stream, which then is not in
\* the slot.
BodyHasOnePlace ==
    /\ \A r \in Tasks : r \in Range(line) <=> pc[r] \in Queued
    /\ \A r \in Tasks : pc[r] \in Inside => Holds(r)
    /\ owns = {r \in Tasks : pc[r] \in Owning}
    /\ owns # {} => ~slot

\* A close that is under way has cancelled the token; an abandoned read is owed
\* a close, and no other read that runs is; what a read saw last is what the
\* transport said last.
CloseIsOwed ==
    /\ \A x \in Tasks \cup {App} : closing[x] = "clear" => cancelled
    /\ \A r \in abandoned : ~cancelled => closing[r] = "cancel"
    /\ \A r \in Tasks : pc[r] # "idle" /\ closing[r] # "idle" => r \in abandoned
    /\ \A r \in Tasks : pc[r] = "check" /\ ~cancelled =>
         /\ out[r] # "cancelled"
         /\ out[r] = "eof" => ended = "eof"

\* A response that is not closed and has its body neither in the slot nor in a
\* read has seen the end, or a wrapper is about to close it.
LossIsOwed ==
    ~slot /\ owns = {} /\ ~cancelled =>
        ended = "eof" \/ \E r \in Tasks : closing[r] = "cancel"

-----------------------------------------------------------------------------
(* One read at a time.                                                     *)

LEMMA OneOwner ==
    ASSUME BodyHasOnePlace, NEW q \in Tasks, NEW r \in Tasks,
           pc[q] \in Inside \/ (pc[q] \in Queued /\ Holds(q)),
           pc[r] \in Inside \/ (pc[r] \in Queued /\ Holds(r))
    PROVE  q = r
  BY DEF BodyHasOnePlace, Holds

\* The holder unlocks.
LEMMA ReturnQueue ==
    ASSUME TypeOK, BodyHasOnePlace, NEW r \in Tasks, NEW v, Return(r, v),
           pc[r] \in Queued, Holds(r)
    PROVE  /\ line' \in Seq(Tasks) /\ IsInjective(line')
           /\ pc' \in [Tasks -> Steps]
           /\ \A q \in Tasks : q \in Range(line') <=> pc'[q] \in Queued
           /\ \A q \in Tasks : pc'[q] \notin Inside
           /\ owns' = {q \in Tasks : pc'[q] \in Owning} /\ owns' = {}
           /\ owns \subseteq {r} /\ (r \in owns <=> pc[r] \in Owning)
  <1>1. /\ line' = Tail(line) /\ pc' = [pc EXCEPT ![r] = "idle"] /\ owns' = owns \ {r}
        /\ line \in Seq(Tasks) /\ IsInjective(line) /\ line # <<>> /\ Head(line) = r
        /\ pc \in [Tasks -> Steps]
    BY DEF Return, TypeOK, Holds
  <1>2. line' \in Seq(Tasks) /\ IsInjective(line') /\ Range(line') = Range(line) \ {r}
    BY <1>1, QueueUnlocked
  <1>3. pc'[r] = "idle" /\ \A q \in Tasks : q # r => pc'[q] = pc[q]
    BY <1>1
  <1>4. \A q \in Tasks : q # r => pc[q] \notin Inside
    BY OneOwner
  <1>5. \A q \in Tasks : q \in Range(line') <=> pc'[q] \in Queued
    BY <1>2, <1>3 DEF BodyHasOnePlace, Queued
  <1>6. \A q \in Tasks : pc'[q] \notin Inside
    BY <1>3, <1>4 DEF Inside
  <1>7. owns \subseteq {r} /\ (r \in owns <=> pc[r] \in Owning)
    BY <1>4 DEF BodyHasOnePlace, Owning, Inside
  <1>8. owns' = {} /\ owns' = {q \in Tasks : pc'[q] \in Owning}
    BY <1>1, <1>6, <1>7 DEF Owning, Inside
  <1>9. pc' \in [Tasks -> Steps]
    BY <1>1 DEF Steps
  <1> QED BY <1>2, <1>5, <1>6, <1>7, <1>8, <1>9

\* A step that leaves the queue alone and moves r from one step of a read to
\* another on the same side of the lock and of the take.
LEMMA MoveQueue ==
    ASSUME TypeOK, BodyHasOnePlace, NEW r \in Tasks, NEW step \in Steps,
           pc' = [pc EXCEPT ![r] = step], UNCHANGED <<line, owns, slot>>,
           step \in Queued <=> pc[r] \in Queued,
           step \in Inside => pc[r] \in Inside,
           step \in Owning <=> pc[r] \in Owning
    PROVE  BodyHasOnePlace' /\ pc' \in [Tasks -> Steps]
  <1>1. pc'[r] = step /\ \A q \in Tasks : q # r => pc'[q] = pc[q]
    BY DEF TypeOK
  <1>2. pc' \in [Tasks -> Steps]
    BY DEF TypeOK
  <1> QED BY <1>1, <1>2 DEF BodyHasOnePlace, Holds

LEMMA SameQueue ==
    ASSUME BodyHasOnePlace, UNCHANGED <<line, owns, pc>>, slot' => slot
    PROVE  BodyHasOnePlace'
  BY DEF BodyHasOnePlace, Holds

-----------------------------------------------------------------------------
(* Type correctness and the place of the body.                             *)

LEMMA ReturnType ==
    ASSUME TypeOK, NEW r \in Tasks, NEW v, Return(r, v)
    PROVE  /\ owns' \in SUBSET Tasks /\ abandoned' \in SUBSET Tasks
           /\ closing' \in [Tasks \cup {App} -> Closing] /\ dropped' \in BOOLEAN
           /\ out' \in [Tasks -> Outputs]
  BY DEF TypeOK, Return, Closing, Outputs

LEMMA BodyStep ==
    TypeOK /\ BodyHasOnePlace /\ [Next]_vars => TypeOK' /\ BodyHasOnePlace'
  <1> SUFFICES ASSUME TypeOK, BodyHasOnePlace, [Next]_vars
               PROVE  TypeOK' /\ BodyHasOnePlace'
    OBVIOUS
  <1>0. /\ line \in Seq(Tasks) /\ IsInjective(line) /\ pc \in [Tasks -> Steps]
        /\ slot \in BOOLEAN /\ owns \in SUBSET Tasks
    BY DEF TypeOK
  <1>1. ASSUME NEW r \in Tasks, Call(r)
        PROVE  TypeOK' /\ BodyHasOnePlace'
    <2>1. BodyHasOnePlace' /\ pc' \in [Tasks -> Steps]
      BY <1>1, MoveQueue DEF Call, Queued, Inside, Owning, Steps
    <2> QED BY <1>1, <2>1 DEF Call, TypeOK, Outputs
  <1>2. ASSUME NEW r \in Tasks, Lock(r)
        PROVE  TypeOK' /\ BodyHasOnePlace'
    <2>1. /\ line' = Append(line, r) /\ pc[r] = "start" /\ UNCHANGED <<slot, owns>>
          /\ pc' = [pc EXCEPT ![r] = IF line = <<>> THEN "enter" ELSE "lock"]
      BY <1>2 DEF Lock
    <2>2. r \notin Range(line)
      BY <2>1 DEF BodyHasOnePlace, Queued
    <2>3. /\ line' \in Seq(Tasks) /\ IsInjective(line') /\ line' # <<>>
          /\ Range(line') = Range(line) \cup {r}
          /\ Head(line') = IF line = <<>> THEN r ELSE Head(line)
      BY <1>0, <2>1, <2>2, QueueJoined
    <2>4. /\ pc'[r] = (IF line = <<>> THEN "enter" ELSE "lock")
          /\ \A q \in Tasks : q # r => pc'[q] = pc[q]
      BY <1>0, <2>1
    <2>5. pc' \in [Tasks -> Steps]
      BY <1>0, <2>1 DEF Steps
    <2>6. \A q \in Tasks : q \in Range(line') <=> pc'[q] \in Queued
      BY <2>3, <2>4 DEF BodyHasOnePlace, Queued
    <2>7. \A q \in Tasks : pc'[q] \in Inside => line' # <<>> /\ Head(line') = q
      BY <2>1, <2>3, <2>4 DEF BodyHasOnePlace, Inside, Holds
    <2>8. owns' = {q \in Tasks : pc'[q] \in Owning}
      BY <2>1, <2>4 DEF BodyHasOnePlace, Owning
    <2>9. BodyHasOnePlace'
      BY <2>1, <2>6, <2>7, <2>8 DEF BodyHasOnePlace, Holds
    <2> QED BY <1>2, <2>3, <2>5, <2>9 DEF Lock, TypeOK
  <1>r. ASSUME NEW r \in Tasks, NEW v, Return(r, v), pc[r] \in Queued, Holds(r),
               slot' \in BOOLEAN
        PROVE  /\ BodyHasOnePlace'
               /\ UNCHANGED <<cancelled, ended>> => TypeOK'
    <2>1. BodyHasOnePlace'
      BY <1>r, ReturnQueue DEF BodyHasOnePlace
    <2>2. ASSUME UNCHANGED <<cancelled, ended>>
          PROVE  TypeOK'
      BY <1>r, <2>2, ReturnQueue, ReturnType DEF TypeOK
    <2> QED BY <2>1, <2>2
  <1>3. ASSUME NEW r \in Tasks, Locked(r)
        PROVE  TypeOK' /\ BodyHasOnePlace'
    <2>0. pc[r] \in {"lock", "enter"} /\ pc[r] \in Queued /\ Holds(r)
          /\ UNCHANGED <<cancelled, ended>>
      BY <1>3 DEF Locked, Queued
    <2>1. ASSUME NEW v, Return(r, v), slot' \in BOOLEAN
          PROVE  TypeOK' /\ BodyHasOnePlace'
      BY <1>r, <2>0, <2>1
    <2>2. ASSUME Take(r), pc' = [pc EXCEPT ![r] = "read"],
                 UNCHANGED <<line, dropped, out, abandoned, closing>>
          PROVE  TypeOK' /\ BodyHasOnePlace'
      <3>1. pc'[r] = "read" /\ \A q \in Tasks : q # r => pc'[q] = pc[q]
        BY <1>0, <2>2
      <3>2. owns' = owns \cup {r} /\ slot' = FALSE
        BY <2>2 DEF Take
      <3>3. owns' = {q \in Tasks : pc'[q] \in Owning}
        BY <3>1, <3>2 DEF BodyHasOnePlace, Owning
      <3>4. BodyHasOnePlace'
        BY <2>0, <2>2, <3>1, <3>2, <3>3 DEF BodyHasOnePlace, Queued, Inside, Holds
      <3>5. pc' \in [Tasks -> Steps]
        BY <1>0, <2>2 DEF Steps
      <3> QED BY <2>0, <2>2, <3>2, <3>4, <3>5 DEF TypeOK
    <2> QED BY <1>0, <1>3, <2>1, <2>2 DEF Locked
  <1>4. ASSUME NEW r \in Tasks, NEW v \in {"chunk", "eof", "error"}, Pull(r, v)
        PROVE  TypeOK' /\ BodyHasOnePlace'
    <2>1. BodyHasOnePlace' /\ pc' \in [Tasks -> Steps]
      BY <1>4, MoveQueue DEF Pull, Queued, Inside, Owning, Steps
    <2> QED BY <1>4, <2>1 DEF Pull, TypeOK, Outputs
  <1>5. ASSUME NEW r \in Tasks, Woken(r)
        PROVE  TypeOK' /\ BodyHasOnePlace'
    <2>1. BodyHasOnePlace' /\ pc' \in [Tasks -> Steps]
      BY <1>5, MoveQueue DEF Woken, Queued, Inside, Owning, Steps
    <2> QED BY <1>5, <2>1 DEF Woken, TypeOK, Outputs
  <1>6. ASSUME NEW r \in Tasks, Check(r)
        PROVE  TypeOK' /\ BodyHasOnePlace'
    <2>0. pc[r] = "check" /\ pc[r] \in Queued /\ Holds(r)
          /\ UNCHANGED <<slot, cancelled, ended>>
      BY <1>6 DEF Check, Queued, Inside, BodyHasOnePlace
    <2>1. ASSUME NEW v, Return(r, v)
          PROVE  TypeOK' /\ BodyHasOnePlace'
      BY <1>0, <1>r, <2>0, <2>1
    <2>2. ASSUME pc' = [pc EXCEPT ![r] = "put"],
                 UNCHANGED <<line, owns, dropped, out, abandoned, closing>>
          PROVE  TypeOK' /\ BodyHasOnePlace'
      <3>1. BodyHasOnePlace' /\ pc' \in [Tasks -> Steps]
        BY <2>0, <2>2, MoveQueue DEF Queued, Inside, Owning, Steps
      <3> QED BY <2>0, <2>2, <3>1 DEF TypeOK
    <2> QED BY <1>6, <2>1, <2>2 DEF Check
  <1>7. ASSUME NEW r \in Tasks, Put(r)
        PROVE  TypeOK' /\ BodyHasOnePlace'
    <2>0. pc[r] \in Queued /\ Holds(r)
      BY <1>7 DEF Put, Queued, Inside, BodyHasOnePlace
    <2> QED BY <1>7, <1>r, <2>0 DEF Put
  <1>8. ASSUME NEW r \in Tasks, Abandon(r)
        PROVE  TypeOK' /\ BodyHasOnePlace'
    BY <1>8, SameQueue DEF Abandon, TypeOK, Closing
  <1>9. ASSUME NEW r \in Tasks, DropRead(r)
        PROVE  TypeOK' /\ BodyHasOnePlace'
    <2>1. /\ line' = RemoveFirst(line, r) /\ pc[r] \in Awaits
          /\ pc' = [pc EXCEPT ![r] = "idle"]
          /\ owns' = owns \ {r} /\ UNCHANGED slot
      BY <1>9 DEF DropRead
    <2>2. /\ line' \in Seq(Tasks) /\ IsInjective(line')
          /\ Range(line') = Range(line) \ {r}
          /\ line # <<>> /\ Head(line) # r => line' # <<>> /\ Head(line') = Head(line)
      BY <1>0, <2>1, QueueLeft
    <2>3. pc'[r] = "idle" /\ \A q \in Tasks : q # r => pc'[q] = pc[q]
      BY <1>0, <2>1
    <2>4. \A q \in Tasks : q \in Range(line') <=> pc'[q] \in Queued
      BY <2>2, <2>3 DEF BodyHasOnePlace, Queued
    <2>5. \A q \in Tasks : pc'[q] \in Inside => line' # <<>> /\ Head(line') = q
      BY <2>2, <2>3 DEF BodyHasOnePlace, Inside, Holds
    <2>6. owns' = {q \in Tasks : pc'[q] \in Owning}
      BY <2>1, <2>3 DEF BodyHasOnePlace, Owning
    <2>7. BodyHasOnePlace'
      BY <2>1, <2>4, <2>5, <2>6 DEF BodyHasOnePlace, Holds
    <2>8. pc' \in [Tasks -> Steps]
      BY <1>0, <2>1 DEF Steps
    <2> QED BY <1>9, <2>2, <2>7, <2>8 DEF DropRead, TypeOK
  <1>10. ASSUME NEW x \in Tasks \cup {App}, Cancel(x)
         PROVE  TypeOK' /\ BodyHasOnePlace'
    BY <1>10, SameQueue DEF Cancel, TypeOK, Closing
  <1>11. ASSUME NEW x \in Tasks \cup {App}, Clear(x)
         PROVE  TypeOK' /\ BodyHasOnePlace'
    BY <1>11, SameQueue DEF Clear, TypeOK, Closing
  <1>12. ASSUME Drop
         PROVE  TypeOK' /\ BodyHasOnePlace'
    BY <1>12, SameQueue DEF Drop, TypeOK
  <1>13. ASSUME UNCHANGED vars
         PROVE  TypeOK' /\ BodyHasOnePlace'
    BY <1>13, SameQueue DEF vars, TypeOK
  <1> QED
    BY <1>1, <1>2, <1>3, <1>4, <1>5, <1>6, <1>7, <1>8, <1>9, <1>10, <1>11, <1>12,
       <1>13 DEF Next

LEMMA BodyInit == Init => TypeOK /\ BodyHasOnePlace
  <1> SUFFICES ASSUME Init
               PROVE  TypeOK /\ BodyHasOnePlace
    OBVIOUS
  <1>1. line \in Seq(Tasks) /\ IsInjective(line) /\ Range(line) = {}
    BY DEF Init, IsInjective, Range
  <1> QED
    BY <1>1 DEF Init, TypeOK, BodyHasOnePlace, Steps, Outputs, Closing, Queued, Inside, Owning

-----------------------------------------------------------------------------
(* No silent truncation.                                                   *)

\* Returning, a read that saw an error leaves a close that is owed.
LEMMA ReturnOwes ==
    ASSUME TypeOK, CloseIsOwed, NEW r \in Tasks, NEW v, Return(r, v),
           UNCHANGED cancelled
    PROVE  /\ \A x \in Tasks \cup {App} : closing'[x] = "clear" => cancelled'
           /\ \A q \in abandoned' : ~cancelled' => closing'[q] = "cancel"
           /\ \A q \in Tasks : closing[q] = "cancel" => closing'[q] = "cancel"
           /\ v \in {"error", "cancelled"} /\ ~cancelled => closing'[r] = "cancel"
  <1>1. /\ closing'[r] = (IF v \in {"error", "cancelled"} /\ r \notin abandoned
                         THEN "cancel" ELSE closing[r])
        /\ \A x \in Tasks \cup {App} : x # r => closing'[x] = closing[x]
        /\ abandoned' = abandoned \ {r} /\ abandoned \subseteq Tasks
    BY DEF Return, TypeOK
  <1> QED BY <1>1 DEF CloseIsOwed

LEMMA OwedStep ==
    /\ TypeOK /\ BodyHasOnePlace /\ CloseIsOwed /\ LossIsOwed
    /\ [Next]_vars
    => CloseIsOwed' /\ LossIsOwed'
  <1> SUFFICES ASSUME TypeOK, BodyHasOnePlace, CloseIsOwed, LossIsOwed, [Next]_vars
               PROVE  CloseIsOwed' /\ LossIsOwed'
    OBVIOUS
  <1>0. /\ pc \in [Tasks -> Steps] /\ out \in [Tasks -> Outputs]
        /\ closing \in [Tasks \cup {App} -> Closing] /\ abandoned \subseteq Tasks
        /\ App \notin Tasks
    BY TasksAssumption DEF TypeOK
  <1>1. ASSUME NEW r \in Tasks, Call(r)
        PROVE  CloseIsOwed' /\ LossIsOwed'
    <2>1. /\ pc'[r] = "start" /\ closing[r] = "idle"
          /\ \A q \in Tasks : q # r => pc'[q] = pc[q] /\ out'[q] = out[q]
      BY <1>0, <1>1 DEF Call
    <2> QED BY <1>1, <2>1 DEF Call, CloseIsOwed, LossIsOwed
  <1>2. ASSUME NEW r \in Tasks, Lock(r)
        PROVE  CloseIsOwed' /\ LossIsOwed'
    <2>1. pc'[r] \in {"enter", "lock"} /\ \A q \in Tasks : q # r => pc'[q] = pc[q]
      BY <1>0, <1>2 DEF Lock
    <2> QED BY <1>2, <2>1 DEF Lock, CloseIsOwed, LossIsOwed
  <1>r. ASSUME NEW r \in Tasks, NEW v, Return(r, v), UNCHANGED <<cancelled, ended>>
        PROVE  CloseIsOwed'
    <2>1. /\ pc'[r] = "idle" /\ \A q \in Tasks : q # r => pc'[q] = pc[q]
          /\ \A q \in Tasks : q # r => out'[q] = out[q] /\ closing'[q] = closing[q]
          /\ abandoned' = abandoned \ {r}
      BY <1>0, <1>r DEF Return
    <2> QED BY <1>r, <2>1, ReturnOwes DEF CloseIsOwed
  <1>3. ASSUME NEW r \in Tasks, Locked(r)
        PROVE  CloseIsOwed' /\ LossIsOwed'
    <2>0. /\ pc[r] \in {"lock", "enter"} /\ pc[r] \in Queued /\ Holds(r)
          /\ UNCHANGED <<cancelled, ended>>
      BY <1>3 DEF Locked, Queued
    <2>1. CASE cancelled /\ Return(r, "cancelled")
      BY <1>r, <2>0, <2>1 DEF LossIsOwed
    <2>2. CASE Return(r, "eof") /\ ~slot /\ UNCHANGED slot
      <3>1. CloseIsOwed'
        BY <1>r, <2>0, <2>2
      <3>2. owns = {}
        BY <2>0, <2>2, ReturnQueue DEF Owning
      <3> QED BY <2>0, <2>2, <3>1, <3>2, ReturnOwes DEF LossIsOwed
    <2>3. CASE /\ Take(r) /\ pc' = [pc EXCEPT ![r] = "read"]
               /\ UNCHANGED <<line, dropped, out, abandoned, closing>>
      <3>1. pc'[r] = "read" /\ \A q \in Tasks : q # r => pc'[q] = pc[q]
        BY <1>0, <2>3
      <3>2. owns' # {}
        BY <2>3 DEF Take
      <3> QED BY <2>0, <2>3, <3>1, <3>2 DEF CloseIsOwed, LossIsOwed
    <2> QED BY <1>3, <2>1, <2>2, <2>3 DEF Locked, Refused
  <1>4. ASSUME NEW r \in Tasks, NEW v \in {"chunk", "eof", "error"}, Pull(r, v)
        PROVE  CloseIsOwed' /\ LossIsOwed'
    <2>1. /\ pc[r] = "read" /\ r \in owns
          /\ \A q \in Tasks : q # r => pc[q] # "check"
      BY <1>4, OneOwner DEF Pull, BodyHasOnePlace, Owning, Inside
    <2>2. /\ pc'[r] = "check" /\ \A q \in Tasks : q # r => pc'[q] = pc[q]
          /\ out'[r] = v
      BY <1>0, <1>4 DEF Pull
    <2>3. ended' = IF v = "chunk" THEN "open" ELSE v
      BY <1>4 DEF Pull
    <2>4. \A q \in Tasks : pc'[q] = "check" =>
             out'[q] # "cancelled" /\ (out'[q] = "eof" => ended' = "eof")
      BY <2>1, <2>2, <2>3
    <2> QED BY <1>4, <2>1, <2>4 DEF Pull, CloseIsOwed, LossIsOwed
  <1>5. ASSUME NEW r \in Tasks, Woken(r)
        PROVE  CloseIsOwed' /\ LossIsOwed'
    BY <1>5 DEF Woken, CloseIsOwed, LossIsOwed
  <1>6. ASSUME NEW r \in Tasks, Check(r)
        PROVE  CloseIsOwed' /\ LossIsOwed'
    <2>0. pc[r] = "check" /\ UNCHANGED <<slot, cancelled, ended>>
      BY <1>6 DEF Check
    <2>1. CASE cancelled /\ Return(r, "cancelled")
      BY <1>r, <2>0, <2>1 DEF LossIsOwed
    <2>2. CASE ~cancelled /\ out[r] # "chunk" /\ Return(r, out[r])
      <3>1. CloseIsOwed'
        BY <1>r, <2>0, <2>2
      <3>2. CASE out[r] = "eof"
        BY <2>0, <2>2, <3>1, <3>2 DEF CloseIsOwed, LossIsOwed
      <3>3. CASE out[r] = "error"
        BY <2>0, <2>2, <3>1, <3>3, ReturnOwes DEF LossIsOwed
      <3> QED BY <1>0, <2>0, <2>2, <3>2, <3>3 DEF CloseIsOwed, Outputs
    <2>3. CASE /\ pc' = [pc EXCEPT ![r] = "put"]
               /\ UNCHANGED <<line, owns, dropped, out, abandoned, closing>>
      <3>1. pc'[r] = "put" /\ \A q \in Tasks : q # r => pc'[q] = pc[q]
        BY <1>0, <2>3
      <3> QED BY <2>0, <2>3, <3>1 DEF CloseIsOwed, LossIsOwed
    <2> QED BY <1>6, <2>1, <2>2, <2>3 DEF Check
  <1>7. ASSUME NEW r \in Tasks, Put(r)
        PROVE  CloseIsOwed' /\ LossIsOwed'
    BY <1>7, <1>r DEF Put, LossIsOwed
  <1>8. ASSUME NEW r \in Tasks, Abandon(r)
        PROVE  CloseIsOwed' /\ LossIsOwed'
    <2>1. closing'[r] = "cancel" /\ \A x \in Tasks \cup {App} : x # r => closing'[x] = closing[x]
      BY <1>0, <1>8 DEF Abandon
    <2>2. /\ abandoned' = abandoned \cup {r} /\ closing[r] = "idle"
          /\ UNCHANGED <<slot, cancelled, ended, pc, owns, out>>
      BY <1>8 DEF Abandon
    <2> QED BY <1>0, <2>1, <2>2 DEF CloseIsOwed, LossIsOwed
  <1>9. ASSUME NEW r \in Tasks, DropRead(r)
        PROVE  CloseIsOwed' /\ LossIsOwed'
    <2>1. pc'[r] = "idle" /\ \A q \in Tasks : q # r => pc'[q] = pc[q]
      BY <1>0, <1>9 DEF DropRead
    <2>2. ~cancelled => closing[r] = "cancel"
      BY <1>9 DEF DropRead, CloseIsOwed
    <2>3. /\ abandoned' = abandoned \ {r}
          /\ UNCHANGED <<slot, cancelled, ended, out, closing>>
      BY <1>9 DEF DropRead
    <2> QED BY <2>1, <2>2, <2>3 DEF CloseIsOwed, LossIsOwed
  <1>10. ASSUME NEW x \in Tasks \cup {App}, Cancel(x)
         PROVE  CloseIsOwed' /\ LossIsOwed'
    <2>1. /\ cancelled' = TRUE /\ UNCHANGED <<pc, out, ended, abandoned>>
          /\ x \in Tasks => closing[x] # "idle"
          /\ \A y \in Tasks \cup {App} : y # x => closing'[y] = closing[y]
      BY <1>0, <1>10 DEF Cancel
    <2> QED BY <2>1 DEF CloseIsOwed, LossIsOwed
  <1>11. ASSUME NEW x \in Tasks \cup {App}, Clear(x)
         PROVE  CloseIsOwed' /\ LossIsOwed'
    BY <1>11 DEF Clear, CloseIsOwed, LossIsOwed
  <1>12. ASSUME Drop
         PROVE  CloseIsOwed' /\ LossIsOwed'
    BY <1>12 DEF Drop, CloseIsOwed, LossIsOwed
  <1>13. ASSUME UNCHANGED vars
         PROVE  CloseIsOwed' /\ LossIsOwed'
    BY <1>13 DEF vars, CloseIsOwed, LossIsOwed
  <1> QED
    BY <1>1, <1>2, <1>3, <1>4, <1>5, <1>6, <1>7, <1>8, <1>9, <1>10, <1>11, <1>12,
       <1>13 DEF Next

BodyInv == TypeOK /\ BodyHasOnePlace /\ CloseIsOwed /\ LossIsOwed

LEMMA BodyCorrect == Spec => []BodyInv
  <1>1. Init => BodyInv
    <2> SUFFICES ASSUME Init
                 PROVE  BodyInv
      OBVIOUS
    <2>1. CloseIsOwed /\ LossIsOwed
      BY DEF Init, CloseIsOwed, LossIsOwed
    <2> QED BY <2>1, BodyInit DEF BodyInv
  <1>2. BodyInv /\ [Next]_vars => BodyInv'
    BY BodyStep, OwedStep DEF BodyInv
  <1> QED BY <1>1, <1>2, PTL DEF Spec

LEMMA NoneStep ==
    BodyInv /\ [Next]_vars =>
      [\A r \in Tasks : HearsNone(r) =>
          ended' = "eof" \/ \E q \in Tasks \ {r} : closing[q] = "cancel"]_vars
  <1> SUFFICES ASSUME BodyInv, Next, NEW r \in Tasks, HearsNone(r)
               PROVE  ended' = "eof" \/ \E q \in Tasks \ {r} : closing[q] = "cancel"
    OBVIOUS
  <1>0. /\ TypeOK /\ BodyHasOnePlace /\ CloseIsOwed /\ LossIsOwed
        /\ pc \in [Tasks -> Steps] /\ out \in [Tasks -> Outputs]
        /\ pc[r] # "idle" /\ pc'[r] = "idle" /\ r \notin abandoned /\ out'[r] = "eof"
    BY DEF TypeOK, BodyInv, HearsNone
  <1>1. ASSUME NEW q \in Tasks, pc'[q] # "idle", \A t \in Tasks : t # q => pc'[t] = pc[t]
        PROVE  FALSE
    BY <1>0, <1>1
  <1>2. ASSUME NEW q \in Tasks,
               \/ Call(q) \/ Lock(q) \/ Woken(q)
               \/ \E v \in {"chunk", "eof", "error"} : Pull(q, v)
        PROVE  FALSE
    <2>1. pc'[q] # "idle" /\ \A t \in Tasks : t # q => pc'[t] = pc[t]
      BY <1>0, <1>2 DEF Call, Lock, Woken, Pull
    <2> QED BY <1>1, <2>1
  <1>3. ASSUME NEW q \in Tasks, NEW v, Return(q, v)
        PROVE  q = r /\ v = "eof"
    <2>1. \A t \in Tasks : t # q => pc'[t] = pc[t]
      BY <1>0, <1>3 DEF Return
    <2>2. q = r
      BY <1>0, <2>1
    <2>3. out'[r] = IF v = "eof" THEN v ELSE "chunk"
      BY <1>0, <1>3, <2>2 DEF Return
    <2> QED BY <1>0, <2>2, <2>3
  <1>4. ASSUME NEW q \in Tasks, Locked(q)
        PROVE  ended' = "eof" \/ \E t \in Tasks \ {r} : closing[t] = "cancel"
    <2>0. pc[q] \in Queued /\ pc[q] \notin Owning /\ Holds(q) /\ UNCHANGED ended
      BY <1>4 DEF Locked, Queued, Owning
    <2>1. CASE Return(q, "cancelled")
      BY <1>3, <2>1
    <2>2. CASE ~cancelled /\ ~slot /\ Return(q, "eof")
      <3>1. q = r
        BY <1>3, <2>2
      <3>2. owns = {}
        BY <1>0, <2>0, <2>2, ReturnQueue
      <3>3. closing[r] # "cancel"
        BY <1>0 DEF CloseIsOwed
      <3> QED BY <1>0, <2>0, <2>2, <3>2, <3>3 DEF LossIsOwed
    <2>3. CASE pc' = [pc EXCEPT ![q] = "read"]
      <3>1. pc'[q] # "idle" /\ \A t \in Tasks : t # q => pc'[t] = pc[t]
        BY <1>0, <2>3
      <3> QED BY <1>1, <3>1
    <2> QED BY <1>4, <2>1, <2>2, <2>3 DEF Locked, Refused
  <1>5. ASSUME NEW q \in Tasks, Check(q)
        PROVE  ended' = "eof"
    <2>0. pc[q] = "check" /\ UNCHANGED ended
      BY <1>5 DEF Check
    <2>1. CASE Return(q, "cancelled")
      BY <1>3, <2>1
    <2>2. CASE ~cancelled /\ Return(q, out[q])
      <3>1. q = r /\ out[q] = "eof"
        BY <1>3, <2>2
      <3> QED BY <1>0, <2>0, <2>2, <3>1 DEF CloseIsOwed
    <2>3. CASE pc' = [pc EXCEPT ![q] = "put"]
      <3>1. pc'[q] # "idle" /\ \A t \in Tasks : t # q => pc'[t] = pc[t]
        BY <1>0, <2>3
      <3> QED BY <1>1, <3>1
    <2> QED BY <1>5, <2>1, <2>2, <2>3 DEF Check
  <1>6. ASSUME NEW q \in Tasks, Put(q)
        PROVE  FALSE
    BY <1>3, <1>6 DEF Put
  <1>7. ASSUME NEW q \in Tasks, DropRead(q)
        PROVE  FALSE
    <2>1. q \in abandoned /\ \A t \in Tasks : t # q => pc'[t] = pc[t]
      BY <1>0, <1>7 DEF DropRead
    <2> QED BY <1>0, <2>1
  <1>8. ASSUME \/ \E q \in Tasks : Abandon(q)
               \/ \E x \in Tasks \cup {App} : Cancel(x) \/ Clear(x)
               \/ Drop
        PROVE  FALSE
    BY <1>0, <1>8 DEF Abandon, Cancel, Clear, Drop
  <1> QED
    BY <1>2, <1>4, <1>5, <1>6, <1>7, <1>8 DEF Next

\* However reads, abandoned reads and closes interleave, next_chunk returns None
\* for a body that has not ended only to a read that queued behind another one,
\* which lost the body and whose wrapper has not yet called close.  A consumer
\* whose reads follow one another is never told so.
THEOREM OnlyQueuedReadsHearNoneEarly == Spec => NoneIsAnnounced
  BY BodyCorrect, NoneStep, PTL DEF Spec, NoneIsAnnounced

-----------------------------------------------------------------------------
(* The refinement of LentBody.                                             *)

Places == owns \cup (IF slot THEN {App} ELSE {})

\* A read that returns loses the stream it owns, if it owns one.
LEMMA ReturnLoses ==
    ASSUME BodyInv, NEW r \in Tasks, NEW v, Return(r, v), pc[r] \in Queued, Holds(r),
           UNCHANGED <<slot, cancelled>>
    PROVE  Lent!Lose(r) \/ UNCHANGED <<Places, cancelled>>
  <1>1. owns \subseteq {r} /\ owns' = {}
    BY ReturnQueue DEF BodyInv
  <1>2. CASE owns = {}
    BY <1>1, <1>2 DEF Places
  <1>3. CASE owns = {r}
    <2>1. ~slot
      BY <1>3 DEF BodyInv, BodyHasOnePlace
    <2> QED BY <1>1, <1>3, <2>1 DEF Lent!Lose
  <1> QED BY <1>1, <1>2, <1>3

LEMMA LentStep ==
    BodyInv /\ [Next]_vars => [Lent!Next]_(Lent!vars)
  <1> SUFFICES ASSUME BodyInv, [Next]_vars
               PROVE  Lent!Next \/ UNCHANGED <<Places, cancelled>>
    BY DEF Lent!vars, Places
  <1>0. /\ TypeOK /\ BodyHasOnePlace /\ CloseIsOwed
        /\ pc \in [Tasks -> Steps] /\ owns \subseteq Tasks
        /\ slot \in BOOLEAN /\ App \notin Tasks
    BY TasksAssumption DEF TypeOK, BodyInv
  <1>1. ASSUME NEW r \in Tasks,
               \/ Call(r) \/ Lock(r) \/ Woken(r) \/ Abandon(r)
               \/ \E v \in {"chunk", "eof", "error"} : Pull(r, v)
        PROVE  UNCHANGED <<Places, cancelled>>
    BY <1>1 DEF Call, Lock, Woken, Abandon, Pull, Places
  <1>2. ASSUME NEW r \in Tasks, Locked(r)
        PROVE  Lent!Next \/ UNCHANGED <<Places, cancelled>>
    <2>0. /\ pc[r] \in {"lock", "enter"} /\ pc[r] \in Queued /\ Holds(r)
          /\ UNCHANGED cancelled
      BY <1>2 DEF Locked, Queued
    <2>1. owns = {}
      BY <1>0, <2>0, OneOwner DEF BodyHasOnePlace, Owning, Inside
    <2>2. CASE cancelled /\ slot' = FALSE /\ Return(r, "cancelled")
      <3>1. owns' = {}
        BY <2>1, <2>2 DEF Return
      <3>2. Lent!Stop
        BY <1>0, <2>0, <2>1, <2>2, <3>1 DEF Lent!Stop
      <3> QED BY <3>2 DEF Lent!Next
    <2>3. CASE Return(r, "eof") /\ UNCHANGED slot
      BY <1>2, <2>0, <2>3, ReturnLoses DEF Lent!Next
    <2>4. CASE ~cancelled /\ slot /\ Take(r)
      <3>1. Lent!Lend(r)
        BY <2>0, <2>1, <2>4 DEF Lent!Lend, Take
      <3> QED BY <3>1 DEF Lent!Next
    <2> QED BY <1>2, <2>2, <2>3, <2>4 DEF Locked, Refused
  <1>3. ASSUME NEW r \in Tasks, Check(r)
        PROVE  Lent!Next \/ UNCHANGED <<Places, cancelled>>
    <2>0. /\ pc[r] \in Queued /\ Holds(r) /\ UNCHANGED <<slot, cancelled>>
      BY <1>0, <1>3 DEF Check, Queued, Inside, BodyHasOnePlace
    <2>1. CASE \E v \in Outputs : Return(r, v)
      BY <2>0, <2>1, ReturnLoses DEF Lent!Next
    <2>2. CASE UNCHANGED owns
      BY <2>0, <2>2 DEF Places
    <2> QED BY <1>0, <1>3, <2>1, <2>2 DEF Check, Outputs, TypeOK
  <1>4. ASSUME NEW r \in Tasks, Put(r)
        PROVE  Lent!Next \/ UNCHANGED <<Places, cancelled>>
    <2>0. /\ pc[r] \in Queued /\ pc[r] \in Owning /\ Holds(r) /\ UNCHANGED cancelled
          /\ Return(r, "chunk") /\ slot' = TRUE
      BY <1>0, <1>4 DEF Put, Queued, Owning, Inside, BodyHasOnePlace
    <2>1. owns = {r} /\ owns' = {}
      BY <1>0, <2>0, ReturnQueue
    <2>2. ~slot
      BY <1>0, <2>1 DEF BodyHasOnePlace
    <2>3. Lent!GiveBack(r)
      BY <2>0, <2>1, <2>2 DEF Lent!GiveBack
    <2> QED BY <2>3 DEF Lent!Next
  <1>5. ASSUME NEW r \in Tasks, DropRead(r)
        PROVE  Lent!Next \/ UNCHANGED <<Places, cancelled>>
    <2>1. owns' = owns \ {r} /\ UNCHANGED <<slot, cancelled>>
      BY <1>5 DEF DropRead
    <2>2. CASE r \notin owns
      <3>1. owns' = owns
        BY <2>1, <2>2
      <3> QED BY <2>1, <3>1 DEF Places
    <2>3. CASE r \in owns
      <3>1. owns = {r}
        BY <1>0, <2>3, OneOwner DEF BodyHasOnePlace, Owning, Inside
      <3>2. ~slot
        BY <1>0, <3>1 DEF BodyHasOnePlace
      <3>3. Lent!Lose(r)
        BY <2>1, <3>1, <3>2 DEF Lent!Lose
      <3> QED BY <3>3 DEF Lent!Next
    <2> QED BY <2>2, <2>3
  <1>6. ASSUME NEW x \in Tasks \cup {App}, Cancel(x)
        PROVE  Lent!Next
    BY <1>6 DEF Cancel, Lent!Next, Lent!Stop
  <1>7. ASSUME NEW x \in Tasks \cup {App}, Clear(x)
        PROVE  Lent!Next
    <2>1. cancelled /\ UNCHANGED <<cancelled, owns>> /\ slot' = (slot /\ line # <<>>)
      BY <1>0, <1>7 DEF Clear, CloseIsOwed
    <2>2. slot => owns = {}
      BY <1>0 DEF BodyHasOnePlace
    <2>3. Lent!Stop
      BY <1>0, <2>1, <2>2 DEF Lent!Stop
    <2> QED BY <2>3 DEF Lent!Next
  <1>8. ASSUME Drop
        PROVE  Lent!Next
    <2>1. cancelled' = TRUE /\ slot' = FALSE /\ UNCHANGED owns
      BY <1>8 DEF Drop
    <2>2. owns = {}
      BY <1>0, <1>8 DEF Drop, BodyHasOnePlace, Owning
    <2>3. Lent!Stop
      BY <1>0, <2>1, <2>2 DEF Lent!Stop
    <2> QED BY <2>3 DEF Lent!Next
  <1>9. ASSUME UNCHANGED vars
        PROVE  UNCHANGED <<Places, cancelled>>
    BY <1>9 DEF vars, Places
  <1> QED
    BY <1>1, <1>2, <1>3, <1>4, <1>5, <1>6, <1>7, <1>8, <1>9 DEF Next

\* The handle implements LentBody: the body is in one place, is lent to one
\* read at a time and never after a close, and once lost does not come back.
THEOREM HandleLendsBody == Spec => LendsBody
  <1>1. Init => Lent!Init
    BY DEF Init, Lent!Init
  <1>2. BodyInv /\ [Next]_vars => [Lent!Next]_(Lent!vars)
    BY LentStep
  <1> QED BY <1>1, <1>2, BodyCorrect, PTL DEF Spec, LendsBody, Lent!Spec
=============================================================================

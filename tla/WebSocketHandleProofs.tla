----------------------- MODULE WebSocketHandleProofs ------------------------
(***************************************************************************)
(* Theorems about WebSocketHandle, for every number of tasks: a call that  *)
(* is using its half of the socket holds the lock of that half, and no     *)
(* abort takes the half from under it.                                     *)
(***************************************************************************)
EXTENDS WebSocketHandle, SequenceTheorems, TLAPS

-----------------------------------------------------------------------------
(* The queues of the tokio Mutexes have no repetitions: a call joins at    *)
(* the end, leaves at the head, or gives up wherever it waits.             *)

LEMMA QueueJoined ==
    ASSUME NEW S, NEW s \in Seq(S), IsInjective(s), NEW e \in S, e \notin Range(s)
    PROVE  /\ Append(s, e) \in Seq(S) /\ IsInjective(Append(s, e))
           /\ Range(Append(s, e)) = Range(s) \cup {e}
           /\ Append(s, e) # <<>>
           /\ Head(Append(s, e)) = IF s = <<>> THEN e ELSE Head(s)
  <1> DEFINE t == Append(s, e)
  <1>1. /\ t \in Seq(S) /\ t # <<>> /\ Len(t) = Len(s) + 1
        /\ t[Len(s) + 1] = e /\ \A i \in 1..Len(s) : t[i] = s[i]
        /\ DOMAIN t = 1..(Len(s) + 1) /\ DOMAIN s = 1..Len(s) /\ Len(s) \in Nat
    BY AppendProperties
  <1> HIDE DEF t
  <1>2. IsInjective(t) /\ Range(t) = Range(s) \cup {e}
    BY <1>1 DEF IsInjective, Range
  <1>3. Head(t) = IF s = <<>> THEN e ELSE Head(s)
    BY <1>1
  <1> QED BY <1>1, <1>2, <1>3 DEF t

LEMMA QueueUnlocked ==
    ASSUME NEW S, NEW s \in Seq(S), IsInjective(s), s # <<>>
    PROVE  /\ Tail(s) \in Seq(S) /\ IsInjective(Tail(s))
           /\ Range(Tail(s)) = Range(s) \ {Head(s)}
  <1> DEFINE t == Tail(s)
  <1>1. /\ t \in Seq(S) /\ Len(t) = Len(s) - 1
        /\ \A i \in 1..Len(t) : t[i] = s[i + 1]
        /\ Head(s) = s[1]
    BY HeadTailProperties
  <1>2. /\ DOMAIN t = 1..(Len(s) - 1) /\ DOMAIN s = 1..Len(s)
        /\ Len(s) \in Nat \ {0}
    BY <1>1
  <1> HIDE DEF t
  <1>3. IsInjective(t)
    BY <1>1, <1>2 DEF IsInjective
  <1>4. Range(t) \subseteq Range(s) \ {Head(s)}
    BY <1>1, <1>2 DEF Range, IsInjective
  <1>5. ASSUME NEW i \in 1..Len(s), s[i] # Head(s)
        PROVE  s[i] \in Range(t)
    <2>1. i - 1 \in 1..(Len(s) - 1) /\ t[i - 1] = s[i]
      BY <1>1, <1>2, <1>5
    <2> QED BY <1>2, <2>1 DEF Range
  <1>6. Range(s) \ {Head(s)} \subseteq Range(t)
    BY <1>2, <1>5 DEF Range
  <1> QED BY <1>1, <1>3, <1>4, <1>6 DEF t

\* RemoveFirst takes out the one position a task has.
LEMMA RemovedAt ==
    ASSUME NEW S, NEW s \in Seq(S), IsInjective(s), NEW n \in 1..Len(s)
    PROVE  RemoveFirst(s, s[n]) = SubSeq(s, 1, n - 1) \o SubSeq(s, n + 1, Len(s))
  <1> DEFINE I == {i \in 1..Len(s) : s[i] = s[n]}
  <1>1. I = {n}
    BY DEF IsInjective
  <1>2. Min(I) = n
    BY <1>1 DEF Min
  <1>3. SelectInSeq(s, LAMBDA v : v = s[n]) = n
    BY <1>1, <1>2 DEF SelectInSeq
  <1> QED BY <1>3 DEF RemoveFirst, RemoveAt

LEMMA QueueLeft ==
    ASSUME NEW S, NEW s \in Seq(S), IsInjective(s), NEW e
    PROVE  /\ RemoveFirst(s, e) \in Seq(S) /\ IsInjective(RemoveFirst(s, e))
           /\ Range(RemoveFirst(s, e)) = Range(s) \ {e}
           /\ s # <<>> /\ Head(s) # e =>
                RemoveFirst(s, e) # <<>> /\ Head(RemoveFirst(s, e)) = Head(s)
           /\ Len(RemoveFirst(s, e)) <= Len(s)
           /\ e \notin Range(s) => RemoveFirst(s, e) = s
  <1>1. CASE e \notin Range(s)
    <2>1. RemoveFirst(s, e) = s
      BY <1>1 DEF RemoveFirst, Range
    <2>2. Len(s) <= Len(s)
      BY LenProperties
    <2> QED BY <1>1, <2>1, <2>2
  <1>2. CASE e \in Range(s)
    <2>1. PICK n \in 1..Len(s) : s[n] = e
      BY <1>2, LenProperties DEF Range
    <2> DEFINE a == SubSeq(s, 1, n - 1)
               b == SubSeq(s, n + 1, Len(s))
               t == a \o b
    <2>2. /\ Len(s) \in Nat \ {0} /\ n \in Nat \ {0} /\ n <= Len(s)
          /\ DOMAIN s = 1..Len(s)
      BY LenProperties
    <2>3. /\ a \in Seq(S) /\ Len(a) = n - 1
          /\ \A i \in 1..(n - 1) : a[i] = s[i]
      <3>1. 1 \in Int /\ n - 1 \in Int /\ \A i \in 1..(n - 1) : s[i] \in S
        BY <2>2
      <3>2. /\ a \in Seq(S)
            /\ Len(a) = IF 1 <= n - 1 THEN (n - 1) - 1 + 1 ELSE 0
            /\ \A i \in 1..((n - 1) - 1 + 1) : a[i] = s[1 + i - 1]
        BY <3>1, SubSeqProperties
      <3> QED BY <2>2, <3>2
    <2>4. /\ b \in Seq(S) /\ Len(b) = Len(s) - n
          /\ \A i \in 1..(Len(s) - n) : b[i] = s[n + i]
      <3>1. n + 1 \in Int /\ Len(s) \in Int /\ \A i \in (n + 1)..Len(s) : s[i] \in S
        BY <2>2
      <3>2. /\ b \in Seq(S)
            /\ Len(b) = IF n + 1 <= Len(s) THEN Len(s) - (n + 1) + 1 ELSE 0
            /\ \A i \in 1..(Len(s) - (n + 1) + 1) : b[i] = s[n + 1 + i - 1]
        BY <3>1, SubSeqProperties
      <3> HIDE DEF b
      <3>3. Len(b) = Len(s) - n
        <4>1. CASE n + 1 <= Len(s)
          BY <2>2, <3>2, <4>1
        <4>2. CASE ~(n + 1 <= Len(s))
          <5>1. Len(s) \in Nat /\ n \in Nat /\ n <= Len(s)
            BY <2>2
          <5>2. Len(s) - n = 0
            BY <4>2, <5>1
          <5> QED BY <3>2, <4>2, <5>2, Zenon
        <4> QED BY <4>1, <4>2
      <3>4. ASSUME NEW i \in 1..(Len(s) - n)
            PROVE  b[i] = s[n + i]
        <4>1. i \in 1..(Len(s) - (n + 1) + 1) /\ n + 1 + i - 1 = n + i
          BY <2>2
        <4> QED BY <3>2, <4>1
      <3> QED BY <3>2, <3>3, <3>4
    <2> HIDE DEF a, b
    <2>5. /\ t \in Seq(S) /\ Len(t) = Len(s) - 1
          /\ \A i \in 1..(Len(s) - 1) : t[i] = IF i < n THEN s[i] ELSE s[i + 1]
      <3>1. t \in Seq(S) /\ Len(t) = Len(a) + Len(b)
            /\ \A i \in 1..(Len(a) + Len(b)) :
                 t[i] = IF i <= Len(a) THEN a[i] ELSE b[i - Len(a)]
        BY <2>3, <2>4, ConcatProperties
      <3> HIDE DEF t
      <3>2. Len(t) = Len(s) - 1
        BY <2>2, <2>3, <2>4, <3>1
      <3>3. ASSUME NEW i \in 1..(Len(s) - 1)
            PROVE  t[i] = IF i < n THEN s[i] ELSE s[i + 1]
        <4>1. t[i] = IF i <= n - 1 THEN a[i] ELSE b[i - (n - 1)]
          BY <2>2, <2>3, <2>4, <3>1
        <4>2. CASE i < n
          BY <2>2, <2>3, <4>1, <4>2
        <4>3. CASE ~(i < n)
          <5>1. /\ i - (n - 1) \in 1..(Len(s) - n) /\ n + (i - (n - 1)) = i + 1
                /\ ~(i <= n - 1)
            BY <2>2, <4>3
          <5> QED BY <2>4, <4>1, <4>3, <5>1
        <4> QED BY <4>2, <4>3
      <3> QED BY <3>1, <3>2, <3>3
    <2> HIDE DEF t
    <2>6. RemoveFirst(s, e) = t /\ DOMAIN t = 1..(Len(s) - 1)
      <3>1. RemoveFirst(s, s[n]) = t
        BY RemovedAt DEF t, a, b
      <3> QED BY <2>1, <2>2, <2>5, <3>1
    <2>7. IsInjective(t)
      BY <2>2, <2>5, <2>6 DEF IsInjective
    <2>8. Range(t) \subseteq Range(s) \ {e}
      BY <2>1, <2>2, <2>5, <2>6 DEF Range, IsInjective
    <2>9. ASSUME NEW i \in 1..Len(s), s[i] # e
          PROVE  s[i] \in Range(t)
      <3>1. CASE i < n
        BY <2>2, <2>5, <2>6, <3>1 DEF Range
      <3>2. CASE i > n
        <4>1. i - 1 \in 1..(Len(s) - 1) /\ t[i - 1] = s[i]
          BY <2>2, <2>5, <3>2
        <4> QED BY <2>6, <4>1 DEF Range
      <3> QED BY <2>1, <2>2, <2>9, <3>1, <3>2
    <2>10. ASSUME Head(s) # e
           PROVE  t # <<>> /\ Head(t) = Head(s)
      <3>1. n > 1
        BY <2>1, <2>2, <2>10
      <3> QED BY <2>2, <2>5, <3>1
    <2>11. Range(s) \ {e} \subseteq Range(t)
      BY <2>2, <2>9 DEF Range
    <2>12. Len(t) <= Len(s)
      BY <2>2, <2>5
    <2> QED BY <1>2, <2>5, <2>6, <2>7, <2>8, <2>10, <2>11, <2>12
  <1> QED BY <1>1, <1>2

-----------------------------------------------------------------------------
\* The steps of a stage in the queue of its half's lock, and those of its head.
InQueue == {"wait", "io", "drop", "unlock"}
AtHead  == {"io", "drop", "unlock"}

HoldsHalf(t) ==
    line[Half(stage[t])] # <<>> /\ Head(line[Half(stage[t])]) = t

QueueMatchesCalls ==
    \A h \in Halves : \A t \in Tasks :
        t \in Range(line[h]) <=> Half(stage[t]) = h /\ pc[t] \in InQueue

\* The strengthening of UsedHalfIsThere: the queues are the calls that wait or
\* use, a guard that is being dropped still has its lock, and what is in use is
\* in its slot.
GuardInv ==
    /\ QueueMatchesCalls
    /\ \A t \in Tasks : pc[t] \in AtHead => HoldsHalf(t)
    /\ \A t \in Tasks : pc[t] = "io" => slot[Half(stage[t])]

-----------------------------------------------------------------------------
(* The kinds of step.                                                      *)

LEMMA HalfType == \A s : Half(s) \in Halves
  BY DEF Half, Halves

LEMMA AtEffect ==
    ASSUME TypeOK, NEW x \in Tasks \cup {App}, NEW step \in Steps, At(x, step)
    PROVE  /\ pc' \in [Tasks \cup {App} -> Steps]
           /\ pc'[x] = step
           /\ \A q \in Tasks \cup {App} : q # x => pc'[q] = pc[q]
  BY DEF TypeOK, At

LEMMA LineEffect ==
    ASSUME TypeOK, NEW h \in Halves, NEW l, line' = [line EXCEPT ![h] = l],
           l \in Seq(Tasks), IsInjective(l)
    PROVE  /\ line'[h] = l /\ \A g \in Halves : g # h => line'[g] = line[g]
           /\ line' \in [Halves -> Seq(Tasks)]
           /\ \A g \in Halves : IsInjective(line'[g])
  <1>1. line \in [Halves -> Seq(Tasks)] /\ \A g \in Halves : IsInjective(line[g])
    BY DEF TypeOK
  <1>2. line'[h] = l /\ \A g \in Halves : g # h => line'[g] = line[g]
    BY <1>1
  <1>3. line' \in [Halves -> Seq(Tasks)]
    BY <1>1
  <1> QED BY <1>1, <1>2, <1>3

\* A step of a call, or of the application, that is in no queue before it or
\* after it.  A slot whose lock is held keeps its half.
LEMMA QuietStep ==
    ASSUME TypeOK, GuardInv, NEW x \in Tasks \cup {App}, NEW step \in Steps \ InQueue,
           At(x, step), x = App \/ pc[x] \notin InQueue, UNCHANGED line,
           \A q \in Tasks : q # x => stage'[q] = stage[q],
           \A h \in Halves : slot[h] /\ line[h] # <<>> => slot'[h]
    PROVE  GuardInv'
  <1>1. pc'[x] = step /\ \A q \in Tasks : q # x => pc'[q] = pc[q]
    BY AtEffect
  <1>2. \A q \in Tasks : pc'[q] \in InQueue =>
            q # x /\ pc'[q] = pc[q] /\ stage'[q] = stage[q]
    BY <1>1
  <1>3. \A q \in Tasks : pc[q] \in InQueue => pc'[q] = pc[q] /\ stage'[q] = stage[q]
    BY <1>1, TasksAssumption
  <1>4. QueueMatchesCalls'
    BY <1>2, <1>3 DEF GuardInv, QueueMatchesCalls
  <1>5. \A q \in Tasks : pc'[q] \in AtHead => HoldsHalf(q)'
    BY <1>2 DEF GuardInv, HoldsHalf, AtHead, InQueue
  <1>6. \A q \in Tasks : pc'[q] = "io" => slot'[Half(stage'[q])]
    BY <1>2, HalfType DEF GuardInv, HoldsHalf, AtHead, InQueue
  <1> QED BY <1>4, <1>5, <1>6 DEF GuardInv

\* A step of a call within its stage, in the queue before it and after it.
LEMMA HeldStep ==
    ASSUME TypeOK, GuardInv, NEW t \in Tasks, NEW step \in InQueue,
           At(t, step), pc[t] \in InQueue, UNCHANGED <<line, stage>>,
           step \in AtHead => HoldsHalf(t),
           step = "io" => slot'[Half(stage[t])],
           \A h \in Halves : h # Half(stage[t]) => slot'[h] = slot[h],
           slot' = slot \/ HoldsHalf(t)
    PROVE  GuardInv'
  <1>0. step \in Steps
    BY DEF InQueue, Steps, Awaits
  <1>1. pc'[t] = step /\ \A q \in Tasks : q # t => pc'[q] = pc[q]
    BY <1>0, AtEffect
  <1>2. QueueMatchesCalls'
    BY <1>1 DEF GuardInv, QueueMatchesCalls
  <1>3. \A q \in Tasks : pc'[q] \in AtHead => HoldsHalf(q)'
    BY <1>1 DEF GuardInv, HoldsHalf
  <1>4. ASSUME NEW q \in Tasks, pc'[q] = "io"
        PROVE  slot'[Half(stage'[q])]
    <2>1. CASE q = t
      BY <1>1, <1>4, <2>1
    <2>2. CASE q # t
      <3>1. pc[q] = "io" /\ slot[Half(stage[q])] /\ HoldsHalf(q)
        BY <1>1, <1>4, <2>2 DEF GuardInv, AtHead
      <3>2. slot' = slot \/ Half(stage[q]) # Half(stage[t])
        BY <2>2, <3>1 DEF HoldsHalf
      <3> QED BY <3>1, <3>2, HalfType
    <2> QED BY <2>1, <2>2
  <1> QED BY <1>2, <1>3, <1>4 DEF GuardInv

\* A call leaves the queue of its half, as its holder or as a waiter.
LEMMA LeaveStep ==
    ASSUME TypeOK, GuardInv, NEW t \in Tasks, At(t, "after"), UNCHANGED <<stage, slot>>,
           NEW l, line' = [line EXCEPT ![Half(stage[t])] = l],
           l \in Seq(Tasks), IsInjective(l),
           Range(l) = Range(line[Half(stage[t])]) \ {t},
           LET m == line[Half(stage[t])]
           IN  m # <<>> /\ Head(m) # t => l # <<>> /\ Head(l) = Head(m)
    PROVE  GuardInv'
  <1>1. pc'[t] = "after" /\ \A q \in Tasks : q # t => pc'[q] = pc[q]
    BY AtEffect DEF Steps
  <1>2. /\ line'[Half(stage[t])] = l
        /\ \A h \in Halves : h # Half(stage[t]) => line'[h] = line[h]
    BY LineEffect, HalfType
  <1>3. QueueMatchesCalls'
    <2> SUFFICES ASSUME NEW h \in Halves, NEW q \in Tasks
                 PROVE  q \in Range(line'[h]) <=> Half(stage'[q]) = h /\ pc'[q] \in InQueue
      BY DEF QueueMatchesCalls
    <2>1. q \in Range(line[h]) <=> Half(stage[q]) = h /\ pc[q] \in InQueue
      BY DEF GuardInv, QueueMatchesCalls
    <2> QED BY <1>1, <1>2, <2>1 DEF InQueue
  <1>4. \A q \in Tasks : pc'[q] \in AtHead => HoldsHalf(q)'
    <2> SUFFICES ASSUME NEW q \in Tasks, pc'[q] \in AtHead
                 PROVE  HoldsHalf(q)'
      OBVIOUS
    <2>1. q # t /\ pc[q] \in AtHead /\ HoldsHalf(q)
      BY <1>1 DEF AtHead, GuardInv
    <2> QED BY <1>2, <2>1, HalfType DEF HoldsHalf
  <1>5. \A q \in Tasks : pc'[q] = "io" => slot'[Half(stage'[q])]
    BY <1>1 DEF GuardInv
  <1> QED BY <1>3, <1>4, <1>5 DEF GuardInv

-----------------------------------------------------------------------------
(* Type correctness and the invariant.                                     *)

LEMMA EnterType ==
    ASSUME TypeOK, NEW t \in Tasks, NEW s \in Stages, Enter(t, s)
    PROVE  /\ stage' \in [Tasks -> Stages] /\ out' \in [Tasks -> Outcomes]
           /\ \A q \in Tasks : q # t => stage'[q] = stage[q]
  BY DEF TypeOK, Enter, Outcomes

LEMMA FinishType ==
    ASSUME TypeOK, NEW t \in Tasks, Finish(t)
    PROVE  /\ At(t, "idle")
           /\ stage' \in [Tasks -> Stages] /\ out' \in [Tasks -> Outcomes]
           /\ message' \in [Tasks -> {"none", "ping", "close"}]
           /\ \A q \in Tasks : q # t => stage'[q] = stage[q]
  BY DEF TypeOK, Finish, Outcomes, Stages

LEMMA UseStep ==
    ASSUME TypeOK, NEW t \in Tasks, Use(t)
    PROVE  /\ out' \in [Tasks -> Outcomes]
           /\ \E step \in {"io", "drop"} :
                At(t, step) /\ (step = "io" => slot[Half(stage[t])])
  BY DEF TypeOK, Use, Outcomes, Failures, Messages

LEMMA LeaveEffect ==
    ASSUME TypeOK, GuardInv, NEW t \in Tasks, NEW v \in Outcomes, Leave(t, v)
    PROVE  TypeOK' /\ GuardInv'
  <1>0. /\ pc[t] \in Awaits /\ out' \in [Tasks -> Outcomes]
        /\ UNCHANGED <<slot, cancelled, closing, stage, message>>
    BY DEF Leave, TypeOK
  <1>1. CASE pc[t] = "io"
    <2>1. At(t, "drop") /\ UNCHANGED line
      BY <1>1 DEF Leave
    <2>2. HoldsHalf(t)
      BY <1>1 DEF GuardInv, AtHead
    <2>3. GuardInv'
      BY <1>0, <1>1, <2>1, <2>2, HeldStep DEF InQueue
    <2>4. pc' \in [Tasks \cup {App} -> Steps]
      BY <2>1, AtEffect DEF Steps
    <2> QED BY <1>0, <2>1, <2>3, <2>4 DEF TypeOK
  <1>2. CASE pc[t] # "io"
    <2> DEFINE m == line[Half(stage[t])]
               l == RemoveFirst(m, t)
    <2>1. At(t, "after") /\ line' = [line EXCEPT ![Half(stage[t])] = l]
      BY <1>2 DEF Leave
    <2>2. m \in Seq(Tasks) /\ IsInjective(m)
      BY HalfType DEF TypeOK
    <2>3. /\ l \in Seq(Tasks) /\ IsInjective(l) /\ Range(l) = Range(m) \ {t}
          /\ m # <<>> /\ Head(m) # t => l # <<>> /\ Head(l) = Head(m)
      BY <2>2, QueueLeft
    <2>4. GuardInv'
      <3> HIDE DEF l
      <3> QED BY <1>0, <2>1, <2>3, LeaveStep
    <2>5. pc' \in [Tasks \cup {App} -> Steps]
      BY <2>1, AtEffect DEF Steps
    <2>6. line' \in [Halves -> Seq(Tasks)] /\ \A g \in Halves : IsInjective(line'[g])
      <3> HIDE DEF l
      <3> QED BY <2>1, <2>3, LineEffect, HalfType
    <2> QED BY <1>0, <2>4, <2>5, <2>6 DEF TypeOK
  <1> QED BY <1>1, <1>2

\* A step that takes x to step and, of the calls, changes only its own stage.
LEMMA QuietType ==
    ASSUME TypeOK, GuardInv, NEW x \in Tasks \cup {App}, NEW step \in Steps \ InQueue,
           At(x, step), x = App \/ pc[x] \notin InQueue, UNCHANGED <<line, slot>>,
           cancelled' \in BOOLEAN, closing' \in BOOLEAN,
           stage' \in [Tasks -> Stages], out' \in [Tasks -> Outcomes],
           message' \in [Tasks -> {"none", "ping", "close"}],
           \A q \in Tasks : q # x => stage'[q] = stage[q]
    PROVE  TypeOK' /\ GuardInv'
  <1>1. GuardInv'
    BY QuietStep
  <1>2. pc' \in [Tasks \cup {App} -> Steps]
    BY AtEffect
  <1> QED BY <1>1, <1>2 DEF TypeOK

LEMMA LockEffect ==
    ASSUME TypeOK, GuardInv, NEW t \in Tasks, Lock(t)
    PROVE  TypeOK' /\ GuardInv'
  <1> DEFINE h == Half(stage[t])
             m == line[h]
             l == Append(m, t)
  <1>0. /\ h \in Halves /\ m \in Seq(Tasks) /\ IsInjective(m)
        /\ pc[t] = "armed" /\ line' = [line EXCEPT ![h] = l]
        /\ UNCHANGED <<slot, cancelled, closing, stage, message>>
    BY HalfType DEF TypeOK, Lock
  <1>1. t \notin Range(m)
    BY <1>0 DEF GuardInv, QueueMatchesCalls, InQueue
  <1>2. /\ l \in Seq(Tasks) /\ IsInjective(l) /\ Range(l) = Range(m) \cup {t}
        /\ l # <<>> /\ Head(l) = IF m = <<>> THEN t ELSE Head(m)
    BY <1>0, <1>1, QueueJoined
  <1>3. /\ line'[h] = l /\ \A g \in Halves : g # h => line'[g] = line[g]
        /\ line' \in [Halves -> Seq(Tasks)]
        /\ \A g \in Halves : IsInjective(line'[g])
    <2> HIDE DEF l, h
    <2> QED BY <1>0, <1>2, LineEffect
  <1>4. PICK step \in {"io", "drop", "wait"} :
          /\ At(t, step) /\ out' \in [Tasks -> Outcomes]
          /\ step = "io" => slot[h]
          /\ step \in AtHead => m = <<>>
    <2>1. CASE m = <<>>
      <3>1. Use(t)
        BY <2>1 DEF Lock
      <3> QED BY <2>1, <3>1, UseStep
    <2>2. CASE m # <<>>
      <3>1. At(t, "wait") /\ UNCHANGED out
        BY <2>2 DEF Lock
      <3> QED BY <3>1 DEF TypeOK, AtHead
    <2> QED BY <2>1, <2>2
  <1>5. /\ step \in InQueue /\ pc' \in [Tasks \cup {App} -> Steps]
        /\ pc'[t] = step /\ \A q \in Tasks : q # t => pc'[q] = pc[q]
    BY <1>4, AtEffect DEF Steps, Awaits, InQueue
  <1> HIDE DEF l, m, h
  <1>6. QueueMatchesCalls'
    <2> SUFFICES ASSUME NEW g \in Halves, NEW q \in Tasks
                 PROVE  q \in Range(line'[g]) <=> Half(stage'[q]) = g /\ pc'[q] \in InQueue
      BY DEF QueueMatchesCalls
    <2>1. q \in Range(line[g]) <=> Half(stage[q]) = g /\ pc[q] \in InQueue
      BY DEF GuardInv, QueueMatchesCalls
    <2>2. stage' = stage /\ Half(stage[t]) = h /\ m = line[h]
      BY <1>0 DEF h, m
    <2>3. q \in Range(line'[g]) <=> q \in Range(line[g]) \/ (g = h /\ q = t)
      BY <1>2, <1>3, <2>2
    <2>4. CASE q = t
      BY <1>0, <1>5, <2>1, <2>2, <2>3, <2>4 DEF InQueue
    <2>5. CASE q # t
      BY <1>5, <2>1, <2>2, <2>3, <2>5
    <2> QED BY <2>4, <2>5
  <1>7. \A q \in Tasks : pc'[q] \in AtHead => HoldsHalf(q)'
    <2> SUFFICES ASSUME NEW q \in Tasks, pc'[q] \in AtHead
                 PROVE  HoldsHalf(q)'
      OBVIOUS
    <2>1. CASE q = t
      <3>1. m = <<>> /\ Head(l) = t
        BY <1>2, <1>4, <1>5, <2>1
      <3> QED BY <1>0, <1>2, <1>3, <2>1, <3>1 DEF HoldsHalf, h
    <2>2. CASE q # t
      <3>1. HoldsHalf(q) /\ Half(stage[q]) \in Halves
        BY <1>5, <2>2, HalfType DEF GuardInv
      <3> QED BY <1>0, <1>2, <1>3, <3>1 DEF HoldsHalf, m
    <2> QED BY <2>1, <2>2
  <1>8. \A q \in Tasks : pc'[q] = "io" => slot'[Half(stage'[q])]
    BY <1>0, <1>4, <1>5 DEF GuardInv, h
  <1> QED BY <1>0, <1>3, <1>4, <1>5, <1>6, <1>7, <1>8 DEF TypeOK, GuardInv

LEMMA GuardStep ==
    TypeOK /\ GuardInv /\ [Next]_vars => TypeOK' /\ GuardInv'
  <1> SUFFICES ASSUME TypeOK, GuardInv, [Next]_vars
               PROVE  TypeOK' /\ GuardInv'
    OBVIOUS
  <1>0. /\ line \in [Halves -> Seq(Tasks)] /\ \A h \in Halves : IsInjective(line[h])
        /\ slot \in [Halves -> BOOLEAN] /\ cancelled \in BOOLEAN /\ closing \in BOOLEAN
        /\ stage \in [Tasks -> Stages] /\ out \in [Tasks -> Outcomes]
        /\ message \in [Tasks -> {"none", "ping", "close"}]
    BY DEF TypeOK
  <1>1. ASSUME NEW t \in Tasks, NEW s \in {"send", "recv"}, Call(t, s)
        PROVE  TypeOK' /\ GuardInv'
    BY <1>0, <1>1, EnterType, QuietType DEF Call, Stages, Steps, Awaits, InQueue
  <1>2. ASSUME NEW t \in Tasks, CallClose(t)
        PROVE  TypeOK' /\ GuardInv'
    BY <1>0, <1>2, QuietType DEF CallClose, Steps, InQueue
  <1>3. ASSUME NEW t \in Tasks, SetClosing(t)
        PROVE  TypeOK' /\ GuardInv'
    BY <1>0, <1>3, EnterType, QuietType DEF SetClosing, Stages, Steps, Awaits, InQueue
  <1>4. ASSUME NEW t \in Tasks, Poll(t)
        PROVE  TypeOK' /\ GuardInv'
    BY <1>0, <1>4, QuietType DEF Poll, Steps, InQueue
  <1>5. ASSUME NEW t \in Tasks, Lock(t)
        PROVE  TypeOK' /\ GuardInv'
    BY <1>5, LockEffect
  <1>6. ASSUME NEW t \in Tasks, Granted(t)
        PROVE  TypeOK' /\ GuardInv'
    <2>1. /\ pc[t] = "wait" /\ Head(line[Half(stage[t])]) = t /\ Use(t)
          /\ UNCHANGED <<line, slot, cancelled, closing, stage, message>>
      BY <1>6 DEF Granted
    <2>2. PICK step \in {"io", "drop"} :
            At(t, step) /\ (step = "io" => slot[Half(stage[t])])
      BY <2>1, UseStep
    <2>3. t \in Range(line[Half(stage[t])])
      BY <2>1, HalfType DEF GuardInv, QueueMatchesCalls, InQueue
    <2>4. HoldsHalf(t)
      <3>1. line[Half(stage[t])] # <<>>
        BY <2>3 DEF Range
      <3> QED BY <2>1, <3>1 DEF HoldsHalf
    <2>5. GuardInv'
      BY <2>1, <2>2, <2>4, HeldStep DEF InQueue
    <2>6. pc' \in [Tasks \cup {App} -> Steps]
      BY <2>2, AtEffect DEF Steps, Awaits
    <2> QED BY <1>0, <2>1, <2>5, <2>6, UseStep DEF TypeOK
  <1>7. ASSUME NEW t \in Tasks, NEW v \in Messages \cup {"ok", "failed"}, Io(t, v)
        PROVE  TypeOK' /\ GuardInv'
    <2>1. /\ pc[t] = "io" /\ At(t, "drop") /\ out' = [out EXCEPT ![t] = v]
          /\ UNCHANGED <<line, slot, cancelled, closing, stage, message>>
      BY <1>7 DEF Io
    <2>2. HoldsHalf(t)
      BY <2>1 DEF GuardInv, AtHead
    <2>3. GuardInv'
      BY <2>1, <2>2, HeldStep DEF InQueue
    <2>4. pc' \in [Tasks \cup {App} -> Steps]
      BY <2>1, AtEffect DEF Steps
    <2>5. out' \in [Tasks -> Outcomes]
      BY <1>0, <2>1 DEF Outcomes, Failures
    <2> QED BY <1>0, <2>1, <2>3, <2>4, <2>5 DEF TypeOK
  <1>8. ASSUME NEW t \in Tasks, Interrupt(t) \/ Timeout(t) \/ Abandon(t)
        PROVE  TypeOK' /\ GuardInv'
    <2>1. \E v \in Outcomes : Leave(t, v)
      BY <1>8 DEF Interrupt, Timeout, Abandon, Outcomes, Failures
    <2> QED BY <2>1, LeaveEffect
  <1>9. ASSUME NEW t \in Tasks, DropGuard(t)
        PROVE  TypeOK' /\ GuardInv'
    <2>1. /\ pc[t] = "drop" /\ At(t, "unlock")
          /\ slot' = [slot EXCEPT ![Half(stage[t])] = @ /\ ~cancelled]
          /\ UNCHANGED <<line, cancelled, closing, stage, out, message>>
      BY <1>9 DEF DropGuard
    <2>2. HoldsHalf(t)
      BY <2>1 DEF GuardInv, AtHead
    <2>3. /\ \A h \in Halves : h # Half(stage[t]) => slot'[h] = slot[h]
          /\ slot' \in [Halves -> BOOLEAN]
      BY <1>0, <2>1, HalfType
    <2>4. GuardInv'
      BY <2>1, <2>2, <2>3, HeldStep DEF InQueue
    <2>5. pc' \in [Tasks \cup {App} -> Steps]
      BY <2>1, AtEffect DEF Steps
    <2> QED BY <1>0, <2>1, <2>3, <2>4, <2>5 DEF TypeOK
  <1>10. ASSUME NEW t \in Tasks, Unlock(t)
         PROVE  TypeOK' /\ GuardInv'
    <2> DEFINE m == line[Half(stage[t])]
               l == Tail(m)
    <2>1. /\ pc[t] = "unlock" /\ At(t, "after")
          /\ line' = [line EXCEPT ![Half(stage[t])] = l]
          /\ UNCHANGED <<slot, cancelled, closing, stage, out, message>>
      BY <1>10 DEF Unlock
    <2>2. m # <<>> /\ Head(m) = t /\ m \in Seq(Tasks) /\ IsInjective(m)
      BY <1>0, <2>1, HalfType DEF GuardInv, AtHead, HoldsHalf
    <2>3. l \in Seq(Tasks) /\ IsInjective(l) /\ Range(l) = Range(m) \ {t}
      BY <2>2, QueueUnlocked
    <2>4. GuardInv'
      <3> HIDE DEF l
      <3> QED BY <2>1, <2>2, <2>3, LeaveStep
    <2>5. pc' \in [Tasks \cup {App} -> Steps]
      BY <2>1, AtEffect DEF Steps
    <2>6. line' \in [Halves -> Seq(Tasks)] /\ \A g \in Halves : IsInjective(line'[g])
      <3> HIDE DEF l
      <3> QED BY <2>1, <2>3, LineEffect, HalfType
    <2> QED BY <1>0, <2>1, <2>4, <2>5, <2>6 DEF TypeOK
  <1>11. ASSUME NEW t \in Tasks, After(t)
         PROVE  TypeOK' /\ GuardInv'
    <2>0. pc[t] = "after" /\ pc[t] \notin InQueue /\ UNCHANGED <<line, slot, cancelled>>
      BY <1>11 DEF After, InQueue
    <2>1. CASE /\ At(t, "cancel") /\ UNCHANGED <<stage, out, message>>
               /\ closing' \in BOOLEAN
      BY <1>0, <2>0, <2>1, QuietType DEF Steps, InQueue
    <2>2. CASE /\ out[t] \in {"ping", "close"} /\ message' = [message EXCEPT ![t] = out[t]]
               /\ At(t, "start") /\ Enter(t, "flush") /\ UNCHANGED closing
      <3>1. message' \in [Tasks -> {"none", "ping", "close"}]
        BY <1>0, <2>2
      <3>2. "flush" \in Stages /\ "start" \in Steps \ InQueue
        BY DEF Stages, Steps, Awaits, InQueue
      <3>3. /\ stage' \in [Tasks -> Stages] /\ out' \in [Tasks -> Outcomes]
            /\ \A q \in Tasks : q # t => stage'[q] = stage[q]
        BY <2>2, <3>2, EnterType
      <3> QED BY <1>0, <2>0, <2>2, <3>1, <3>2, <3>3, QuietType
    <2>3. CASE At(t, "armed") /\ Enter(t, "closeRecv") /\ UNCHANGED <<message, closing>>
      <3>2. "closeRecv" \in Stages /\ "armed" \in Steps \ InQueue
        BY DEF Stages, Steps, InQueue
      <3>3. /\ stage' \in [Tasks -> Stages] /\ out' \in [Tasks -> Outcomes]
            /\ \A q \in Tasks : q # t => stage'[q] = stage[q]
        BY <2>3, <3>2, EnterType
      <3> QED BY <1>0, <2>0, <2>3, <3>2, <3>3, QuietType
    <2>4. CASE Finish(t) /\ UNCHANGED closing
      <3>1. "idle" \in Steps \ InQueue
        BY DEF Steps, InQueue
      <3> QED BY <1>0, <2>0, <2>4, <3>1, FinishType, QuietType
    <2> QED BY <1>0, <1>11, <2>1, <2>2, <2>3, <2>4 DEF After
  <1>12. ASSUME NEW x \in Tasks \cup {App}, Cancel(x)
         PROVE  TypeOK' /\ GuardInv'
    <2>1. x = App \/ pc[x] \notin InQueue
      BY <1>12 DEF Cancel, InQueue
    <2> QED BY <1>0, <1>12, <2>1, QuietType DEF Cancel, Steps, InQueue
  <1>t. ASSUME NEW h \in Halves, TryClear(h)
        PROVE  /\ slot' \in [Halves -> BOOLEAN]
               /\ \A g \in Halves : slot[g] /\ line[g] # <<>> => slot'[g]
    BY <1>0, <1>t DEF TryClear
  <1>13. ASSUME NEW x \in Tasks \cup {App}, ClearTx(x)
         PROVE  TypeOK' /\ GuardInv'
    <2>1. /\ pc[x] = "clearTx" /\ At(x, "clearRx") /\ TryClear("tx")
          /\ UNCHANGED <<line, cancelled, closing, stage, out, message>>
      BY <1>13 DEF ClearTx
    <2>2. "clearRx" \in Steps \ InQueue /\ pc[x] \notin InQueue /\ "tx" \in Halves
      BY <2>1 DEF Steps, InQueue, Halves
    <2>3. GuardInv'
      BY <1>t, <2>1, <2>2, QuietStep
    <2>4. pc' \in [Tasks \cup {App} -> Steps]
      BY <2>1, <2>2, AtEffect
    <2> QED BY <1>0, <1>t, <2>1, <2>2, <2>3, <2>4 DEF TypeOK
  <1>14. ASSUME NEW x \in Tasks \cup {App}, ClearRx(x)
         PROVE  TypeOK' /\ GuardInv'
    <2>1. /\ pc[x] = "clearRx" /\ At(x, "idle") /\ TryClear("rx")
          /\ UNCHANGED <<line, cancelled, closing>>
          /\ stage' \in [Tasks -> Stages] /\ out' \in [Tasks -> Outcomes]
          /\ message' \in [Tasks -> {"none", "ping", "close"}]
          /\ \A q \in Tasks : q # x => stage'[q] = stage[q]
      <3>1. CASE x = App
        BY <1>0, <1>14, <3>1 DEF ClearRx
      <3>2. CASE x # App
        BY <1>14, <3>2, FinishType DEF ClearRx
      <3> QED BY <3>1, <3>2
    <2>2. "idle" \in Steps \ InQueue /\ pc[x] \notin InQueue /\ "rx" \in Halves
      BY <2>1 DEF Steps, InQueue, Halves
    <2>3. GuardInv'
      BY <1>t, <2>1, <2>2, QuietStep
    <2>4. pc' \in [Tasks \cup {App} -> Steps]
      BY <2>1, <2>2, AtEffect
    <2> QED BY <1>0, <1>t, <2>1, <2>2, <2>3, <2>4 DEF TypeOK
  <1>15. ASSUME UNCHANGED vars
         PROVE  TypeOK' /\ GuardInv'
    BY <1>15 DEF vars, call, TypeOK, GuardInv, QueueMatchesCalls, HoldsHalf
  <1> QED
    BY <1>1, <1>2, <1>3, <1>4, <1>5, <1>6, <1>7, <1>8, <1>9, <1>10, <1>11, <1>12,
       <1>13, <1>14, <1>15 DEF Next

LEMMA GuardCorrect == Spec => [](TypeOK /\ GuardInv)
  <1>1. Init => TypeOK /\ GuardInv
    <2> SUFFICES ASSUME Init
                 PROVE  TypeOK /\ GuardInv
      OBVIOUS
    <2>1. \A h \in Halves : line[h] = <<>>
      BY DEF Init
    <2>2. /\ line \in [Halves -> Seq(Tasks)]
          /\ \A h \in Halves : IsInjective(line[h]) /\ Range(line[h]) = {}
      BY <2>1 DEF Init, IsInjective, Range
    <2>3. TypeOK
      BY <2>2 DEF Init, TypeOK, Stages, Steps, Outcomes
    <2>4. \A t \in Tasks : pc[t] = "idle"
      BY DEF Init
    <2> QED BY <2>2, <2>3, <2>4 DEF GuardInv, QueueMatchesCalls, InQueue, AtHead
  <1>2. TypeOK /\ GuardInv /\ [Next]_vars => (TypeOK /\ GuardInv)'
    BY GuardStep
  <1> QED BY <1>1, <1>2, PTL DEF Spec

\* A call that is in the middle of a read or a write holds the lock of its
\* half, and the half is in the slot behind the lock: neither abort, which only
\* tries the locks, nor the guard of another call releases what it uses.
THEOREM HalfInUseIsThere == Spec => []UsedHalfIsThere
  <1>1. TypeOK /\ GuardInv => UsedHalfIsThere
    BY DEF GuardInv, UsedHalfIsThere, AtHead, HoldsHalf
  <1> QED BY <1>1, GuardCorrect, PTL
=============================================================================

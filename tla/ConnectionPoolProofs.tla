------------------------ MODULE ConnectionPoolProofs ------------------------
(***************************************************************************)
(* Theorems about ConnectionPool, for every number of requests, keys and   *)
(* connections and every configuration of the pool: types, wake-ups and    *)
(* the connecting lock first, then what a checkout relies on: the pool     *)
(* keeps to its limits, a parked request is served or canceled, and the    *)
(* connection a request gets was made for its key and is its alone.        *)
(***************************************************************************)
EXTENDS ConnectionPool, FiniteSetTheorems, TLAPS

USE DEF Empty, Canceled, NoConn, Background, Waiting, Dropping, Holding, PCs,
        Attempting, ConnStates

-----------------------------------------------------------------------------
(* Type correctness.  The fragments of the actions first.                  *)

ListsOK ==
    /\ cached \in SUBSET Keys
    /\ usedBefore \in SUBSET (Keys \X Keys)
    /\ idle \in [Keys -> SUBSET Conns]
    /\ pushed \in SUBSET (Conns \X Conns)
    /\ age \in [Conns -> Ages]
    /\ idleTask \in BOOLEAN

QueuesOK ==
    /\ connecting \in SUBSET Keys
    /\ waiters \in [Keys -> SUBSET Requests]
    /\ parked \in SUBSET (Requests \X Requests)
    /\ chan \in [Requests -> Conns \cup {Empty, Canceled}]

RequestsOK ==
    /\ pc \in [Requests -> PCs]
    /\ key \in [Requests -> Keys]
    /\ held \in [Requests -> Conns \cup {NoConn}]
    /\ \A r \in Requests : held[r] \in Conns <=> pc[r] \in Holding
    /\ reused \in [Requests -> BOOLEAN]

ConnsOK ==
    /\ conn \in [Conns -> ConnStates]
    /\ h2 \in [Conns -> BOOLEAN]
    /\ of \in [Conns -> Keys]
    /\ owner \in [Conns -> Requests \cup {Background}]
    /\ lock \in [Conns -> BOOLEAN]
    /\ draining \in SUBSET Conns

\* TypeOK by component.
LEMMA TypeParts == TypeOK <=> ListsOK /\ QueuesOK /\ RequestsOK /\ ConnsOK
  BY DEF TypeOK, ListsOK, QueuesOK, RequestsOK, ConnsOK

LEMMA TypePartsPrime ==
    TypeOK' <=> ListsOK' /\ QueuesOK' /\ RequestsOK' /\ ConnsOK'
  BY DEF TypeOK, ListsOK, QueuesOK, RequestsOK, ConnsOK

\* An order loses pairs only.
LEMMA WithoutSubset ==
    ASSUME NEW S, NEW order \in SUBSET (S \X S), NEW T
    PROVE  Without(order, T) \in SUBSET (S \X S)
  BY DEF Without

LEMMA InUseType ==
    ASSUME ConnsOK, NEW c \in Conns
    PROVE  InUse(c) \in ConnStates /\ (InUse(c) \in Attempting => conn[c] \in Attempting)
  BY DEF InUse, ConnsOK

LEMMA AgesZero == 0 \in Ages
  BY ConfigAssumption DEF Ages

\* Adding an idle connection keeps the lists well formed.
LEMMA AddIdleType ==
    ASSUME ListsOK, NEW k \in Keys, NEW c \in Conns, AddIdle(k, c)
    PROVE  ListsOK'
  <1>1. Evicted(k) \in SUBSET Keys
    BY DEF Evicted, ListsOK
  <1>2. cached' \in SUBSET Keys /\ idle' \in [Keys -> SUBSET Conns]
    BY <1>1 DEF AddIdle, ListsOK
  <1>3. usedBefore' \in SUBSET (Keys \X Keys)
    BY <1>1, WithoutSubset DEF AddIdle, PushedLast, ListsOK
  <1>4. pushed' \in SUBSET (Conns \X Conns)
    BY WithoutSubset DEF AddIdle, PushedLast, ListsOK
  <1>5. age' \in [Conns -> Ages]
    BY AgesZero DEF AddIdle, ListsOK
  <1>6. idleTask' \in BOOLEAN
    BY DEF AddIdle, SpawnIdleInterval, ListsOK
  <1> QED BY <1>2, <1>3, <1>4, <1>5, <1>6 DEF ListsOK

LEMMA PutUniqueType ==
    ASSUME ListsOK, QueuesOK, NEW k \in Keys, NEW c \in Conns, PutUnique(k, c)
    PROVE  ListsOK' /\ QueuesOK'
  <1>1. ListsOK'
    BY AddIdleType DEF PutUnique, lists, ListsOK
  <1>2. waiters' \in [Keys -> SUBSET Requests]
    <2>1. \E T : waiters' = [waiters EXCEPT ![k] = T] /\ T \subseteq waiters[k]
      BY DEF PutUnique
    <2> QED BY <2>1 DEF QueuesOK
  <1>3. parked' \in SUBSET (Requests \X Requests)
    BY WithoutSubset DEF PutUnique, QueuesOK
  <1>4. chan' \in [Requests -> Conns \cup {Empty, Canceled}]
    BY DEF PutUnique, QueuesOK
  <1> QED BY <1>1, <1>2, <1>3, <1>4 DEF PutUnique, QueuesOK

LEMMA SentType ==
    ASSUME QueuesOK, NEW k \in Keys, NEW v \in Conns \cup {Canceled}, NEW gone
    PROVE  Sent(k, v, gone) \in [Requests -> Conns \cup {Empty, Canceled}]
  BY DEF Sent, QueuesOK

LEMMA ConnectedType ==
    ASSUME ListsOK, QueuesOK, NEW k \in Keys, NEW gone, Connected(k, gone)
    PROVE  ListsOK' /\ QueuesOK'
  BY WithoutSubset, SentType DEF Connected, lists, ListsOK, QueuesOK

LEMMA PooledSharedType ==
    ASSUME ListsOK, QueuesOK, NEW k \in Keys, NEW c \in Conns, NEW gone,
           PooledShared(k, c, gone)
    PROVE  ListsOK' /\ QueuesOK'
  <1>1. ListsOK'
    BY AddIdleType DEF PooledShared, lists, ListsOK
  <1>2. chan' \in [Requests -> Conns \cup {Empty, Canceled}]
    <2>1. Sent(k, Canceled, gone) \in [Requests -> Conns \cup {Empty, Canceled}]
      BY SentType
    <2>2. Sent(k, c, gone) \in [Requests -> Conns \cup {Empty, Canceled}]
      BY SentType
    <2> QED BY <2>1, <2>2 DEF PooledShared
  <1>3. QueuesOK'
    BY <1>2, WithoutSubset DEF PooledShared, QueuesOK
  <1> QED BY <1>1, <1>3

LEMMA ReleaseType ==
    ASSUME ListsOK, QueuesOK, ConnsOK, NEW c \in Conns, NEW gone, Release(c, gone)
    PROVE  ListsOK' /\ QueuesOK'
  <1>1. CASE lock[c]
    BY <1>1, ConnectedType DEF Release, ConnsOK
  <1>2. CASE ~lock[c]
    BY <1>2 DEF Release, pool, lists, ListsOK, QueuesOK
  <1> QED BY <1>1, <1>2

-----------------------------------------------------------------------------
\* Every action keeps the types.
LEMMA TypeStep == TypeOK /\ [Next]_vars => TypeOK'
  <1> SUFFICES ASSUME TypeOK, [Next]_vars
               PROVE  TypeOK'
    OBVIOUS
  <1> SUFFICES ListsOK' /\ QueuesOK' /\ RequestsOK' /\ ConnsOK'
    BY TypePartsPrime
  <1>0. ListsOK /\ QueuesOK /\ RequestsOK /\ ConnsOK
    BY TypeParts
  <1>a. (UNCHANGED lists => ListsOK') /\ (UNCHANGED <<pool, chan>> => ListsOK' /\ QueuesOK')
    BY <1>0 DEF lists, pool, ListsOK, QueuesOK
  <1>1. ASSUME NEW r \in Requests, NEW k \in Keys, Start(r, k)
        PROVE  ListsOK' /\ QueuesOK' /\ RequestsOK' /\ ConnsOK'
    BY <1>0, <1>1, <1>a DEF Start, attempt, RequestsOK, ConnsOK
  <1>2. ASSUME NEW r \in Requests, CheckoutIdle(r)
        PROVE  ListsOK' /\ QueuesOK' /\ RequestsOK' /\ ConnsOK'
    <2> DEFINE k == key[r]
    <2>0. k \in Keys
      BY <1>0 DEF RequestsOK
    <2>1. PICK c \in idle[k] :
            /\ \E gone : idle' = [idle EXCEPT ![k] = @ \ gone]
                         /\ pushed' = Without(pushed, gone)
            /\ \E S : age' = [d \in Conns |-> IF d \in S THEN 0 ELSE age[d]]
            /\ cached' \in {cached, cached \ {k}}
            /\ \/ usedBefore' = Without(usedBefore, {k})
               \/ usedBefore' = Without(usedBefore, {k})
                                  \cup ((cached \ {k}) \X {k})
            /\ held' = [held EXCEPT ![r] = c]
            /\ conn' = [conn EXCEPT ![c] = InUse(c)]
      BY <1>2 DEF CheckoutIdle
    <2>2. c \in Conns
      BY <1>0, <2>0 DEF ListsOK
    <2>3. idle' \in [Keys -> SUBSET Conns] /\ cached' \in SUBSET Keys
      BY <1>0, <2>0, <2>1 DEF ListsOK
    <2>4. pushed' \in SUBSET (Conns \X Conns) /\ age' \in [Conns -> Ages]
      BY <1>0, <2>1, WithoutSubset, AgesZero DEF ListsOK
    <2>5. usedBefore' \in SUBSET (Keys \X Keys)
      BY <1>0, <2>0, <2>1, WithoutSubset DEF ListsOK
    <2>6. ListsOK' /\ QueuesOK'
      BY <1>0, <1>2, <2>3, <2>4, <2>5 DEF CheckoutIdle, ListsOK, QueuesOK
    <2>7. RequestsOK'
      BY <1>0, <1>2, <2>1, <2>2 DEF CheckoutIdle, RequestsOK
    <2>8. ConnsOK'
      BY <1>0, <1>2, <2>1, <2>2, InUseType DEF CheckoutIdle, ConnsOK, attempt
    <2> QED BY <2>6, <2>7, <2>8
  <1>3. ASSUME NEW r \in Requests, CheckoutPark(r)
        PROVE  ListsOK' /\ QueuesOK' /\ RequestsOK' /\ ConnsOK'
    <2>1. ListsOK'
      BY <1>0, <1>3, WithoutSubset, AgesZero DEF CheckoutPark, ListsOK, RequestsOK
    <2>2. QueuesOK'
      BY <1>0, <1>3 DEF CheckoutPark, QueuesOK, RequestsOK
    <2>3. RequestsOK' /\ ConnsOK'
      BY <1>0, <1>3 DEF CheckoutPark, RequestsOK, ConnsOK, attempt
    <2> QED BY <2>1, <2>2, <2>3
  <1>4. ASSUME NEW r \in Requests, StartConnect(r)
        PROVE  ListsOK' /\ QueuesOK' /\ RequestsOK' /\ ConnsOK'
    <2>1. ListsOK' /\ QueuesOK'
      <3>1. ListsOK'
        BY <1>4, <1>a DEF StartConnect
      <3>a. key[r] \in Keys /\ connecting' \in {connecting, connecting \cup {key[r]}}
        BY <1>0, <1>4 DEF StartConnect, RequestsOK
      <3>2. connecting' \in SUBSET Keys
        BY <1>0, <3>a DEF QueuesOK
      <3> QED BY <1>0, <1>4, <3>1, <3>2 DEF StartConnect, QueuesOK
    <2>2. RequestsOK'
      BY <1>0, <1>4 DEF StartConnect, RequestsOK
    <2>3. IsVerH2(key[r]) \in BOOLEAN
      BY ConfigAssumption DEF IsVerH2
    <2>4. ConnsOK'
      <3>1. CASE UNCHANGED <<conn, attempt>>
        BY <1>0, <1>4, <3>1 DEF StartConnect, ConnsOK, attempt
      <3>2. CASE \E c \in Conns :
                   /\ conn' = [conn EXCEPT ![c] = "dialing"]
                   /\ h2' = [h2 EXCEPT ![c] = IsVerH2(key[r])]
                   /\ of' = [of EXCEPT ![c] = key[r]]
                   /\ owner' = [owner EXCEPT ![c] = r]
                   /\ lock' = [lock EXCEPT ![c] = IsVerH2(key[r])]
        <4>1. PICK c \in Conns :
                /\ conn' = [conn EXCEPT ![c] = "dialing"]
                /\ h2' = [h2 EXCEPT ![c] = IsVerH2(key[r])]
                /\ of' = [of EXCEPT ![c] = key[r]]
                /\ owner' = [owner EXCEPT ![c] = r]
                /\ lock' = [lock EXCEPT ![c] = IsVerH2(key[r])]
          BY <3>2
        <4>2. key[r] \in Keys /\ draining' = draining
          BY <1>0, <1>4 DEF StartConnect, RequestsOK
        <4>3. conn' \in [Conns -> ConnStates] /\ of' \in [Conns -> Keys]
          BY <1>0, <4>1, <4>2 DEF ConnsOK
        <4>4. h2' \in [Conns -> BOOLEAN] /\ lock' \in [Conns -> BOOLEAN]
          BY <1>0, <2>3, <4>1 DEF ConnsOK
        <4>5. owner' \in [Conns -> Requests \cup {Background}]
          BY <1>0, <4>1 DEF ConnsOK
        <4> QED BY <1>0, <4>2, <4>3, <4>4, <4>5 DEF ConnsOK
      <3> QED BY <1>4, <3>1, <3>2 DEF StartConnect
    <2> QED BY <2>1, <2>2, <2>4
  <1>5. ASSUME NEW r \in Requests, WaiterServed(r)
        PROVE  ListsOK' /\ QueuesOK' /\ RequestsOK' /\ ConnsOK'
    <2>1. ListsOK' /\ QueuesOK'
      BY <1>0, <1>5 DEF WaiterServed, ListsOK, QueuesOK, pool, lists
    <2>2. RequestsOK'
      BY <1>0, <1>5 DEF WaiterServed, RequestsOK
    <2>3. conn' \in [Conns -> ConnStates]
      BY <1>0, <1>5, InUseType DEF WaiterServed, ConnsOK
    <2>4. ConnsOK'
      BY <1>0, <1>5, <2>3 DEF WaiterServed, ConnsOK
    <2> QED BY <2>1, <2>2, <2>4
  <1>6. ASSUME NEW r \in Requests, WaiterGotClosed(r) \/ WaiterCanceled(r)
        PROVE  ListsOK' /\ QueuesOK' /\ RequestsOK' /\ ConnsOK'
    <2>1. ListsOK' /\ QueuesOK' /\ ConnsOK'
      BY <1>0, <1>6 DEF WaiterGotClosed, WaiterCanceled, ListsOK, QueuesOK,
                        ConnsOK, pool, lists, attempt
    <2>2. RequestsOK'
      BY <1>0, <1>6 DEF WaiterGotClosed, WaiterCanceled, RequestsOK
    <2> QED BY <2>1, <2>2
  <1>7. ASSUME NEW r \in Requests, CleanWaiters(r)
        PROVE  ListsOK' /\ QueuesOK' /\ RequestsOK' /\ ConnsOK'
    <2>1. ListsOK'
      BY <1>0, <1>7, <1>a DEF CleanWaiters
    <2>2. QueuesOK'
      BY <1>0, <1>7, WithoutSubset DEF CleanWaiters, QueuesOK, RequestsOK
    <2>3. RequestsOK'
      BY <1>0, <1>7 DEF CleanWaiters, RequestsOK
    <2>4. ConnsOK'
      <3>1. CASE pc[r] = "dropToSend"
        <4>1. held[r] \in Conns
          BY <1>0, <3>1 DEF RequestsOK
        <4>2. InUse(held[r]) \in ConnStates
          BY <1>0, <4>1, InUseType
        <4> QED BY <1>0, <1>7, <3>1, <4>1, <4>2 DEF CleanWaiters, ConnsOK, attempt
      <3>2. CASE pc[r] = "dropToIdle"
        BY <1>0, <1>7, <3>2 DEF CleanWaiters, ConnsOK, attempt
      <3> QED BY <1>7, <3>1, <3>2 DEF CleanWaiters
    <2> QED BY <2>1, <2>2, <2>3, <2>4
  <1>8. ASSUME NEW r \in Requests, DropConnect(r)
        PROVE  ListsOK' /\ QueuesOK' /\ RequestsOK' /\ ConnsOK'
    <2>1. PICK c \in Conns : conn' = [conn EXCEPT ![c] = "down"] /\ Ended(c) /\ Release(c, {})
      BY <1>8 DEF DropConnect
    <2>2. ListsOK' /\ QueuesOK'
      BY <1>0, <2>1, ReleaseType
    <2>3. RequestsOK'
      BY <1>0, <1>8 DEF DropConnect, RequestsOK
    <2>4. ConnsOK'
      BY <1>0, <1>8, <2>1 DEF DropConnect, Ended, ConnsOK
    <2> QED BY <2>2, <2>3, <2>4
  <1>9. ASSUME NEW r \in Requests, CancelRequest(r)
        PROVE  ListsOK' /\ QueuesOK' /\ RequestsOK' /\ ConnsOK'
    <2>1. ListsOK' /\ QueuesOK'
      BY <1>0, <1>9, <1>a DEF CancelRequest, QueuesOK, pool
    <2>2. RequestsOK'
      BY <1>0, <1>9, ConnsAssumption DEF CancelRequest, DropPooled, RequestsOK
    <2>3. conn' \in [Conns -> ConnStates]
      BY <1>0, <1>9 DEF CancelRequest, RequestsOK, ConnsOK
    <2>4. ConnsOK'
      BY <1>0, <1>9, <2>3 DEF CancelRequest, ConnsOK, attempt
    <2> QED BY <2>1, <2>2, <2>4
  <1>10. ASSUME NEW r \in Requests, Respond(r)
         PROVE  ListsOK' /\ QueuesOK' /\ RequestsOK' /\ ConnsOK'
    <2>1. held[r] \in Conns
      BY <1>0, <1>10 DEF Respond, RequestsOK, ConnsOK
    <2>2. ListsOK' /\ QueuesOK'
      BY <1>0, <1>10, <1>a, <2>1, PutUniqueType DEF Respond, ConnsOK
    <2>3. RequestsOK'
      BY <1>0, <1>10, ConnsAssumption DEF Respond, DropPooled, RequestsOK
    <2>4. ConnsOK'
      BY <1>0, <1>10, <2>1 DEF Respond, ConnsOK, attempt
    <2> QED BY <2>2, <2>3, <2>4
  <1>11. ASSUME NEW r \in Requests, SendFailed(r)
         PROVE  ListsOK' /\ QueuesOK' /\ RequestsOK' /\ ConnsOK'
    <2>1. RequestsOK'
      BY <1>0, <1>11, ConnsAssumption DEF SendFailed, DropPooled, RequestsOK
    <2> QED BY <1>0, <1>11, <1>a, <2>1 DEF SendFailed, ConnsOK, attempt
  <1>12. ASSUME NEW c \in Conns, NEW alpn \in AlpnH2, Dialed(c, alpn)
         PROVE  ListsOK' /\ QueuesOK' /\ RequestsOK' /\ ConnsOK'
    <2>1. ListsOK' /\ QueuesOK'
      BY <1>0, <1>12, <1>a DEF Dialed, QueuesOK, ConnsOK
    <2>a. UNCHANGED pc \/
          pc' = [r \in Requests |->
                   IF owner[c] # r THEN pc[r]
                   ELSE IF pc[r] = "race" THEN "waitCheckout" ELSE "idle"]
      BY <1>12 DEF Dialed
    <2>b. \A r \in Requests : owner[c] = r => pc[r] \notin Holding
      BY <1>12, RequestsAssumption DEF Dialed, Polled
    <2>c. pc' \in [Requests -> PCs]
      BY <1>0, <2>a DEF RequestsOK
    <2>d. \A r \in Requests : pc'[r] \in Holding <=> pc[r] \in Holding
      BY <1>0, <2>a, <2>b DEF RequestsOK
    <2>2. RequestsOK'
      BY <1>0, <1>12, <2>c, <2>d DEF Dialed, RequestsOK
    <2>3. alpn \in BOOLEAN /\ IsVerH2(of[c]) \in BOOLEAN
      BY ConfigAssumption DEF IsVerH2
    <2>4. ConnsOK'
      BY <1>0, <1>12, <2>3 DEF Dialed, Ended, ConnsOK
    <2> QED BY <2>1, <2>2, <2>4
  <1>13. ASSUME NEW c \in Conns, AttemptFailed(c)
         PROVE  ListsOK' /\ QueuesOK' /\ RequestsOK' /\ ConnsOK'
    <2>1. ListsOK' /\ QueuesOK'
      BY <1>0, <1>13, ReleaseType DEF AttemptFailed
    <2>2. RequestsOK'
      BY <1>0, <1>13, RequestsAssumption DEF AttemptFailed, Polled, RequestsOK
    <2>3. ConnsOK'
      BY <1>0, <1>13 DEF AttemptFailed, Ended, ConnsOK
    <2> QED BY <2>1, <2>2, <2>3
  <1>14. ASSUME NEW c \in Conns, Handshaken(c)
         PROVE  ListsOK' /\ QueuesOK' /\ RequestsOK' /\ ConnsOK'
    <2>1. ListsOK' /\ QueuesOK'
      BY <1>0, <1>14, ReleaseType, PutUniqueType, PooledSharedType
         DEF Handshaken, ConnsOK
    <2>2. RequestsOK'
      <3>1. CASE owner[c] = Background
        BY <1>0, <1>14, <3>1 DEF Handshaken, RequestsOK
      <3>2. CASE owner[c] # Background
        <4>1. owner[c] \in Requests /\ pc[owner[c]] \in {"race", "waitConnect"}
          BY <1>14, <3>2 DEF Handshaken, Polled
        <4>2. /\ pc' = [pc EXCEPT ![owner[c]] = IF @ = "race" THEN "dropToSend"
                                                ELSE "sending"]
              /\ held' = [held EXCEPT ![owner[c]] = c]
              /\ reused' = [reused EXCEPT ![owner[c]] = FALSE]
              /\ key' = key
          BY <1>14, <3>2 DEF Handshaken
        <4> QED BY <1>0, <4>1, <4>2 DEF RequestsOK
      <3> QED BY <3>1, <3>2
    <2>3. ConnsOK'
      BY <1>0, <1>14 DEF Handshaken, Ended, ConnsOK
    <2> QED BY <2>1, <2>2, <2>3
  <1>15. ASSUME NEW c \in Conns, Drained(c)
         PROVE  ListsOK' /\ QueuesOK' /\ RequestsOK' /\ ConnsOK'
    <2>1. ListsOK' /\ QueuesOK'
      BY <1>0, <1>15, <1>a, PutUniqueType DEF Drained, ConnsOK
    <2>2. RequestsOK' /\ ConnsOK'
      BY <1>0, <1>15 DEF Drained, RequestsOK, ConnsOK, attempt
    <2> QED BY <2>1, <2>2
  <1>16. ASSUME NEW c \in Conns, ConnDown(c)
         PROVE  ListsOK' /\ QueuesOK' /\ RequestsOK' /\ ConnsOK'
    BY <1>0, <1>16, <1>a DEF ConnDown, RequestsOK, ConnsOK, attempt
  <1>17. ASSUME Tick
         PROVE  ListsOK' /\ QueuesOK' /\ RequestsOK' /\ ConnsOK'
    <2>1. age' \in [Conns -> Ages]
      BY <1>0, <1>17, ConfigAssumption DEF Tick, Expired, ListsOK, Ages
    <2> QED
      BY <1>0, <1>17, <2>1 DEF Tick, ListsOK, QueuesOK, RequestsOK, ConnsOK, attempt
  <1>18. ASSUME ClearExpired
         PROVE  ListsOK' /\ QueuesOK' /\ RequestsOK' /\ ConnsOK'
    <2>1. ListsOK'
      BY <1>0, <1>18, WithoutSubset, AgesZero DEF ClearExpired, Retained, ListsOK
    <2>2. QueuesOK' /\ RequestsOK' /\ ConnsOK'
      BY <1>0, <1>18 DEF ClearExpired, QueuesOK, RequestsOK, ConnsOK, attempt
    <2> QED BY <2>1, <2>2
  <1>19. ASSUME UNCHANGED vars
         PROVE  ListsOK' /\ QueuesOK' /\ RequestsOK' /\ ConnsOK'
    BY <1>0, <1>19 DEF vars, pool, lists, attempt, ListsOK, QueuesOK, RequestsOK, ConnsOK
  <1> QED
    BY <1>1, <1>2, <1>3, <1>4, <1>5, <1>6, <1>7, <1>8, <1>9, <1>10, <1>11, <1>12,
       <1>13, <1>14, <1>15, <1>16, <1>17, <1>18, <1>19 DEF Next

LEMMA TypeInit == Init => TypeOK
  <1> SUFFICES ASSUME Init PROVE TypeOK
    OBVIOUS
  <1>1. (CHOOSE k \in Keys : TRUE) \in Keys
    BY KeysAssumption
  <1>2. ListsOK /\ QueuesOK
    BY AgesZero DEF Init, ListsOK, QueuesOK
  <1>3. RequestsOK
    BY <1>1, ConnsAssumption DEF Init, RequestsOK
  <1>4. ConnsOK
    BY <1>1 DEF Init, ConnsOK
  <1> QED BY <1>2, <1>3, <1>4, TypeParts

\* The variables of the pool, of the requests and of the connections keep
\* their types.
THEOREM TypeCorrect == Spec => []TypeOK
  BY TypeInit, TypeStep, PTL DEF Spec

-----------------------------------------------------------------------------
(* No lost wake-up: it is inductive on its own, given the types.           *)

\* A put leaves no waiter behind for a key it makes idle.
LEMMA PutUniqueWakes ==
    ASSUME TypeOK, NoIdleWhileWaiting, NEW k \in Keys, NEW c \in Conns,
           PutUnique(k, c)
    PROVE  NoIdleWhileWaiting'
  <1>1. CASE UNCHANGED lists
    <2>a. \E T : waiters' = [waiters EXCEPT ![k] = T] /\ T \subseteq waiters[k]
      BY DEF PutUnique
    <2>1. cached' = cached /\ \A j \in Keys : waiters'[j] \subseteq waiters[j]
      BY <1>1, <2>a DEF lists, TypeOK
    <2> QED BY <2>1 DEF NoIdleWhileWaiting, TypeOK
  <1>2. CASE waiters' = [waiters EXCEPT ![k] = {}] /\ AddIdle(k, c)
    <2>1. cached' \subseteq cached \cup {k}
      BY <1>2 DEF AddIdle
    <2> QED BY <1>2, <2>1 DEF NoIdleWhileWaiting, TypeOK
  <1> QED BY <1>1, <1>2 DEF PutUnique

\* Releasing the lock empties the queue of its key.
LEMMA ReleaseWakes ==
    ASSUME TypeOK, NoIdleWhileWaiting, NEW c \in Conns, NEW gone, Release(c, gone)
    PROVE  NoIdleWhileWaiting'
  <1>1. cached' = cached /\ \A k \in Keys : waiters'[k] \subseteq waiters[k]
    BY DEF Release, Connected, pool, lists, TypeOK
  <1> QED BY <1>1 DEF NoIdleWhileWaiting, TypeOK

LEMMA WakeStep == TypeOK /\ NoIdleWhileWaiting /\ [Next]_vars => NoIdleWhileWaiting'
  <1> SUFFICES ASSUME TypeOK, NoIdleWhileWaiting, [Next]_vars
               PROVE  NoIdleWhileWaiting'
    OBVIOUS
  <1>a. ASSUME cached' \subseteq cached, \A k \in Keys : waiters'[k] \subseteq waiters[k]
        PROVE  NoIdleWhileWaiting'
    BY <1>a DEF NoIdleWhileWaiting, TypeOK
  <1>b. ASSUME UNCHANGED pool
        PROVE  NoIdleWhileWaiting'
    BY <1>b DEF pool, lists, NoIdleWhileWaiting
  <1>1. ASSUME NEW r \in Requests, CheckoutIdle(r)
        PROVE  NoIdleWhileWaiting'
    BY <1>1, <1>a DEF CheckoutIdle
  <1>2. ASSUME NEW r \in Requests, CheckoutPark(r)
        PROVE  NoIdleWhileWaiting'
    BY <1>2 DEF CheckoutPark, NoIdleWhileWaiting, TypeOK
  <1>3. ASSUME NEW r \in Requests, StartConnect(r)
        PROVE  NoIdleWhileWaiting'
    BY <1>3, <1>a DEF StartConnect, lists
  <1>4. ASSUME NEW r \in Requests, CleanWaiters(r)
        PROVE  NoIdleWhileWaiting'
    BY <1>4, <1>a DEF CleanWaiters, lists, TypeOK
  <1>5. ASSUME NEW r \in Requests, DropConnect(r)
        PROVE  NoIdleWhileWaiting'
    BY <1>5, ReleaseWakes DEF DropConnect
  <1>6. ASSUME NEW r \in Requests, Respond(r)
        PROVE  NoIdleWhileWaiting'
    <2>1. held[r] \in Conns /\ of[held[r]] \in Keys
      BY <1>6 DEF Respond, TypeOK
    <2> QED BY <1>6, <1>b, <2>1, PutUniqueWakes DEF Respond
  <1>7. ASSUME NEW c \in Conns, NEW alpn \in AlpnH2, Dialed(c, alpn)
        PROVE  NoIdleWhileWaiting'
    BY <1>7, <1>a DEF Dialed, lists
  <1>8. ASSUME NEW c \in Conns, AttemptFailed(c)
        PROVE  NoIdleWhileWaiting'
    BY <1>8, ReleaseWakes DEF AttemptFailed
  <1>9. ASSUME NEW c \in Conns, Handshaken(c)
        PROVE  NoIdleWhileWaiting'
    <2>0. of[c] \in Keys
      BY DEF TypeOK
    <2>1. CASE PooledShared(of[c], c, Racing(c))
      <3>1. cached' \subseteq cached \cup {of[c]}
        BY <2>1 DEF PooledShared, AddIdle, lists
      <3>2. waiters' = [waiters EXCEPT ![of[c]] = {}]
        BY <2>1 DEF PooledShared
      <3> QED BY <2>0, <3>1, <3>2 DEF NoIdleWhileWaiting, TypeOK
    <2> QED BY <1>9, <2>0, <2>1, PutUniqueWakes, ReleaseWakes DEF Handshaken
  <1>10. ASSUME NEW c \in Conns, Drained(c)
         PROVE  NoIdleWhileWaiting'
    <2>1. of[c] \in Keys
      BY DEF TypeOK
    <2> QED BY <1>10, <1>b, <2>1, PutUniqueWakes DEF Drained
  <1>11. ASSUME Tick \/ ClearExpired
         PROVE  NoIdleWhileWaiting'
    BY <1>11, <1>a DEF Tick, ClearExpired
  <1>12. ASSUME NEW r \in Requests,
                \/ \E k \in Keys : Start(r, k)
                \/ WaiterServed(r) \/ WaiterGotClosed(r) \/ WaiterCanceled(r)
                \/ CancelRequest(r) \/ SendFailed(r)
         PROVE  NoIdleWhileWaiting'
    BY <1>12, <1>b DEF Start, WaiterServed, WaiterGotClosed, WaiterCanceled,
                       CancelRequest, SendFailed
  <1>13. ASSUME NEW c \in Conns, ConnDown(c)
         PROVE  NoIdleWhileWaiting'
    BY <1>13, <1>b DEF ConnDown
  <1>14. ASSUME UNCHANGED vars
         PROVE  NoIdleWhileWaiting'
    BY <1>14, <1>b DEF vars
  <1> QED
    BY <1>1, <1>2, <1>3, <1>4, <1>5, <1>6, <1>7, <1>8, <1>9, <1>10, <1>11, <1>12,
       <1>13, <1>14 DEF Next

\* While a key has idle connections no checkout for it is parked, whatever the
\* interleaving of checkouts, puts, releases, evictions and the IdleTask.
THEOREM NoLostWakeup == Spec => []NoIdleWhileWaiting
  <1>1. Init => NoIdleWhileWaiting
    BY DEF Init, NoIdleWhileWaiting
  <1> QED BY <1>1, TypeCorrect, WakeStep, PTL DEF Spec

-----------------------------------------------------------------------------
(* The connecting lock.                                                    *)

\* LockHeldByOne, pointwise.
LocksOK ==
    /\ \A c \in Conns : lock[c] => of[c] \in connecting
    /\ \A k \in connecting : \E c \in Conns : lock[c] /\ of[c] = k
    /\ \A c, d \in Conns : lock[c] /\ lock[d] /\ of[c] = of[d] => c = d

LEMMA LocksPointwise ==
    TypeOK /\ AttemptInv => (LockHeldByOne <=> LocksOK)
  <1> SUFFICES ASSUME TypeOK, AttemptInv
               PROVE  LockHeldByOne <=> LocksOK
    OBVIOUS
  <1>1. connecting \subseteq Keys /\ \A c \in Conns : of[c] \in Keys
    BY DEF TypeOK
  <1>2. \A c \in Conns : lock[c] => conn[c] \in Attempting
    BY DEF AttemptInv
  <1>3. LockHeldByOne => LocksOK
    BY <1>1 DEF LockHeldByOne, LocksOK, Holders
  <1>4. LocksOK => LockHeldByOne
    BY <1>1, <1>2 DEF LockHeldByOne, LocksOK, Holders
  <1> QED BY <1>3, <1>4

\* Something outside the attempts refers to the connection.
Referenced(c) ==
    \/ c \in draining
    \/ \E k \in Keys : c \in idle[k]
    \/ \E r \in Requests : chan[r] = c \/ held[r] = c

LEMMA MadeReferenced ==
    MadeInv <=> \A c \in Conns : conn[c] \in Attempting => ~Referenced(c)
  BY DEF MadeInv, Referenced

LEMMA UnreferencedIs ==
    ASSUME NEW c \in Conns, Unreferenced(c)
    PROVE  ~Referenced(c) /\ conn[c] \notin Attempting
  BY DEF Unreferenced, Referenced

\* What the fragments can make refer to a connection.
LEMMA AddIdleRefers ==
    ASSUME NEW k \in Keys, NEW c \in Conns, AddIdle(k, c), NEW d \in Conns
    PROVE  \A j \in Keys : d \in idle'[j] => d \in idle[j] \/ d = c
  BY DEF AddIdle

LEMMA PutUniqueRefers ==
    ASSUME TypeOK, NEW k \in Keys, NEW c \in Conns, PutUnique(k, c), NEW d \in Conns
    PROVE  /\ \A j \in Keys : d \in idle'[j] => d \in idle[j] \/ d = c
           /\ \A r \in Requests : chan'[r] = d => chan[r] = d \/ d = c
           /\ connecting' = connecting
  <1>1. UNCHANGED lists \/ AddIdle(k, c)
    BY DEF PutUnique
  <1>2. \A j \in Keys : d \in idle'[j] => d \in idle[j] \/ d = c
    BY <1>1, AddIdleRefers DEF lists
  <1>3. UNCHANGED chan \/ \E w : chan' = [chan EXCEPT ![w] = c]
    BY DEF PutUnique
  <1>4. \A r \in Requests : chan'[r] = d => chan[r] = d \/ d = c
    BY <1>3 DEF TypeOK
  <1> QED BY <1>2, <1>4 DEF PutUnique

LEMMA SentRefers ==
    ASSUME TypeOK, NEW k, NEW v, NEW gone, NEW d \in Conns, chan' = Sent(k, v, gone)
    PROVE  \A r \in Requests : chan'[r] = d => chan[r] = d \/ d = v
  BY ConnsAssumption DEF Sent, TypeOK

LEMMA PooledSharedRefers ==
    ASSUME TypeOK, NEW k \in Keys, NEW c \in Conns, NEW gone,
           PooledShared(k, c, gone), NEW d \in Conns
    PROVE  /\ \A j \in Keys : d \in idle'[j] => d \in idle[j] \/ d = c
           /\ \A r \in Requests : chan'[r] = d => chan[r] = d \/ d = c
           /\ connecting' = connecting \ {k}
  <1>1. \A j \in Keys : d \in idle'[j] => d \in idle[j] \/ d = c
    <2>1. UNCHANGED lists \/ AddIdle(k, c)
      BY DEF PooledShared
    <2> QED BY <2>1, AddIdleRefers DEF lists
  <1>2. CASE chan' = Sent(k, Canceled, gone)
    <2>1. \A r \in Requests : chan'[r] = d => chan[r] = d \/ d = Canceled
      BY <1>2, SentRefers
    <2> QED BY <1>1, <2>1, ConnsAssumption DEF PooledShared
  <1>3. CASE chan' = Sent(k, c, gone)
    <2>1. \A r \in Requests : chan'[r] = d => chan[r] = d \/ d = c
      BY <1>3, SentRefers
    <2> QED BY <1>1, <2>1 DEF PooledShared
  <1> QED BY <1>2, <1>3 DEF PooledShared

LEMMA ReleaseRefers ==
    ASSUME TypeOK, NEW c \in Conns, NEW gone, Release(c, gone), NEW d \in Conns
    PROVE  /\ idle' = idle
           /\ \A r \in Requests : chan'[r] = d => chan[r] = d
           /\ connecting' = IF lock[c] THEN connecting \ {of[c]} ELSE connecting
  <1>1. CASE lock[c]
    <2>1. Connected(of[c], gone)
      BY <1>1 DEF Release
    <2>2. \A r \in Requests : chan'[r] = d => chan[r] = d \/ d = Canceled
      BY <2>1, SentRefers DEF Connected
    <2> QED BY <1>1, <2>1, <2>2, ConnsAssumption DEF Connected, lists
  <1>2. CASE ~lock[c]
    <2>1. /\ chan' = [r \in Requests |-> IF r \in gone THEN Empty ELSE chan[r]]
          /\ UNCHANGED pool
      BY <1>2 DEF Release
    <2>2. \A r \in Requests : chan'[r] = d => chan[r] = d
      BY <2>1, ConnsAssumption
    <2> QED BY <1>2, <2>1, <2>2 DEF pool, lists
  <1> QED BY <1>1, <1>2

\* An attempt that ends gives its lock up, and no other attempt's.
LEMMA EndedLocks ==
    ASSUME TypeOK, AttemptInv, LocksOK, NEW c \in Conns, Ended(c),
           connecting' = IF lock[c] THEN connecting \ {of[c]} ELSE connecting,
           of' = of
    PROVE  LocksOK'
  <1>1. /\ \A d \in Conns : lock'[d] <=> lock[d] /\ d # c
        /\ of' = of
    BY DEF TypeOK, Ended
  <1>2. CASE lock[c]
    <2>1. connecting' = connecting \ {of[c]}
      BY <1>2
    <2>2. \A d \in Conns \ {c} : lock[d] => of[d] # of[c]
      BY <1>2 DEF LocksOK
    <2> QED BY <1>1, <2>1, <2>2 DEF LocksOK
  <1>3. CASE ~lock[c]
    <2>1. connecting' = connecting /\ \A d \in Conns : lock'[d] <=> lock[d]
      BY <1>1, <1>3
    <2> QED BY <1>1, <2>1 DEF LocksOK
  <1> QED BY <1>2, <1>3

LockInv == AttemptInv /\ MadeInv /\ LockHeldByOne

SameAttempt(c) ==
    conn'[c] = conn[c] \/ (conn[c] \notin Attempting /\ conn'[c] \notin Attempting)

\* Steps that start, end or advance no attempt.
LEMMA LockQuiet ==
    ASSUME TypeOK, TypeOK', LockInv, UNCHANGED <<connecting, h2, of, lock>>,
           \A c \in Conns : SameAttempt(c),
           \A c \in Conns : owner'[c] \in {owner[c], Background},
           \A c \in Conns : Referenced(c)' => Referenced(c) \/ conn[c] \notin Attempting
    PROVE  LockInv'
  <1>1. AttemptInv'
    BY DEF AttemptInv, LockInv, IsVerH2, SameAttempt, Attempting
  <1>2. LockHeldByOne'
    BY DEF LockHeldByOne, LockInv, Holders, SameAttempt
  <1>3. MadeInv'
    <2>1. \A c \in Conns : conn[c] \in Attempting => ~Referenced(c)
      BY MadeReferenced DEF LockInv
    <2> SUFFICES ASSUME NEW c \in Conns, conn'[c] \in Attempting, Referenced(c)'
                 PROVE  FALSE
      BY DEF MadeInv, Referenced
    <2> QED BY <2>1 DEF SameAttempt
  <1> QED BY <1>1, <1>2, <1>3 DEF LockInv

\* Steps that end an attempt, by success or failure.
LEMMA LockEnd ==
    ASSUME TypeOK, TypeOK', LockInv, NEW c \in Conns, conn[c] \in Attempting,
           conn'[c] \notin Attempting,
           \A d \in Conns \ {c} : conn'[d] = conn[d],
           Ended(c), UNCHANGED <<h2, of>>,
           connecting' = IF lock[c] THEN connecting \ {of[c]} ELSE connecting,
           \A d \in Conns : Referenced(d)' => Referenced(d) \/ d = c
    PROVE  LockInv'
  <1>0. lock \in [Conns -> BOOLEAN] /\ owner \in [Conns -> Requests \cup {Background}]
    BY DEF TypeOK
  <1>a. \A d \in Conns \ {c} : lock'[d] = lock[d] /\ owner'[d] = owner[d]
    BY <1>0 DEF Ended
  <1>b. ~lock'[c] /\ owner'[c] = Background
    BY <1>0 DEF Ended
  <1>1. AttemptInv'
    BY <1>a, <1>b DEF AttemptInv, LockInv, IsVerH2
  <1>2. LocksOK'
    BY EndedLocks, LocksPointwise DEF LockInv
  <1>3. LockHeldByOne'
    <2>1. \A d \in Conns : lock'[d] => conn'[d] \in Attempting
      BY <1>1 DEF AttemptInv
    <2>2. connecting' \subseteq Keys /\ \A d \in Conns : of'[d] \in Keys
      BY DEF TypeOK
    <2> QED BY <1>2, <2>1, <2>2 DEF LocksOK, LockHeldByOne, Holders
  <1>4. MadeInv'
    <2>1. \A d \in Conns : conn[d] \in Attempting => ~Referenced(d)
      BY MadeReferenced DEF LockInv
    <2> SUFFICES ASSUME NEW d \in Conns, conn'[d] \in Attempting, Referenced(d)'
                 PROVE  FALSE
      BY DEF MadeInv, Referenced
    <2> QED BY <2>1
  <1> QED BY <1>1, <1>3, <1>4 DEF LockInv

\* An attempt that could still be upgraded holds no lock.
LEMMA LockFree ==
    ASSUME LockInv, TypeOK, NEW c \in Conns, conn[c] = "dialing", ~IsVerH2(of[c])
    PROVE  ~lock[c]
  BY DEF LockInv, AttemptInv

\* StartConnect with a fresh attempt c, and the part of Dialed that goes on
\* to the handshake.
Dialing(r, c) ==
    LET k == key[r] IN
    /\ ~(IsVerH2(k) /\ k \in connecting)
    /\ Unreferenced(c)
    /\ conn' = [conn EXCEPT ![c] = "dialing"]
    /\ h2' = [h2 EXCEPT ![c] = IsVerH2(k)]
    /\ of' = [of EXCEPT ![c] = k]
    /\ owner' = [owner EXCEPT ![c] = r]
    /\ lock' = [lock EXCEPT ![c] = IsVerH2(k)]
    /\ connecting' = IF IsVerH2(k) THEN connecting \cup {k} ELSE connecting

Upgraded(c, upgrade) ==
    /\ ~(upgrade /\ of[c] \in connecting)
    /\ upgrade => ~IsVerH2(of[c])
    /\ conn' = [conn EXCEPT ![c] = "handshake"]
    /\ h2'[c] = (h2[c] \/ upgrade) /\ \A d \in Conns \ {c} : h2'[d] = h2[d]
    /\ lock' = [lock EXCEPT ![c] = @ \/ upgrade]
    /\ connecting' = IF upgrade THEN connecting \cup {of[c]} ELSE connecting
    /\ UNCHANGED owner

LEMMA LockDialing ==
    ASSUME TypeOK, TypeOK', LockInv, NEW r \in Requests, NEW c \in Conns, Dialing(r, c),
           UNCHANGED <<idle, chan, held, draining>>
    PROVE  LockInv'
  <1>0. ~Referenced(c) /\ conn[c] \notin Attempting
    BY UnreferencedIs DEF Dialing
  <1>t. /\ conn \in [Conns -> ConnStates] /\ of \in [Conns -> Keys]
        /\ h2 \in [Conns -> BOOLEAN] /\ lock \in [Conns -> BOOLEAN]
        /\ owner \in [Conns -> Requests \cup {Background}]
    BY DEF TypeOK
  <1> DEFINE new == IsVerH2(key[r])
  <1>1. /\ \A d \in Conns \ {c} : /\ conn'[d] = conn[d] /\ h2'[d] = h2[d]
                                  /\ of'[d] = of[d] /\ owner'[d] = owner[d]
                                  /\ lock'[d] = lock[d]
        /\ conn'[c] = "dialing" /\ of'[c] = key[r] /\ owner'[c] = r
        /\ (h2'[c] <=> new) /\ (lock'[c] <=> new)
    BY <1>t DEF Dialing
  <1>2. AttemptInv'
    BY <1>1 DEF LockInv, AttemptInv, IsVerH2, Attempting
  <1>3. LocksOK /\ ~lock[c] /\ key[r] \in Keys
    BY <1>0, LocksPointwise DEF LockInv, AttemptInv, TypeOK
  <1>4. LocksOK'
    <2>1. CASE new
      <3>1. key[r] \notin connecting /\ connecting' = connecting \cup {key[r]}
        BY <2>1 DEF Dialing
      <3>2. \A d \in Conns : lock[d] => of[d] # key[r]
        BY <1>3, <3>1 DEF LocksOK
      <3>3. \A d \in Conns : lock'[d] => of'[d] \in connecting'
        BY <1>1, <1>3, <3>1 DEF LocksOK
      <3>4. \A k \in connecting' : \E d \in Conns : lock'[d] /\ of'[d] = k
        BY <1>1, <1>3, <2>1, <3>1 DEF LocksOK
      <3>5. \A d, e \in Conns : lock'[d] /\ lock'[e] /\ of'[d] = of'[e] => d = e
        BY <1>1, <1>3, <3>2 DEF LocksOK
      <3> QED BY <3>3, <3>4, <3>5 DEF LocksOK
    <2>2. CASE ~new
      <3>1. connecting' = connecting /\ ~lock'[c]
        BY <1>1, <2>2 DEF Dialing
      <3> QED BY <1>1, <1>3, <3>1 DEF LocksOK
    <2> QED BY <2>1, <2>2
  <1>5. LockHeldByOne'
    <2>1. \A d \in Conns : lock'[d] => conn'[d] \in Attempting
      BY <1>2 DEF AttemptInv
    <2>2. connecting' \subseteq Keys /\ \A d \in Conns : of'[d] \in Keys
      BY DEF TypeOK
    <2> QED BY <1>4, <2>1, <2>2 DEF LocksOK, LockHeldByOne, Holders
  <1>6. MadeInv'
    <2>1. \A d \in Conns : conn[d] \in Attempting => ~Referenced(d)
      BY MadeReferenced DEF LockInv
    <2>2. \A d \in Conns : conn'[d] \in Attempting => ~Referenced(d)
      BY <1>0, <1>1, <2>1
    <2> QED BY <2>2 DEF MadeInv, Referenced
  <1> QED BY <1>2, <1>5, <1>6 DEF LockInv

LEMMA LockUpgraded ==
    ASSUME TypeOK, TypeOK', LockInv, NEW c \in Conns, conn[c] = "dialing",
           NEW upgrade \in BOOLEAN, Upgraded(c, upgrade),
           UNCHANGED <<idle, chan, held, draining, of>>
    PROVE  LockInv'
  <1>t. /\ conn \in [Conns -> ConnStates] /\ h2 \in [Conns -> BOOLEAN]
        /\ lock \in [Conns -> BOOLEAN]
    BY DEF TypeOK
  <1>1. /\ \A d \in Conns \ {c} : /\ conn'[d] = conn[d] /\ h2'[d] = h2[d]
                                  /\ owner'[d] = owner[d] /\ lock'[d] = lock[d]
        /\ conn'[c] = "handshake" /\ owner'[c] = owner[c]
        /\ (h2'[c] <=> h2[c] \/ upgrade) /\ (lock'[c] <=> lock[c] \/ upgrade)
        /\ of' = of
    BY <1>t DEF Upgraded
  <1>2. AttemptInv'
    BY <1>1 DEF LockInv, AttemptInv, IsVerH2, Attempting
  <1>3. LocksOK
    BY LocksPointwise DEF LockInv
  <1>4. LocksOK'
    <2>1. CASE upgrade
      <3>1. of[c] \notin connecting /\ connecting' = connecting \cup {of[c]}
        BY <2>1 DEF Upgraded
      <3>2. \A d \in Conns : lock[d] => of[d] # of[c]
        BY <1>3, <3>1 DEF LocksOK
      <3>3. \A d \in Conns : lock'[d] => of'[d] \in connecting'
        BY <1>1, <1>3, <3>1 DEF LocksOK
      <3>4. \A k \in connecting' : \E d \in Conns : lock'[d] /\ of'[d] = k
        BY <1>1, <1>3, <2>1, <3>1 DEF LocksOK
      <3>5. \A d, e \in Conns : lock'[d] /\ lock'[e] /\ of'[d] = of'[e] => d = e
        BY <1>1, <1>3, <3>2 DEF LocksOK
      <3> QED BY <3>3, <3>4, <3>5 DEF LocksOK
    <2>2. CASE ~upgrade
      <3>1. connecting' = connecting /\ \A d \in Conns : lock'[d] <=> lock[d]
        BY <1>1, <2>2 DEF Upgraded
      <3> QED BY <1>1, <1>3, <3>1 DEF LocksOK
    <2> QED BY <2>1, <2>2
  <1>5. LockHeldByOne'
    <2>1. \A d \in Conns : lock'[d] => conn'[d] \in Attempting
      BY <1>2 DEF AttemptInv
    <2>2. connecting' \subseteq Keys /\ \A d \in Conns : of'[d] \in Keys
      BY DEF TypeOK
    <2> QED BY <1>4, <2>1, <2>2 DEF LocksOK, LockHeldByOne, Holders
  <1>6. MadeInv'
    <2>1. \A d \in Conns : conn[d] \in Attempting => ~Referenced(d)
      BY MadeReferenced DEF LockInv
    <2>2. \A d \in Conns : conn'[d] \in Attempting => conn[d] \in Attempting
      BY <1>1 DEF Attempting
    <2> QED BY <2>1, <2>2 DEF MadeInv, Referenced
  <1> QED BY <1>2, <1>5, <1>6 DEF LockInv

LEMMA LockStep == TypeOK /\ LockInv /\ [Next]_vars => LockInv'
  <1> SUFFICES ASSUME TypeOK, LockInv, [Next]_vars
               PROVE  LockInv'
    OBVIOUS
  <1>0. TypeOK'
    BY TypeStep
  <1>t. /\ conn \in [Conns -> ConnStates] /\ held \in [Requests -> Conns \cup {NoConn}]
        /\ chan \in [Requests -> Conns \cup {Empty, Canceled}]
        /\ \A r \in Requests : held[r] \in Conns <=> pc[r] \in Holding
        /\ idle \in [Keys -> SUBSET Conns] /\ key \in [Requests -> Keys]
        /\ of \in [Conns -> Keys]
    BY DEF TypeOK
  <1>m. \A c \in Conns : conn[c] \in Attempting => ~Referenced(c)
    BY MadeReferenced DEF LockInv
  <1>h. \A r \in Requests : held[r] \in Conns => conn[held[r]] \notin Attempting
    BY <1>m DEF Referenced
  <1>1. ASSUME NEW r \in Requests, NEW k \in Keys, Start(r, k)
        PROVE  LockInv'
    <2>1. UNCHANGED <<connecting, attempt, conn, idle, chan, held, draining>>
      BY <1>1 DEF Start, pool, lists
    <2> QED BY <1>0, <2>1, LockQuiet DEF attempt, Referenced, SameAttempt
  <1>2. ASSUME NEW r \in Requests, CheckoutIdle(r)
        PROVE  LockInv'
    <2>1. PICK c \in idle[key[r]] :
            /\ conn' = [conn EXCEPT ![c] = InUse(c)]
            /\ held' = [held EXCEPT ![r] = c]
            /\ \E gone : idle' = [idle EXCEPT ![key[r]] = @ \ gone]
      BY <1>2 DEF CheckoutIdle
    <2>2. c \in Conns /\ Referenced(c)
      BY <1>t DEF Referenced
    <2>3. conn[c] \notin Attempting /\ InUse(c) \notin Attempting
      BY <1>m, <2>2 DEF InUse
    <2>4. \A d \in Conns : SameAttempt(d)
      BY <1>t, <2>1, <2>2, <2>3 DEF SameAttempt
    <2>5. UNCHANGED <<connecting, attempt, chan, draining>>
      BY <1>2 DEF CheckoutIdle
    <2>a. \A d \in Conns : \A j \in Keys : d \in idle'[j] => d \in idle[j]
      BY <1>t, <2>1
    <2>b. \A d \in Conns : \A q \in Requests : held'[q] = d => held[q] = d \/ d = c
      BY <1>t, <2>1
    <2>6. \A d \in Conns : Referenced(d)' => Referenced(d)
      BY <2>2, <2>5, <2>a, <2>b DEF Referenced
    <2> QED BY <1>0, <2>4, <2>5, <2>6, LockQuiet DEF attempt
  <1>3. ASSUME NEW r \in Requests, CheckoutPark(r)
        PROVE  LockInv'
    <2>1. UNCHANGED <<connecting, attempt, conn, chan, held, draining>>
      BY <1>3 DEF CheckoutPark
    <2>2. \A d \in Conns : Referenced(d)' => Referenced(d)
      BY <1>t, <1>3, <2>1 DEF CheckoutPark, Referenced
    <2> QED BY <1>0, <2>1, <2>2, LockQuiet DEF attempt, SameAttempt
  <1>4. ASSUME NEW r \in Requests, StartConnect(r)
        PROVE  LockInv'
    <2>0. UNCHANGED <<idle, chan, held, draining>> /\ key[r] \in Keys
      BY <1>4, <1>t DEF StartConnect, lists
    <2>1. CASE UNCHANGED <<connecting, conn, attempt>>
      BY <1>0, <2>0, <2>1, LockQuiet DEF attempt, Referenced, SameAttempt
    <2>2. CASE \E c \in Conns : Dialing(r, c)
      BY <1>0, <2>0, <2>2, LockDialing
    <2> QED BY <1>4, <2>1, <2>2 DEF StartConnect, Dialing
  <1>5. ASSUME NEW r \in Requests, WaiterServed(r)
        PROVE  LockInv'
    <2>1. chan[r] \in Conns /\ Referenced(chan[r])
      BY <1>5 DEF WaiterServed, Referenced
    <2>2. conn[chan[r]] \notin Attempting /\ InUse(chan[r]) \notin Attempting
      BY <1>m, <2>1 DEF InUse
    <2>3. \A d \in Conns : SameAttempt(d)
      BY <1>t, <1>5, <2>1, <2>2 DEF WaiterServed, SameAttempt
    <2>4. UNCHANGED <<connecting, h2, of, lock, idle, draining>>
      BY <1>5 DEF WaiterServed, pool, lists
    <2>5. \A c \in Conns : owner'[c] \in {owner[c], Background}
      BY <1>5 DEF WaiterServed
    <2>a. \A d \in Conns : \A q \in Requests : chan'[q] = d => chan[q] = d
      BY <1>t, <1>5, ConnsAssumption DEF WaiterServed
    <2>b. \A d \in Conns : \A q \in Requests : held'[q] = d => held[q] = d \/ d = chan[r]
      BY <1>t, <1>5 DEF WaiterServed
    <2>6. \A d \in Conns : Referenced(d)' => Referenced(d)
      BY <2>1, <2>4, <2>a, <2>b DEF Referenced
    <2> QED BY <1>0, <2>3, <2>4, <2>5, <2>6, LockQuiet
  <1>6. ASSUME NEW r \in Requests, WaiterGotClosed(r) \/ WaiterCanceled(r)
        PROVE  LockInv'
    <2>1. UNCHANGED <<connecting, attempt, conn, idle, held, draining>>
      BY <1>6 DEF WaiterGotClosed, WaiterCanceled, pool, lists
    <2>c. chan' = [chan EXCEPT ![r] = Empty]
      BY <1>6 DEF WaiterGotClosed, WaiterCanceled
    <2>a. \A d \in Conns : \A q \in Requests : chan'[q] = d => chan[q] = d
      BY <1>t, <2>c, ConnsAssumption
    <2>2. \A d \in Conns : Referenced(d)' => Referenced(d)
      BY <2>1, <2>a DEF Referenced
    <2> QED BY <1>0, <2>1, <2>2, LockQuiet DEF attempt, SameAttempt
  <1>7. ASSUME NEW r \in Requests, CleanWaiters(r)
        PROVE  LockInv'
    <2>1. UNCHANGED <<connecting, attempt, idle, chan, held, draining>>
      BY <1>7 DEF CleanWaiters, lists
    <2>2. \A d \in Conns : SameAttempt(d)
      BY <1>t, <1>h, <1>7 DEF CleanWaiters, InUse, SameAttempt
    <2> QED BY <1>0, <2>1, <2>2, LockQuiet DEF attempt, Referenced, SameAttempt
  <1>8. ASSUME NEW r \in Requests, DropConnect(r)
        PROVE  LockInv'
    <2>1. PICK c \in Conns : /\ owner[c] = r
                             /\ conn' = [conn EXCEPT ![c] = "down"]
                             /\ Ended(c)
                             /\ Release(c, {})
      BY <1>8 DEF DropConnect
    <2>2. conn[c] \in Attempting
      BY <2>1, RequestsAssumption DEF LockInv, AttemptInv
    <2>3. UNCHANGED <<h2, of, held, draining>>
      BY <1>8 DEF DropConnect
    <2>4. \A d \in Conns : Referenced(d)' => Referenced(d)
      BY <2>1, <2>3, ReleaseRefers DEF Referenced
    <2> QED BY <1>0, <1>t, <2>1, <2>2, <2>3, <2>4, ReleaseRefers, LockEnd
  <1>9. ASSUME NEW r \in Requests, CancelRequest(r)
        PROVE  LockInv'
    <2>1. UNCHANGED <<connecting, attempt, idle, draining>>
      BY <1>9 DEF CancelRequest, pool, lists
    <2>2. \A d \in Conns : SameAttempt(d)
      BY <1>t, <1>h, <1>9 DEF CancelRequest, SameAttempt
    <2>c. /\ chan' = chan \/ chan' = [chan EXCEPT ![r] = Empty]
          /\ held' = held \/ held' = [held EXCEPT ![r] = NoConn]
      BY <1>9 DEF CancelRequest, DropPooled
    <2>a. ASSUME NEW d \in Conns, NEW q \in Requests, chan'[q] = d PROVE chan[q] = d
      <3>1. CASE chan' = chan
        BY <2>a, <3>1
      <3>2. CASE chan' = [chan EXCEPT ![r] = Empty]
        BY <1>t, <2>a, <3>2, ConnsAssumption
      <3> QED BY <2>c, <3>1, <3>2
    <2>b. ASSUME NEW d \in Conns, NEW q \in Requests, held'[q] = d PROVE held[q] = d
      <3>1. CASE held' = held
        BY <2>b, <3>1
      <3>2. CASE held' = [held EXCEPT ![r] = NoConn]
        BY <1>t, <2>b, <3>2, ConnsAssumption
      <3> QED BY <2>c, <3>1, <3>2
    <2>3. \A d \in Conns : Referenced(d)' => Referenced(d)
      BY <2>1, <2>a, <2>b DEF Referenced
    <2> QED BY <1>0, <2>1, <2>2, <2>3, LockQuiet DEF attempt
  <1>10. ASSUME NEW r \in Requests, Respond(r)
         PROVE  LockInv'
    <2>1. held[r] \in Conns /\ conn[held[r]] \notin Attempting
      BY <1>t, <1>h, <1>10 DEF Respond
    <2>2. UNCHANGED attempt /\ DropPooled(r)
      BY <1>10 DEF Respond
    <2>3. \A d \in Conns : SameAttempt(d)
      BY <1>t, <1>10, <2>1 DEF Respond, SameAttempt
    <2>4. \A d \in Conns : held[r] # d => (d \in draining' <=> d \in draining)
      BY <1>10 DEF Respond
    <2>5. /\ connecting' = connecting
          /\ \A d \in Conns :
              /\ \A j \in Keys : d \in idle'[j] => d \in idle[j] \/ d = held[r]
              /\ \A q \in Requests : chan'[q] = d => chan[q] = d \/ d = held[r]
      <3>0. of[held[r]] \in Keys
        BY <1>t, <2>1
      <3>1. CASE UNCHANGED <<pool, chan>>
        BY <3>1 DEF pool, lists
      <3>2. CASE PutUnique(of[held[r]], held[r])
        <4>1. connecting' = connecting
          BY <3>2 DEF PutUnique
        <4>2. ASSUME NEW d \in Conns
              PROVE  /\ \A j \in Keys : d \in idle'[j] => d \in idle[j] \/ d = held[r]
                     /\ \A q \in Requests : chan'[q] = d => chan[q] = d \/ d = held[r]
          BY <2>1, <3>0, <3>2, PutUniqueRefers
        <4> QED BY <4>1, <4>2
      <3> QED BY <1>10, <3>1, <3>2 DEF Respond
    <2>b. \A d \in Conns : \A q \in Requests : held'[q] = d => held[q] = d
      BY <1>t, <2>2, ConnsAssumption DEF DropPooled
    <2>6. \A d \in Conns : Referenced(d)' => Referenced(d) \/ conn[d] \notin Attempting
      BY <2>1, <2>4, <2>5, <2>b DEF Referenced
    <2> QED BY <1>0, <2>2, <2>3, <2>5, <2>6, LockQuiet DEF attempt
  <1>11. ASSUME NEW r \in Requests, SendFailed(r)
         PROVE  LockInv'
    <2>1. UNCHANGED <<connecting, attempt, conn, idle, chan, draining>> /\ DropPooled(r)
      BY <1>11 DEF SendFailed, pool, lists
    <2>2. \A d \in Conns : Referenced(d)' => Referenced(d)
      BY <1>t, <2>1, ConnsAssumption DEF DropPooled, Referenced
    <2> QED BY <1>0, <2>1, <2>2, LockQuiet DEF attempt, SameAttempt
  <1>12. ASSUME NEW c \in Conns, NEW alpn \in AlpnH2, Dialed(c, alpn)
         PROVE  LockInv'
    <2>0. UNCHANGED <<idle, chan, held, draining, of>> /\ conn[c] = "dialing"
      BY <1>12 DEF Dialed, lists
    <2>1. CASE /\ conn' = [conn EXCEPT ![c] = "down"]
               /\ Ended(c)
               /\ ~IsVerH2(of[c])
               /\ UNCHANGED <<connecting, h2>>
      <3>1. ~lock[c]
        BY <2>0, <2>1, LockFree
      <3>2. \A d \in Conns : Referenced(d)' => Referenced(d)
        BY <2>0 DEF Referenced
      <3> QED BY <1>0, <1>t, <2>0, <2>1, <3>1, <3>2, LockEnd
    <2>2. CASE \E upgrade \in BOOLEAN : Upgraded(c, upgrade)
      BY <1>0, <2>0, <2>2, LockUpgraded
    <2> DEFINE upgrade == alpn /\ ~IsVerH2(of[c])
    <2>3. /\ h2 \in [Conns -> BOOLEAN] /\ alpn \in BOOLEAN /\ upgrade \in BOOLEAN
          /\ IsVerH2(of[c]) => h2[c]
      BY <2>0, ConfigAssumption DEF TypeOK, LockInv, AttemptInv, Attempting, IsVerH2
    <2>4. CASE /\ ~(upgrade /\ of[c] \in connecting)
               /\ conn' = [conn EXCEPT ![c] = "handshake"]
               /\ h2' = [h2 EXCEPT ![c] = @ \/ alpn]
               /\ lock' = [lock EXCEPT ![c] = @ \/ upgrade]
               /\ connecting' = IF upgrade THEN connecting \cup {of[c]} ELSE connecting
               /\ UNCHANGED owner
      <3>1. h2'[c] = (h2[c] \/ upgrade) /\ \A d \in Conns \ {c} : h2'[d] = h2[d]
        BY <2>3, <2>4
      <3> QED BY <2>2, <2>3, <2>4, <3>1 DEF Upgraded
    <2> QED BY <1>12, <2>1, <2>4 DEF Dialed
  <1>13. ASSUME NEW c \in Conns, AttemptFailed(c)
         PROVE  LockInv'
    <2>1. /\ conn[c] \in Attempting
          /\ conn' = [conn EXCEPT ![c] = "down"]
          /\ Ended(c)
          /\ Release(c, Racing(c))
          /\ UNCHANGED <<h2, of, held, draining>>
      BY <1>13 DEF AttemptFailed, Polled
    <2>2. \A d \in Conns : Referenced(d)' => Referenced(d)
      BY <2>1, ReleaseRefers DEF Referenced
    <2> QED BY <1>0, <1>t, <2>1, <2>2, ReleaseRefers, LockEnd
  <1>14. ASSUME NEW c \in Conns, Handshaken(c)
         PROVE  LockInv'
    <2>0. /\ conn[c] = "handshake" /\ conn'[c] \in {"up", "busy"}
          /\ \A d \in Conns \ {c} : conn'[d] = conn[d]
          /\ Ended(c)
          /\ UNCHANGED <<h2, of, draining>>
      BY <1>t, <1>14 DEF Handshaken
    <2>1. of[c] \in Keys /\ (lock[c] <=> h2[c])
      BY <1>t, <2>0 DEF LockInv, AttemptInv
    <2>2. \A q \in Requests : held'[q] = held[q] \/ held'[q] = c
      BY <1>t, <1>14 DEF Handshaken
    <2>3. /\ connecting' = IF lock[c] THEN connecting \ {of[c]} ELSE connecting
          /\ \A d \in Conns :
              /\ \A j \in Keys : d \in idle'[j] => d \in idle[j] \/ d = c
              /\ \A q \in Requests : chan'[q] = d => chan[q] = d \/ d = c
      <3>1. CASE h2[c] /\ PooledShared(of[c], c, Racing(c))
        <4>1. connecting' = connecting \ {of[c]}
          BY <3>1 DEF PooledShared
        <4>2. ASSUME NEW d \in Conns
              PROVE  /\ \A j \in Keys : d \in idle'[j] => d \in idle[j] \/ d = c
                     /\ \A q \in Requests : chan'[q] = d => chan[q] = d \/ d = c
          BY <2>1, <3>1, PooledSharedRefers
        <4> QED BY <2>1, <3>1, <4>1, <4>2
      <3>2. CASE ~h2[c] /\ PutUnique(of[c], c)
        <4>1. connecting' = connecting
          BY <3>2 DEF PutUnique
        <4>2. ASSUME NEW d \in Conns
              PROVE  /\ \A j \in Keys : d \in idle'[j] => d \in idle[j] \/ d = c
                     /\ \A q \in Requests : chan'[q] = d => chan[q] = d \/ d = c
          BY <2>1, <3>2, PutUniqueRefers
        <4> QED BY <2>1, <3>2, <4>1, <4>2
      <3>3. CASE Release(c, Racing(c))
        BY <3>3, ReleaseRefers
      <3> QED BY <1>14, <3>1, <3>2, <3>3 DEF Handshaken
    <2>4. \A d \in Conns : Referenced(d)' => Referenced(d) \/ d = c
      BY <2>0, <2>2, <2>3 DEF Referenced
    <2> QED BY <1>0, <2>0, <2>3, <2>4, LockEnd
  <1>15. ASSUME NEW c \in Conns, Drained(c)
         PROVE  LockInv'
    <2>1. c \in draining /\ conn[c] \notin Attempting
      BY <1>m, <1>15 DEF Drained, Referenced
    <2>2. UNCHANGED <<attempt, held>> /\ draining' = draining \ {c}
      BY <1>15 DEF Drained
    <2>3. \A d \in Conns : SameAttempt(d)
      BY <1>t, <1>15, <2>1 DEF Drained, SameAttempt
    <2>4. /\ connecting' = connecting
          /\ \A d \in Conns :
              /\ \A j \in Keys : d \in idle'[j] => d \in idle[j] \/ d = c
              /\ \A q \in Requests : chan'[q] = d => chan[q] = d \/ d = c
      <3>0. of[c] \in Keys
        BY <1>t
      <3>1. CASE UNCHANGED <<pool, chan>>
        BY <3>1 DEF pool, lists
      <3>2. CASE PutUnique(of[c], c)
        <4>1. connecting' = connecting
          BY <3>2 DEF PutUnique
        <4>2. ASSUME NEW d \in Conns
              PROVE  /\ \A j \in Keys : d \in idle'[j] => d \in idle[j] \/ d = c
                     /\ \A q \in Requests : chan'[q] = d => chan[q] = d \/ d = c
          BY <3>0, <3>2, PutUniqueRefers
        <4> QED BY <4>1, <4>2
      <3> QED BY <1>15, <3>1, <3>2 DEF Drained
    <2>5. \A d \in Conns : Referenced(d)' => Referenced(d) \/ conn[d] \notin Attempting
      BY <2>1, <2>2, <2>4 DEF Referenced
    <2> QED BY <1>0, <2>2, <2>3, <2>4, <2>5, LockQuiet DEF attempt
  <1>16. ASSUME NEW c \in Conns, ConnDown(c)
         PROVE  LockInv'
    <2>1. UNCHANGED <<connecting, attempt, idle, chan, held, draining>>
      BY <1>16 DEF ConnDown, pool, lists
    <2>2. \A d \in Conns : SameAttempt(d)
      BY <1>t, <1>16 DEF ConnDown, SameAttempt
    <2> QED BY <1>0, <2>1, <2>2, LockQuiet DEF attempt, Referenced, SameAttempt
  <1>17. ASSUME Tick \/ ClearExpired
         PROVE  LockInv'
    <2>1. UNCHANGED <<connecting, attempt, conn, chan, held, draining>>
      BY <1>17 DEF Tick, ClearExpired
    <2>2. \A k \in Keys : idle'[k] \subseteq idle[k]
      BY <1>17 DEF Tick, ClearExpired, Retained
    <2> QED BY <1>0, <2>1, <2>2, LockQuiet DEF attempt, Referenced, SameAttempt
  <1>18. ASSUME UNCHANGED vars
         PROVE  LockInv'
    <2>1. UNCHANGED <<connecting, attempt, conn, idle, chan, held, draining>>
      BY <1>18 DEF vars, pool, lists
    <2> QED BY <1>0, <2>1, LockQuiet DEF attempt, Referenced, SameAttempt
  <1> QED
    BY <1>1, <1>2, <1>3, <1>4, <1>5, <1>6, <1>7, <1>8, <1>9, <1>10, <1>11, <1>12,
       <1>13, <1>14, <1>15, <1>16, <1>17, <1>18 DEF Next

\* The connecting lock of a key is held by exactly one attempt, which is still
\* running: no order of failures, cancellations, ALPN upgrades and drops leaks
\* it or lets two attempts hold it.
THEOREM ConnectingLock == Spec => []LockHeldByOne
  <1>1. Init => LockInv
    BY DEF Init, LockInv, AttemptInv, MadeInv, LockHeldByOne, Holders, Attempting
  <1>2. LockInv => LockHeldByOne
    BY DEF LockInv
  <1> QED BY <1>1, <1>2, TypeCorrect, LockStep, PTL DEF Spec

-----------------------------------------------------------------------------
(* The limits of the pool.                                                 *)

\* The cached keys are well ordered by their last use, so that there is always
\* one to evict.
LruOrder ==
    \A S \in SUBSET cached :
        S # {} => \E e \in S : \A j \in S : <<j, e>> \notin usedBefore

LimitInv ==
    /\ PoolBounded /\ LruOrder
    /\ \A k \in Keys : IsFiniteSet(idle[k])

\* Using k makes it the last; forgetting keys keeps the order of the others.
LEMMA UsedLast ==
    ASSUME LruOrder, NEW k, NEW T, NEW U, k \in T, k \notin U,
           usedBefore' = Without(usedBefore, T) \cup (U \X {k}),
           cached' \subseteq cached \cup {k}
    PROVE  LruOrder'
  <1> SUFFICES ASSUME NEW S \in SUBSET cached', S # {}
               PROVE  \E e \in S : \A j \in S : <<j, e>> \notin usedBefore'
    BY DEF LruOrder
  <1>1. \A i, j : <<i, j>> \in usedBefore' =>
           \/ <<i, j>> \in usedBefore /\ i # k /\ j # k
           \/ j = k /\ i # k
    BY DEF Without
  <1>2. CASE S = {k}
    BY <1>1, <1>2
  <1>3. CASE S # {k}
    <2>1. S \ {k} \in SUBSET cached /\ S \ {k} # {}
      BY <1>3
    <2>2. PICK e \in S \ {k} : \A j \in S \ {k} : <<j, e>> \notin usedBefore
      BY <2>1 DEF LruOrder
    <2>3. \A j \in S : <<j, e>> \notin usedBefore'
      BY <1>1, <2>2
    <2> QED BY <2>2, <2>3
  <1> QED BY <1>2, <1>3

LEMMA ForgottenKeys ==
    ASSUME LruOrder, cached' \subseteq cached, usedBefore' \subseteq usedBefore
    PROVE  LruOrder'
  BY DEF LruOrder

\* Evicting the least recently used key makes room for one more.
LEMMA EvictionMakesRoom ==
    ASSUME TypeOK, LimitInv, NEW k \in Keys
    PROVE  /\ Evicted(k) \subseteq cached /\ k \notin Evicted(k)
           /\ Cardinality((cached \ Evicted(k)) \cup {k}) <= MaxPoolSize
  <1> DEFINE ev == Evicted(k)
  <1>0. /\ IsFiniteSet(cached) /\ Cardinality(cached) \in Nat
        /\ Cardinality(cached) <= MaxPoolSize
        /\ MaxPoolSize \in Nat \ {0}
    BY KeysAssumption, ConfigAssumption, FS_Subset, FS_CardinalityType
       DEF TypeOK, LimitInv, PoolBounded
  <1>1. ev \subseteq cached /\ k \notin ev
    BY DEF Evicted
  <1>2. CASE k \in cached
    <2>1. (cached \ ev) \cup {k} = cached
      BY <1>2 DEF Evicted
    <2> QED BY <1>0, <1>1, <2>1
  <1>3. CASE k \notin cached /\ Cardinality(cached) < MaxPoolSize
    <2>1. (cached \ ev) \cup {k} = cached \cup {k}
      BY <1>3 DEF Evicted
    <2>2. Cardinality(cached \cup {k}) = Cardinality(cached) + 1
      BY <1>0, <1>3, FS_AddElement
    <2> QED BY <1>0, <1>1, <1>3, <2>1, <2>2
  <1>4. CASE k \notin cached /\ ~(Cardinality(cached) < MaxPoolSize)
    <2>1. ev = {e \in cached : \A j \in cached : <<j, e>> \notin usedBefore}
      BY <1>4 DEF Evicted
    <2>2. cached # {}
      BY <1>0, <1>4, FS_EmptySet
    <2>3. PICK e \in cached : e \in ev
      BY <2>1, <2>2 DEF LimitInv, LruOrder
    <2>4. IsFiniteSet(cached \ {e}) /\ Cardinality(cached \ {e}) = Cardinality(cached) - 1
      BY <1>0, FS_RemoveElement
    <2>5. cached \ ev \subseteq cached \ {e}
      BY <2>3
    <2> HIDE DEF ev
    <2>6. /\ IsFiniteSet(cached \ ev)
          /\ Cardinality(cached \ ev) <= Cardinality(cached \ {e})
      BY <2>4, <2>5, FS_Subset
    <2>7. Cardinality(cached \ ev) \in Nat /\ k \notin cached \ ev
      BY <1>4, <2>6, FS_CardinalityType
    <2>8. Cardinality((cached \ ev) \cup {k}) = Cardinality(cached \ ev) + 1
      BY <2>6, <2>7, FS_AddElement
    <2>9. Cardinality((cached \ ev) \cup {k}) <= MaxPoolSize
      BY <1>0, <2>4, <2>6, <2>7, <2>8
    <2> QED BY <1>1, <2>9 DEF ev
  <1> QED BY <1>2, <1>3, <1>4

LEMMA AddIdleLimit ==
    ASSUME TypeOK, LimitInv, NEW k \in Keys, NEW c \in Conns, AddIdle(k, c)
    PROVE  LimitInv'
  <1> DEFINE ev   == Evicted(k)
             full == Cardinality(idle[k]) >= MaxIdlePerHost
  <1>1. ev \subseteq cached /\ k \notin ev /\ cached' = (cached \ ev) \cup {k}
        /\ cached \subseteq Keys
    BY EvictionMakesRoom DEF AddIdle, TypeOK
  <1>2. \A j \in Keys : idle'[j] = IF j \in ev THEN {}
                                   ELSE IF j = k /\ ~full THEN idle[j] \cup {c}
                                   ELSE idle[j]
    BY DEF AddIdle
  <1>3. usedBefore' = Without(usedBefore, ev \cup {k}) \cup ((cached \ (ev \cup {k})) \X {k})
    BY DEF AddIdle
  <1>4. Cardinality(cached') <= MaxPoolSize
    BY <1>1, EvictionMakesRoom
  <1> HIDE DEF ev
  <1>5. ASSUME NEW j \in Keys
        PROVE  IsFiniteSet(idle'[j]) /\ Cardinality(idle'[j]) <= MaxIdlePerHost
    <2>0. /\ IsFiniteSet(idle[j]) /\ Cardinality(idle[j]) \in Nat
          /\ Cardinality(idle[j]) <= MaxIdlePerHost
          /\ MaxIdlePerHost \in Nat \ {0}
      BY FS_CardinalityType, ConfigAssumption DEF LimitInv, PoolBounded
    <2>1. CASE j \in ev
      <3>1. idle'[j] = {}
        BY <1>2, <2>1
      <3> QED BY <2>0, <3>1, FS_EmptySet
    <2>2. CASE j \notin ev /\ j = k /\ ~full
      <3>1. idle'[j] = idle[j] \cup {c}
        BY <1>2, <2>2
      <3>2. Cardinality(idle[j]) < MaxIdlePerHost
        BY <2>0, <2>2
      <3>3. /\ IsFiniteSet(idle[j] \cup {c})
            /\ Cardinality(idle[j] \cup {c}) \in
                 {Cardinality(idle[j]), Cardinality(idle[j]) + 1}
        BY <2>0, FS_AddElement
      <3> QED BY <2>0, <3>1, <3>2, <3>3
    <2>3. CASE j \notin ev /\ ~(j = k /\ ~full)
      BY <1>2, <2>0, <2>3
    <2> QED BY <2>1, <2>2, <2>3
  <1>6. ASSUME NEW j \in Keys
        PROVE  j \in cached' <=> idle'[j] # {}
    <2>0. j \in cached <=> idle[j] # {}
      BY DEF LimitInv, PoolBounded
    <2>1. CASE j = k
      <3>1. CASE full
        <4>1. idle[k] # {}
          <5>1. Cardinality(idle[k]) # 0
            BY <3>1, ConfigAssumption, FS_CardinalityType DEF LimitInv
          <5> QED BY <5>1, FS_EmptySet
        <4> QED BY <1>1, <1>2, <2>1, <3>1, <4>1
      <3>2. CASE ~full
        BY <1>1, <1>2, <2>1, <3>2
      <3> QED BY <3>1, <3>2
    <2>2. CASE j # k
      BY <1>1, <1>2, <2>0, <2>2
    <2> QED BY <2>1, <2>2
  <1>7. LruOrder'
    <2> DEFINE T == ev \cup {k}
               U == cached \ T
    <2>1. /\ LruOrder /\ k \in T /\ k \notin U /\ cached' \subseteq cached \cup {k}
          /\ usedBefore' = Without(usedBefore, T) \cup (U \X {k})
      BY <1>1, <1>3 DEF LimitInv
    <2> HIDE DEF T, U
    <2> QED BY <2>1, UsedLast
  <1> QED BY <1>4, <1>5, <1>6, <1>7 DEF LimitInv, PoolBounded

\* Lists that lose entries, and keys that leave the cache with their last one.
LEMMA ShrinkLimit ==
    ASSUME TypeOK, LimitInv, cached' \subseteq cached,
           \A k \in Keys : idle'[k] \subseteq idle[k],
           \A k \in Keys : k \in cached' <=> idle'[k] # {}, LruOrder'
    PROVE  LimitInv'
  <1>0. IsFiniteSet(cached) /\ cached \subseteq Keys
    BY KeysAssumption, FS_Subset DEF TypeOK
  <1>1. Cardinality(cached') <= MaxPoolSize
    <2>1. /\ IsFiniteSet(cached') /\ Cardinality(cached') <= Cardinality(cached)
          /\ Cardinality(cached') \in Nat /\ Cardinality(cached) \in Nat
      BY <1>0, FS_Subset, FS_CardinalityType
    <2> QED BY <2>1, ConfigAssumption DEF LimitInv, PoolBounded
  <1>2. ASSUME NEW k \in Keys
        PROVE  IsFiniteSet(idle'[k]) /\ Cardinality(idle'[k]) <= MaxIdlePerHost
    <2>0. IsFiniteSet(idle[k]) /\ Cardinality(idle[k]) <= MaxIdlePerHost
      BY DEF LimitInv, PoolBounded
    <2>1. /\ IsFiniteSet(idle'[k]) /\ Cardinality(idle'[k]) <= Cardinality(idle[k])
          /\ Cardinality(idle'[k]) \in Nat /\ Cardinality(idle[k]) \in Nat
      BY <2>0, FS_Subset, FS_CardinalityType
    <2> QED BY <2>0, <2>1, ConfigAssumption
  <1> QED BY <1>1, <1>2 DEF LimitInv, PoolBounded

LEMMA PutUniqueLimit ==
    ASSUME TypeOK, LimitInv, NEW k \in Keys, NEW c \in Conns, PutUnique(k, c)
    PROVE  LimitInv'
  <1>1. CASE UNCHANGED lists
    BY <1>1 DEF lists, LimitInv, PoolBounded, LruOrder
  <1> QED BY <1>1, AddIdleLimit DEF PutUnique

LEMMA ReleaseLimit ==
    ASSUME LimitInv, NEW c \in Conns, NEW gone, Release(c, gone)
    PROVE  LimitInv'
  BY DEF Release, Connected, pool, lists, LimitInv, PoolBounded, LruOrder

LEMMA LimitStep == TypeOK /\ LimitInv /\ [Next]_vars => LimitInv'
  <1> SUFFICES ASSUME TypeOK, LimitInv, [Next]_vars
               PROVE  LimitInv'
    OBVIOUS
  <1>t. /\ idle \in [Keys -> SUBSET Conns] /\ key \in [Requests -> Keys]
        /\ of \in [Conns -> Keys] /\ cached \subseteq Keys
        /\ \A r \in Requests : held[r] \in Conns <=> pc[r] \in Holding
        /\ LruOrder /\ \A k \in Keys : k \in cached <=> idle[k] # {}
    BY DEF TypeOK, LimitInv, PoolBounded
  <1>a. ASSUME UNCHANGED <<cached, usedBefore, idle>>
        PROVE  LimitInv'
    BY <1>a DEF LimitInv, PoolBounded, LruOrder
  <1>1. ASSUME NEW r \in Requests, CheckoutIdle(r)
        PROVE  LimitInv'
    <2>0. key[r] \in Keys
      BY <1>t
    <2>1. PICK c \in idle[key[r]] :
            LET gone == Popped(c, {d \in idle[key[r]] : <<c, d>> \in pushed})
            IN  /\ idle' = [idle EXCEPT ![key[r]] = @ \ gone]
                /\ IF idle[key[r]] = gone
                   THEN /\ cached' = cached \ {key[r]}
                        /\ usedBefore' = Without(usedBefore, {key[r]})
                   ELSE /\ UNCHANGED cached
                        /\ usedBefore' = Without(usedBefore, {key[r]})
                                            \cup ((cached \ {key[r]}) \X {key[r]})
      BY <1>1 DEF CheckoutIdle
    <2> DEFINE gone == Popped(c, {d \in idle[key[r]] : <<c, d>> \in pushed})
    <2>2. gone \subseteq idle[key[r]]
      BY DEF Popped
    <2>3. /\ idle' = [idle EXCEPT ![key[r]] = @ \ gone]
          /\ \/ /\ idle[key[r]] = gone /\ cached' = cached \ {key[r]}
                /\ usedBefore' = Without(usedBefore, {key[r]})
             \/ /\ idle[key[r]] # gone /\ UNCHANGED cached
                /\ usedBefore' = Without(usedBefore, {key[r]})
                                    \cup ((cached \ {key[r]}) \X {key[r]})
      BY <2>1
    <2> HIDE DEF gone
    <2>4. LruOrder'
      <3>1. CASE usedBefore' = Without(usedBefore, {key[r]}) /\ cached' \subseteq cached
        <4>1. usedBefore' \subseteq usedBefore
          BY <3>1 DEF Without
        <4> QED BY <1>t, <3>1, <4>1, ForgottenKeys
      <3>2. CASE /\ UNCHANGED cached
                 /\ usedBefore' = Without(usedBefore, {key[r]})
                                     \cup ((cached \ {key[r]}) \X {key[r]})
        <4> DEFINE T == {key[r]}
                   U == cached \ {key[r]}
        <4>1. /\ key[r] \in T /\ key[r] \notin U /\ cached' \subseteq cached \cup {key[r]}
              /\ usedBefore' = Without(usedBefore, T) \cup (U \X {key[r]})
          BY <3>2
        <4> HIDE DEF T, U
        <4> QED BY <1>t, <4>1, UsedLast
      <3> QED BY <2>3, <3>1, <3>2
    <2>5. \A k \in Keys : idle'[k] = IF k = key[r] THEN idle[k] \ gone ELSE idle[k]
      BY <1>t, <2>0, <2>3
    <2>6. \A k \in Keys : k \in cached' <=> idle'[k] # {}
      BY <1>t, <2>0, <2>1, <2>2, <2>3, <2>5
    <2> QED BY <2>3, <2>4, <2>5, <2>6, ShrinkLimit
  <1>2. ASSUME NEW r \in Requests, CheckoutPark(r)
        PROVE  LimitInv'
    <2>1. /\ cached' = cached \ {key[r]} /\ usedBefore' = Without(usedBefore, {key[r]})
          /\ \A k \in Keys : idle'[k] = IF k = key[r] THEN {} ELSE idle[k]
      BY <1>2, <1>t DEF CheckoutPark
    <2>2. usedBefore' \subseteq usedBefore
      BY <2>1 DEF Without
    <2>3. LruOrder'
      BY <1>t, <2>1, <2>2, ForgottenKeys
    <2> QED BY <1>t, <2>1, <2>3, ShrinkLimit
  <1>3. ASSUME NEW r \in Requests, DropConnect(r)
        PROVE  LimitInv'
    BY <1>3, ReleaseLimit DEF DropConnect
  <1>4. ASSUME NEW r \in Requests, Respond(r)
        PROVE  LimitInv'
    <2>1. held[r] \in Conns /\ of[held[r]] \in Keys
      BY <1>4, <1>t DEF Respond
    <2> QED BY <1>4, <1>a, <2>1, PutUniqueLimit DEF Respond, pool, lists
  <1>5. ASSUME NEW c \in Conns, AttemptFailed(c)
        PROVE  LimitInv'
    BY <1>5, ReleaseLimit DEF AttemptFailed
  <1>6. ASSUME NEW c \in Conns, Handshaken(c)
        PROVE  LimitInv'
    <2>0. of[c] \in Keys
      BY <1>t
    <2>1. CASE PooledShared(of[c], c, Racing(c))
      BY <1>a, <2>0, <2>1, AddIdleLimit DEF PooledShared, lists
    <2> QED BY <1>6, <2>0, <2>1, PutUniqueLimit, ReleaseLimit DEF Handshaken
  <1>7. ASSUME NEW c \in Conns, Drained(c)
        PROVE  LimitInv'
    <2>0. of[c] \in Keys
      BY <1>t
    <2> QED BY <1>7, <1>a, <2>0, PutUniqueLimit DEF Drained, pool, lists
  <1>8. ASSUME ClearExpired
        PROVE  LimitInv'
    <2>1. /\ \A k \in Keys : idle'[k] = Retained(k)
          /\ cached' = cached \ {k \in cached : idle'[k] = {}}
          /\ usedBefore' \subseteq usedBefore
      BY <1>8, <1>t DEF ClearExpired, Without
    <2>2. \A k \in Keys : idle'[k] \subseteq idle[k]
      BY <2>1 DEF Retained
    <2>3. LruOrder'
      BY <1>t, <2>1, ForgottenKeys
    <2> QED BY <1>t, <2>1, <2>2, <2>3, ShrinkLimit
  <1>9. ASSUME NEW r \in Requests,
               \/ \E k \in Keys : Start(r, k)
               \/ StartConnect(r) \/ WaiterServed(r) \/ WaiterGotClosed(r)
               \/ WaiterCanceled(r) \/ CleanWaiters(r) \/ CancelRequest(r) \/ SendFailed(r)
        PROVE  LimitInv'
    BY <1>9, <1>a DEF Start, StartConnect, WaiterServed, WaiterGotClosed, WaiterCanceled,
                      CleanWaiters, CancelRequest, SendFailed, pool, lists
  <1>10. ASSUME NEW c \in Conns, ConnDown(c) \/ \E alpn \in AlpnH2 : Dialed(c, alpn)
         PROVE  LimitInv'
    BY <1>10, <1>a DEF ConnDown, Dialed, pool, lists
  <1>11. ASSUME Tick \/ UNCHANGED vars
         PROVE  LimitInv'
    BY <1>11, <1>a DEF Tick, vars, pool, lists
  <1> QED
    BY <1>1, <1>2, <1>3, <1>4, <1>5, <1>6, <1>7, <1>8, <1>9, <1>10, <1>11 DEF Next

\* Every key in the LRU cache has an idle connection, no key more than
\* max_idle_per_host of them, and the cache no more than max_pool_size keys,
\* whatever is put, popped, expired and evicted in whatever order.
THEOREM PoolKeepsToItsLimits == Spec => []PoolBounded
  <1>1. Init => LimitInv
    <2> SUFFICES ASSUME Init
                 PROVE  LimitInv
      OBVIOUS
    <2>1. cached = {} /\ \A k \in Keys : idle[k] = {}
      BY DEF Init
    <2>2. Cardinality({}) = 0 /\ IsFiniteSet({}) /\ 0 <= MaxIdlePerHost /\ 0 <= MaxPoolSize
      BY FS_EmptySet, ConfigAssumption
    <2>3. LruOrder
      BY <2>1 DEF LruOrder
    <2> QED BY <2>1, <2>2, <2>3 DEF LimitInv, PoolBounded
  <1>2. LimitInv => PoolBounded
    BY DEF LimitInv
  <1> QED BY <1>1, <1>2, TypeCorrect, LimitStep, PTL DEF Spec

-----------------------------------------------------------------------------
(* Parked checkouts and the keys of connections, request by request.       *)

OwnerPCs == {"race", "waitConnect", "dropToIdle", "dropConnect"}

\* What a request is given was made for its own key.
KeyIsolation ==
    /\ \A k \in Keys : \A c \in idle[k] : of[c] = k
    /\ \A r \in Requests : \A c \in Conns :
        held[r] = c \/ chan[r] = c => of[c] = key[r]

\* The parts of QueueInv, NoStrandedCheckout and KeyIsolation about a request.
RequestInv(r) ==
    /\ \A k \in Keys : r \in waiters[k] =>
          key[r] = k /\ chan[r] = Empty /\ pc[r] \in Parked \cup Dropping
    /\ pc[r] \in Parked /\ chan[r] = Empty => r \in waiters[key[r]]
    /\ pc[r] \notin Parked => chan[r] = Empty
    /\ pc[r] = "waitCheckout" /\ chan[r] = Empty => key[r] \in connecting
    /\ \A c \in Conns : held[r] = c \/ chan[r] = c => of[c] = key[r]

QueueOrder ==
    \A k \in Keys : \A v, w \in waiters[k] :
        v # w => <<v, w>> \in parked \/ <<w, v>> \in parked

IdleOfKey == \A k \in Keys : \A c \in idle[k] : of[c] = k

\* A request awaits, or drops, one connect of its own.
OneAttemptEach ==
    \A c, d \in Conns : owner[c] # Background /\ owner[c] = owner[d] => c = d

CheckoutInv ==
    /\ \A r \in Requests : RequestInv(r)
    /\ QueueOrder /\ IdleOfKey /\ OwnerInv /\ OneAttemptEach

LEMMA CheckoutParts ==
    TypeOK => (CheckoutInv <=> /\ QueueInv /\ NoStrandedCheckout /\ KeyIsolation
                               /\ OwnerInv /\ OneAttemptEach)
  <1> SUFFICES ASSUME TypeOK
               PROVE  CheckoutInv <=> /\ QueueInv /\ NoStrandedCheckout /\ KeyIsolation
                                      /\ OwnerInv /\ OneAttemptEach
    OBVIOUS
  <1>0. /\ waiters \in [Keys -> SUBSET Requests] /\ key \in [Requests -> Keys]
    BY DEF TypeOK
  <1>1. CheckoutInv => QueueInv
    BY <1>0 DEF CheckoutInv, RequestInv, QueueOrder, QueueInv
  <1>2. CheckoutInv => NoStrandedCheckout
    BY <1>0 DEF CheckoutInv, RequestInv, NoStrandedCheckout, Parked
  <1>3. CheckoutInv => KeyIsolation
    BY <1>0 DEF CheckoutInv, RequestInv, IdleOfKey, KeyIsolation
  <1>4. ASSUME QueueInv, NoStrandedCheckout, KeyIsolation, NEW r \in Requests
        PROVE  RequestInv(r)
    BY <1>0, <1>4 DEF RequestInv, QueueInv, NoStrandedCheckout, KeyIsolation, Parked
  <1>5. QueueInv /\ KeyIsolation => QueueOrder /\ IdleOfKey
    BY DEF QueueInv, KeyIsolation, QueueOrder, IdleOfKey
  <1> QED BY <1>1, <1>2, <1>3, <1>4, <1>5 DEF CheckoutInv

(* What a step does to the place of a request in the queues.               *)

Quiet(q) == chan'[q] = chan[q] /\ \A j \in Keys : q \in waiters'[j] <=> q \in waiters[j]

\* q leaves the queue of k, served v or, if its receiver is gone, not.
Answered(q, k, v) ==
    /\ q \in waiters[k]
    /\ \A j \in Keys : q \notin waiters'[j]
    /\ chan'[q] = IF Live(q) THEN v ELSE chan[q]

\* q drops its receiver.
Left(q) == chan'[q] = Empty /\ \A j \in Keys : q \in waiters'[j] => q \in waiters[j]

SameRequest(q) == pc'[q] = pc[q] /\ key'[q] = key[q] /\ held'[q] = held[q]

LEMMA QuietRequest ==
    ASSUME NEW q \in Requests, RequestInv(q), Quiet(q), SameRequest(q), key[q] \in Keys,
           pc[q] = "waitCheckout" /\ chan[q] = Empty /\ key[q] \in connecting
              => key[q] \in connecting',
           \A c \in Conns : held[q] = c \/ chan[q] = c => of'[c] = of[c]
    PROVE  RequestInv(q)'
  BY DEF RequestInv, Quiet, SameRequest

LEMMA AnsweredRequest ==
    ASSUME NEW q \in Requests, NEW k \in Keys, NEW v, RequestInv(q), Answered(q, k, v),
           SameRequest(q), key[q] \in Keys, v # Empty, v \in Conns => of[v] = k, of' = of
    PROVE  RequestInv(q)'
  <1>1. key[q] = k /\ chan[q] = Empty /\ pc[q] \in Parked \cup Dropping
    BY DEF RequestInv, Answered
  <1>2. CASE Live(q)
    <2>1. pc[q] \in Parked /\ chan'[q] = v
      BY <1>1, <1>2 DEF Live, Answered
    <2> QED BY <1>1, <2>1 DEF RequestInv, Answered, SameRequest
  <1>3. CASE ~Live(q)
    <2>1. pc[q] \notin Parked /\ pc[q] # "waitCheckout" /\ chan'[q] = Empty
      BY <1>1, <1>3 DEF Live, Parked, Answered
    <2> QED BY <1>1, <2>1 DEF RequestInv, Answered, SameRequest
  <1> QED BY <1>2, <1>3

\* Queues that lose waiters, and the pairs of the waiters they lose.
LEMMA OrderShrinks ==
    ASSUME TypeOK, QueueOrder, NEW k \in Keys, NEW T, T \subseteq waiters[k],
           waiters' = [waiters EXCEPT ![k] = T],
           parked' = Without(parked, waiters[k] \ T),
           \A q \in waiters[k] : \A j \in Keys : q \in waiters[j] => j = k
    PROVE  QueueOrder'
  <1>1. \A j \in Keys : waiters'[j] = IF j = k THEN T ELSE waiters[j]
    BY DEF TypeOK
  <1>2. \A j \in Keys : \A v \in waiters'[j] : v \in waiters[j] /\ v \notin waiters[k] \ T
    BY <1>1
  <1> SUFFICES ASSUME NEW j \in Keys, NEW v \in waiters'[j], NEW w \in waiters'[j], v # w
               PROVE  <<v, w>> \in parked' \/ <<w, v>> \in parked'
    BY DEF QueueOrder
  <1>3. <<v, w>> \in parked \/ <<w, v>> \in parked
    BY <1>2 DEF QueueOrder
  <1> QED BY <1>2, <1>3 DEF Without

\* A waiter is in the queue of its key only.
LEMMA OneQueue ==
    ASSUME CheckoutInv, TypeOK, NEW k \in Keys
    PROVE  \A q \in waiters[k] : q \in Requests /\ \A j \in Keys : q \in waiters[j] => j = k
  <1>1. waiters[k] \subseteq Requests
    BY DEF TypeOK
  <1>2. \A q \in Requests : \A j \in Keys : q \in waiters[j] => key[q] = j
    BY DEF CheckoutInv, RequestInv
  <1> QED BY <1>1, <1>2

LEMMA PutUniqueAnswers ==
    ASSUME TypeOK, CheckoutInv, NEW k \in Keys, NEW c \in Conns, PutUnique(k, c)
    PROVE  /\ \A q \in Requests : Quiet(q) \/ Answered(q, k, c)
           /\ QueueOrder'
  <1> DEFINE live == {w \in waiters[k] : Live(w)}
  <1>0. /\ waiters \in [Keys -> SUBSET Requests]
        /\ chan \in [Requests -> Conns \cup {Empty, Canceled}]
        /\ parked' = Without(parked, waiters[k] \ waiters'[k])
    BY DEF TypeOK, PutUnique
  <1>1. ASSUME NEW w \in live, \A v \in live : <<v, w>> \notin parked,
               chan' = [chan EXCEPT ![w] = c],
               waiters' = [waiters EXCEPT ![k] = {v \in @ : <<w, v>> \in parked}]
        PROVE  /\ \A q \in Requests : Quiet(q) \/ Answered(q, k, c)
               /\ QueueOrder'
    <2> DEFINE T == {v \in waiters[k] : <<w, v>> \in parked}
    <2>1. /\ \A j \in Keys : waiters'[j] = IF j = k THEN T ELSE waiters[j]
          /\ waiters' = [waiters EXCEPT ![k] = T]
      BY <1>0, <1>1
    <2>2. w \in Requests /\ w \in waiters[k] /\ Live(w) /\ w \notin T
      BY <1>0, <1>1
    <2>3. \A q \in Requests : chan'[q] = IF q = w THEN c ELSE chan[q]
      BY <1>0, <1>1, <2>2
    <2>4. QueueOrder'
      <3>1. T \subseteq waiters[k] /\ parked' = Without(parked, waiters[k] \ T)
        BY <1>0, <2>1
      <3> HIDE DEF T
      <3> QED BY <2>1, <3>1, OneQueue, OrderShrinks DEF CheckoutInv
    <2>5. ASSUME NEW q \in Requests
          PROVE  Quiet(q) \/ Answered(q, k, c)
      <3>1. CASE q \notin waiters[k]
        <4>1. Quiet(q)
          BY <2>1, <2>2, <2>3, <3>1 DEF Quiet
        <4> QED BY <4>1
      <3>2. CASE q \in T
        <4>1. Quiet(q)
          BY <2>1, <2>2, <2>3, <3>2 DEF Quiet
        <4> QED BY <4>1
      <3>3. CASE q \in waiters[k] /\ q \notin T
        <4>1. \A j \in Keys : q \notin waiters'[j]
          BY <2>1, <3>3, OneQueue
        <4>2. q = w \/ ~Live(q)
          <5> SUFFICES ASSUME q # w, Live(q)
                       PROVE  FALSE
            OBVIOUS
          <5>1. <<q, w>> \notin parked /\ <<w, q>> \notin parked
            BY <1>1, <3>3
          <5> QED BY <2>2, <3>3, <5>1 DEF CheckoutInv, QueueOrder
        <4>3. Answered(q, k, c)
          BY <2>2, <2>3, <3>3, <4>1, <4>2 DEF Answered
        <4> QED BY <4>3
      <3> QED BY <3>1, <3>2, <3>3
    <2> QED BY <2>4, <2>5
  <1>2. ASSUME live = {}, waiters' = [waiters EXCEPT ![k] = {}], UNCHANGED chan
        PROVE  /\ \A q \in Requests : Quiet(q) \/ Answered(q, k, c)
               /\ QueueOrder'
    <2>1. \A j \in Keys : waiters'[j] = IF j = k THEN {} ELSE waiters[j]
      BY <1>0, <1>2
    <2>2. QueueOrder'
      <3>1. parked' = Without(parked, waiters[k] \ {})
        BY <1>0, <2>1
      <3> QED BY <1>2, <3>1, OneQueue, OrderShrinks DEF CheckoutInv
    <2>3. ASSUME NEW q \in Requests
          PROVE  Quiet(q) \/ Answered(q, k, c)
      <3>1. CASE q \notin waiters[k]
        BY <1>2, <2>1, <3>1 DEF Quiet
      <3>2. CASE q \in waiters[k]
        BY <1>2, <2>1, <3>2, OneQueue DEF Answered
      <3> QED BY <3>1, <3>2
    <2> QED BY <2>2, <2>3
  <1> QED BY <1>1, <1>2 DEF PutUnique

\* connected, and pooled: the queue of k is emptied, all its waiters answered.
LEMMA SentAnswers ==
    ASSUME TypeOK, CheckoutInv, NEW k \in Keys, NEW v, NEW gone,
           chan' = Sent(k, v, gone), waiters' = [waiters EXCEPT ![k] = {}],
           parked' = Without(parked, waiters[k])
    PROVE  /\ \A q \in Requests : q \notin gone => Quiet(q) \/ Answered(q, k, v)
           /\ \A q \in Requests : q \notin gone /\ q \in waiters[k] => Answered(q, k, v)
           /\ \A q \in Requests : q \in gone => Left(q)
           /\ QueueOrder'
  <1>0. waiters \in [Keys -> SUBSET Requests]
    BY DEF TypeOK
  <1>1. \A j \in Keys : waiters'[j] = IF j = k THEN {} ELSE waiters[j]
    BY <1>0
  <1>2. \A q \in Requests : chan'[q] = IF q \in gone THEN Empty
                                      ELSE IF q \in waiters[k] /\ Live(q) THEN v
                                      ELSE chan[q]
    BY DEF Sent
  <1>3. QueueOrder'
    <2> DEFINE T == {}
    <2>1. /\ T \subseteq waiters[k] /\ waiters' = [waiters EXCEPT ![k] = T]
          /\ parked' = Without(parked, waiters[k] \ T)
      OBVIOUS
    <2>2. \A q \in waiters[k] : \A j \in Keys : q \in waiters[j] => j = k
      BY OneQueue
    <2> HIDE DEF T
    <2> QED BY <2>1, <2>2, OrderShrinks DEF CheckoutInv
  <1>4. \A q \in Requests : q \notin gone /\ q \in waiters[k] => Answered(q, k, v)
    BY <1>1, <1>2, OneQueue DEF Answered
  <1>5. \A q \in Requests : q \notin gone /\ q \notin waiters[k] => Quiet(q)
    BY <1>1, <1>2 DEF Quiet
  <1>6. \A q \in Requests : q \in gone => Left(q)
    BY <1>1, <1>2 DEF Left
  <1> QED BY <1>3, <1>4, <1>5, <1>6

LEMMA ReleaseAnswers ==
    ASSUME TypeOK, CheckoutInv, NEW c \in Conns, NEW gone, Release(c, gone)
    PROVE  /\ \A q \in Requests : q \notin gone => Quiet(q) \/ Answered(q, of[c], Canceled)
           /\ \A q \in Requests : q \notin gone /\ lock[c] /\ q \in waiters[of[c]]
                => Answered(q, of[c], Canceled)
           /\ \A q \in Requests : q \in gone => Left(q)
           /\ QueueOrder' /\ idle' = idle
           /\ connecting' = IF lock[c] THEN connecting \ {of[c]} ELSE connecting
  <1>1. CASE lock[c]
    <2>1. Connected(of[c], gone) /\ of[c] \in Keys
      BY <1>1 DEF Release, TypeOK
    <2>2. /\ chan' = Sent(of[c], Canceled, gone)
          /\ waiters' = [waiters EXCEPT ![of[c]] = {}]
          /\ parked' = Without(parked, waiters[of[c]])
          /\ idle' = idle /\ connecting' = connecting \ {of[c]}
      BY <2>1 DEF Connected, lists
    <2> QED BY <1>1, <2>1, <2>2, SentAnswers
  <1>2. CASE ~lock[c]
    <2>1. /\ chan' = [r \in Requests |-> IF r \in gone THEN Empty ELSE chan[r]]
          /\ UNCHANGED <<waiters, parked, idle, connecting>>
      BY <1>2 DEF Release, pool, lists
    <2>2. \A q \in Requests : q \notin gone => Quiet(q)
      BY <2>1 DEF Quiet
    <2>3. \A q \in Requests : q \in gone => Left(q)
      BY <2>1 DEF Left
    <2>4. QueueOrder'
      BY <2>1 DEF CheckoutInv, QueueOrder
    <2> QED BY <1>2, <2>1, <2>2, <2>3, <2>4
  <1> QED BY <1>1, <1>2

LEMMA OthersKept ==
    ASSUME TypeOK, CheckoutInv, NEW S,
           \A q \in Requests \ S : Quiet(q) /\ SameRequest(q), connecting \subseteq connecting',
           \A q \in Requests : \A c \in Conns : held[q] = c \/ chan[q] = c => of'[c] = of[c]
    PROVE  \A q \in Requests \ S : RequestInv(q)'
  <1> SUFFICES ASSUME NEW q \in Requests, q \notin S
               PROVE  RequestInv(q)'
    OBVIOUS
  <1>1. key[q] \in Keys /\ RequestInv(q)
    BY DEF TypeOK, CheckoutInv
  <1> QED BY <1>1, QuietRequest

LEMMA OwnerKept ==
    ASSUME OwnerInv, OneAttemptEach,
           \A c \in Conns : owner'[c] \in {owner[c], Background},
           \A c \in Conns : owner'[c] # Background =>
                of'[c] = of[c] /\ key'[owner[c]] = key[owner[c]] /\ pc'[owner[c]] \in OwnerPCs
    PROVE  OwnerInv' /\ OneAttemptEach'
  <1>1. OwnerInv'
    BY DEF OwnerInv, OwnerPCs
  <1>2. OneAttemptEach'
    BY DEF OneAttemptEach
  <1> QED BY <1>1, <1>2

LEMMA IdleKept ==
    ASSUME IdleOfKey,
           \A k \in Keys : \A c \in idle'[k] :
                (c \in idle[k] \/ of[c] = k) /\ of'[c] = of[c]
    PROVE  IdleOfKey'
  BY DEF IdleOfKey

\* Only k gets the connection that becomes idle.
LEMMA AddIdlePlace ==
    ASSUME NEW k \in Keys, NEW c, AddIdle(k, c)
    PROVE  \A j \in Keys : \A d \in idle'[j] : d \in idle[j] \/ (d = c /\ j = k)
  <1>1. \A j \in Keys : idle'[j] \in {{}, idle[j]} \/ (j = k /\ idle'[j] = idle[j] \cup {c})
    BY DEF AddIdle
  <1> QED BY <1>1

LEMMA PutUniquePlace ==
    ASSUME NEW k \in Keys, NEW c, PutUnique(k, c)
    PROVE  /\ \A j \in Keys : \A d \in idle'[j] : d \in idle[j] \/ (d = c /\ j = k)
           /\ connecting' = connecting
  <1>1. UNCHANGED lists \/ AddIdle(k, c)
    BY DEF PutUnique
  <1> QED BY <1>1, AddIdlePlace DEF lists, PutUnique

LEMMA CheckoutStep ==
    TypeOK /\ LockInv /\ CheckoutInv /\ [Next]_vars => CheckoutInv'
  <1> SUFFICES ASSUME TypeOK, LockInv, CheckoutInv, [Next]_vars
               PROVE  CheckoutInv'
    OBVIOUS
  <1>0. TypeOK'
    BY TypeStep
  <1>t. /\ conn \in [Conns -> ConnStates] /\ held \in [Requests -> Conns \cup {NoConn}]
        /\ chan \in [Requests -> Conns \cup {Empty, Canceled}]
        /\ pc \in [Requests -> PCs] /\ waiters \in [Keys -> SUBSET Requests]
        /\ \A r \in Requests : held[r] \in Conns <=> pc[r] \in Holding
        /\ idle \in [Keys -> SUBSET Conns] /\ key \in [Requests -> Keys]
        /\ of \in [Conns -> Keys] /\ owner \in [Conns -> Requests \cup {Background}]
        /\ lock \in [Conns -> BOOLEAN]
    BY DEF TypeOK
  <1>i. /\ \A r \in Requests : RequestInv(r)
        /\ QueueOrder /\ IdleOfKey /\ OwnerInv /\ OneAttemptEach
    BY DEF CheckoutInv
  <1>o. ASSUME NEW c \in Conns, owner[c] # Background
        PROVE  owner[c] \in Requests /\ pc[owner[c]] \in OwnerPCs /\ of[c] = key[owner[c]]
    <2>1. OwnerInv /\ owner[c] \in Requests \cup {Background}
      BY <1>t, <1>i
    <2>2. owner[c] \in Requests
      BY <1>o, <2>1
    <2> QED BY <1>o, <2>1, <2>2 DEF OwnerInv, OwnerPCs
  <1>a. UNCHANGED <<waiters, parked>> => QueueOrder'
    BY <1>i DEF QueueOrder
  <1>b. UNCHANGED <<idle, of>> => IdleOfKey'
    BY <1>i DEF IdleOfKey
  \* A step of r alone, that ends no attempt and keeps r's own one waited for.
  <1>c. ASSUME NEW r \in Requests, \A q \in Requests : q # r => SameRequest(q),
               UNCHANGED <<of, owner>>,
               (\E c \in Conns : owner[c] = r) => key'[r] = key[r] /\ pc'[r] \in OwnerPCs
        PROVE  OwnerInv' /\ OneAttemptEach'
    <2>1. \A c \in Conns : owner'[c] # Background =>
             of'[c] = of[c] /\ key'[owner[c]] = key[owner[c]] /\ pc'[owner[c]] \in OwnerPCs
      BY <1>c, <1>o DEF SameRequest
    <2> QED BY <1>c, <1>i, <2>1, OwnerKept
  <1>1. ASSUME NEW r \in Requests, NEW k \in Keys, Start(r, k)
        PROVE  CheckoutInv'
    <2>1. /\ pc[r] = "idle" /\ pc' = [pc EXCEPT ![r] = "checkout"]
          /\ key' = [key EXCEPT ![r] = k]
          /\ UNCHANGED <<waiters, parked, connecting, idle, chan, held, of, owner>>
      BY <1>1 DEF Start, pool, lists, attempt
    <2>2. pc'[r] = "checkout" /\ \A q \in Requests : q # r => SameRequest(q)
      BY <1>t, <2>1 DEF SameRequest
    <2>3. \A q \in Requests \ {r} : RequestInv(q)'
      BY <2>1, <2>2, OthersKept DEF Quiet
    <2>4. RequestInv(r)'
      <3>1. RequestInv(r) /\ held[r] \notin Conns
        BY <1>t, <1>i, <2>1
      <3>2. /\ \A j \in Keys : r \notin waiters[j]
            /\ chan[r] = Empty
        BY <2>1, <3>1 DEF RequestInv, Parked
      <3> QED BY <2>1, <2>2, <3>1, <3>2, ConnsAssumption DEF RequestInv, Parked
    <2>5. \A c \in Conns : owner[c] # r
      BY <1>o, <2>1, RequestsAssumption DEF OwnerPCs
    <2> QED BY <1>a, <1>b, <1>c, <2>1, <2>2, <2>3, <2>4, <2>5 DEF CheckoutInv
  <1>2. ASSUME NEW r \in Requests, CheckoutIdle(r)
        PROVE  CheckoutInv'
    <2>1. PICK c \in idle[key[r]] :
            /\ held' = [held EXCEPT ![r] = c]
            /\ \E gone : idle' = [idle EXCEPT ![key[r]] = @ \ gone]
      BY <1>2 DEF CheckoutIdle
    <2>2. /\ pc[r] = "checkout" /\ pc' = [pc EXCEPT ![r] = "sending"]
          /\ UNCHANGED <<waiters, parked, connecting, key, chan, of, owner>>
      BY <1>2 DEF CheckoutIdle, attempt
    <2>3. /\ pc'[r] = "sending" /\ held'[r] = c
          /\ \A q \in Requests : q # r => SameRequest(q)
      BY <1>t, <2>1, <2>2 DEF SameRequest
    <2>4. \A q \in Requests \ {r} : RequestInv(q)'
      BY <2>2, <2>3, OthersKept DEF Quiet
    <2>5. RequestInv(r)'
      <3>1. RequestInv(r) /\ c \in Conns /\ of[c] = key[r]
        BY <1>t, <1>i, <2>1 DEF IdleOfKey
      <3>2. /\ \A j \in Keys : r \notin waiters[j]
            /\ chan[r] = Empty
        BY <2>2, <3>1 DEF RequestInv, Parked
      <3> QED BY <2>2, <2>3, <3>1, <3>2, ConnsAssumption DEF RequestInv, Parked
    <2>6. \A d \in Conns : owner[d] # r
      BY <1>o, <2>2, RequestsAssumption DEF OwnerPCs
    <2>7. \A k \in Keys : idle'[k] \subseteq idle[k]
      <3>1. PICK gone : idle' = [idle EXCEPT ![key[r]] = @ \ gone]
        BY <2>1
      <3>2. \A k \in Keys : idle'[k] = IF k = key[r] THEN idle[k] \ gone ELSE idle[k]
        BY <1>t, <3>1
      <3> QED BY <3>2
    <2>8. IdleOfKey'
      BY <1>i, <2>2, <2>7 DEF IdleOfKey
    <2> QED BY <1>a, <1>c, <2>2, <2>3, <2>4, <2>5, <2>6, <2>8 DEF CheckoutInv
  <1>3. ASSUME NEW r \in Requests, CheckoutPark(r)
        PROVE  CheckoutInv'
    <2>1. /\ pc[r] = "checkout" /\ pc' = [pc EXCEPT ![r] = "connect"]
          /\ waiters' = [waiters EXCEPT ![key[r]] = @ \cup {r}]
          /\ parked' = parked \cup (waiters[key[r]] \X {r})
          /\ UNCHANGED <<connecting, key, chan, held, of, owner>>
          /\ idle' = [idle EXCEPT ![key[r]] = {}]
      BY <1>3 DEF CheckoutPark, attempt
    <2>2. /\ pc'[r] = "connect" /\ \A q \in Requests : q # r => SameRequest(q)
          /\ key[r] \in Keys
      BY <1>t, <2>1 DEF SameRequest
    <2>3. \A j \in Keys : waiters'[j] = IF j = key[r] THEN waiters[j] \cup {r} ELSE waiters[j]
      BY <1>t, <2>1, <2>2
    <2>4. \A q \in Requests \ {r} : RequestInv(q)'
      <3>1. \A q \in Requests \ {r} : Quiet(q)
        BY <2>1, <2>3 DEF Quiet
      <3> QED BY <2>1, <2>2, <3>1, OthersKept
    <2>5. /\ chan[r] = Empty /\ (\A j \in Keys : r \notin waiters[j])
          /\ held[r] \notin Conns
      BY <1>t, <1>i, <2>1 DEF RequestInv, Parked
    <2>6. RequestInv(r)'
      <3>1. \A j \in Keys : r \in waiters'[j] <=> j = key[r]
        BY <2>3, <2>5
      <3>2. \A c \in Conns : held'[r] # c /\ chan'[r] # c
        BY <2>1, <2>5, ConnsAssumption
      <3> QED BY <2>1, <2>2, <2>5, <3>1, <3>2 DEF RequestInv, Parked
    <2>7. \A d \in Conns : owner[d] # r
      BY <1>o, <2>1, RequestsAssumption DEF OwnerPCs
    <2>8. \A k \in Keys : idle'[k] \subseteq idle[k]
      BY <1>t, <2>1
    <2>9. IdleOfKey'
      BY <1>i, <2>1, <2>8 DEF IdleOfKey
    <2>10. QueueOrder'
      <3> SUFFICES ASSUME NEW j \in Keys, NEW v \in waiters'[j], NEW w \in waiters'[j], v # w
                   PROVE  <<v, w>> \in parked' \/ <<w, v>> \in parked'
        BY DEF QueueOrder
      <3>1. CASE v \in waiters[j] /\ w \in waiters[j]
        BY <1>i, <2>1, <3>1 DEF QueueOrder
      <3>2. CASE v = r
        BY <2>1, <2>3, <2>5, <3>2
      <3>3. CASE w = r
        BY <2>1, <2>3, <2>5, <3>3
      <3> QED BY <2>3, <3>1, <3>2, <3>3
    <2> QED BY <1>c, <2>1, <2>2, <2>4, <2>6, <2>7, <2>9, <2>10 DEF CheckoutInv
  <1>4. ASSUME NEW r \in Requests, StartConnect(r)
        PROVE  CheckoutInv'
    <2>0. /\ pc[r] = "connect" /\ UNCHANGED <<waiters, parked, key, chan, held, idle>>
      BY <1>4 DEF StartConnect, lists
    <2>1. RequestInv(r) /\ key[r] \in Keys /\ \A d \in Conns : owner[d] # r
      BY <1>t, <1>i, <1>o, <2>0, RequestsAssumption DEF OwnerPCs
    <2>2. CASE /\ key[r] \in connecting /\ pc' = [pc EXCEPT ![r] = "waitCheckout"]
               /\ UNCHANGED <<connecting, attempt>>
      <3>1. pc'[r] = "waitCheckout" /\ \A q \in Requests : q # r => SameRequest(q)
        BY <1>t, <2>0, <2>2 DEF SameRequest
      <3>2. \A q \in Requests \ {r} : RequestInv(q)'
        BY <2>0, <2>2, <3>1, OthersKept DEF Quiet, attempt
      <3>3. RequestInv(r)'
        BY <2>0, <2>1, <2>2, <3>1 DEF RequestInv, Parked, attempt
      <3> QED BY <1>a, <1>b, <1>c, <2>0, <2>1, <2>2, <3>1, <3>2, <3>3 DEF CheckoutInv, attempt
    <2>3. ASSUME NEW c \in Conns, Dialing(r, c), pc' = [pc EXCEPT ![r] = "race"]
          PROVE  CheckoutInv'
      <3>1. pc'[r] = "race" /\ \A q \in Requests : q # r => SameRequest(q)
        BY <1>t, <2>0, <2>3 DEF SameRequest
      <3>2. /\ ~Referenced(c) /\ conn[c] \notin Attempting /\ connecting \subseteq connecting'
            /\ of'[c] = key[r] /\ owner'[c] = r
            /\ \A d \in Conns \ {c} : of'[d] = of[d] /\ owner'[d] = owner[d]
        BY <1>t, <2>3, UnreferencedIs DEF Dialing
      <3>3. \A q \in Requests : \A d \in Conns : held[q] = d \/ chan[q] = d => of'[d] = of[d]
        BY <3>2 DEF Referenced
      <3>4. \A q \in Requests \ {r} : RequestInv(q)'
        BY <2>0, <3>1, <3>2, <3>3, OthersKept DEF Quiet
      <3>5. RequestInv(r)'
        BY <2>0, <2>1, <3>1, <3>3 DEF RequestInv, Parked
      <3>6. IdleOfKey'
        <4>a. \A k \in Keys : c \notin idle[k] /\ idle[k] \subseteq Conns
          <5>1. \A k \in Keys : c \notin idle[k]
            BY <3>2 DEF Referenced
          <5> QED BY <1>t, <5>1
        <4>1. \A k \in Keys : \A d \in idle[k] : d \in Conns /\ d # c
          BY <4>a
        <4>2. \A k \in Keys : \A d \in idle[k] : of'[d] = of[d]
          BY <3>2, <4>1
        <4> QED BY <1>i, <2>0, <4>2 DEF IdleOfKey
      <3>7. OwnerInv'
        <4> SUFFICES ASSUME NEW d \in Conns, owner'[d] # Background
                     PROVE  of'[d] = key'[owner'[d]] /\ pc'[owner'[d]] \in OwnerPCs
          BY DEF OwnerInv, OwnerPCs
        <4>1. CASE d = c
          BY <2>0, <3>1, <3>2, <4>1 DEF OwnerPCs
        <4>2. CASE d # c
          <5>1. owner[d] \in Requests /\ pc[owner[d]] \in OwnerPCs /\ of[d] = key[owner[d]]
                /\ owner[d] # r
            BY <1>o, <2>1, <3>2, <4>2
          <5> QED BY <2>0, <3>1, <3>2, <4>2, <5>1 DEF SameRequest
        <4> QED BY <4>1, <4>2
      <3>8. OneAttemptEach'
        BY <1>i, <2>1, <3>2 DEF OneAttemptEach
      <3> QED BY <1>a, <2>0, <3>4, <3>5, <3>6, <3>7, <3>8 DEF CheckoutInv
    <2> QED BY <1>4, <2>2, <2>3 DEF StartConnect, Dialing
  <1>5. ASSUME NEW r \in Requests, WaiterServed(r)
        PROVE  CheckoutInv'
    <2>1. /\ pc[r] \in {"race", "waitCheckout"} /\ chan[r] \in Conns
          /\ held' = [held EXCEPT ![r] = chan[r]] /\ chan' = [chan EXCEPT ![r] = Empty]
          /\ owner' = [c \in Conns |-> IF owner[c] = r THEN Background ELSE owner[c]]
          /\ pc' = [pc EXCEPT ![r] = "sending"]
          /\ UNCHANGED <<waiters, parked, connecting, idle, key, of>>
      BY <1>5 DEF WaiterServed, pool, lists
    <2>2. /\ pc'[r] = "sending" /\ held'[r] = chan[r] /\ chan'[r] = Empty
          /\ \A q \in Requests : q # r => SameRequest(q) /\ chan'[q] = chan[q]
      BY <1>t, <2>1 DEF SameRequest
    <2>3. \A q \in Requests \ {r} : RequestInv(q)'
      BY <2>1, <2>2, OthersKept DEF Quiet
    <2>4. RequestInv(r)'
      <3>1. of[chan[r]] = key[r] /\ \A j \in Keys : r \notin waiters[j]
        BY <1>i, <2>1, ConnsAssumption DEF RequestInv
      <3> QED BY <2>1, <2>2, <3>1, ConnsAssumption DEF RequestInv, Parked
    <2>5. OwnerInv' /\ OneAttemptEach'
      <3>1. \A c \in Conns : owner'[c] # Background => owner[c] # r /\ owner[c] # Background
        BY <2>1
      <3>a. \A c \in Conns : owner'[c] \in {owner[c], Background}
        BY <2>1
      <3>b. OwnerInv /\ OneAttemptEach
        BY <1>i
      <3>2. \A c \in Conns : owner'[c] # Background =>
             of'[c] = of[c] /\ key'[owner[c]] = key[owner[c]] /\ pc'[owner[c]] \in OwnerPCs
        BY <1>o, <2>1, <2>2, <3>1 DEF SameRequest
      <3> QED BY <3>2, <3>a, <3>b, OwnerKept
    <2> QED BY <1>a, <1>b, <2>1, <2>3, <2>4, <2>5 DEF CheckoutInv
  <1>6. ASSUME NEW r \in Requests, WaiterGotClosed(r) \/ WaiterCanceled(r)
        PROVE  CheckoutInv'
    <2>1. /\ pc[r] \in {"race", "waitCheckout"} /\ chan[r] # Empty
          /\ chan' = [chan EXCEPT ![r] = Empty]
          /\ UNCHANGED <<waiters, parked, connecting, idle, key, held, of, owner>>
      BY <1>6, ConnsAssumption DEF WaiterGotClosed, WaiterCanceled, pool, lists, attempt
    <2>2. /\ chan'[r] = Empty
          /\ pc'[r] \in IF pc[r] = "race" THEN {"waitConnect", "dropConnect"}
                       ELSE {"checkout", "idle"}
          /\ \A q \in Requests : q # r => SameRequest(q) /\ chan'[q] = chan[q]
      BY <1>6, <1>t, <2>1 DEF WaiterGotClosed, WaiterCanceled, SameRequest
    <2>3. \A q \in Requests \ {r} : RequestInv(q)'
      BY <2>1, <2>2, OthersKept DEF Quiet
    <2>4. RequestInv(r)'
      <3>1. held[r] \notin Conns /\ \A j \in Keys : r \notin waiters[j]
        BY <1>i, <1>t, <2>1 DEF RequestInv
      <3> QED BY <2>1, <2>2, <3>1, ConnsAssumption DEF RequestInv, Parked
    <2>5. (\E c \in Conns : owner[c] = r) => key'[r] = key[r] /\ pc'[r] \in OwnerPCs
      BY <1>o, <2>1, <2>2, RequestsAssumption DEF OwnerPCs
    <2> QED BY <1>a, <1>b, <1>c, <2>1, <2>2, <2>3, <2>4, <2>5 DEF CheckoutInv
  <1>7. ASSUME NEW r \in Requests, CleanWaiters(r)
        PROVE  CheckoutInv'
    <2> DEFINE k == key[r]
               dead == {w \in waiters[k] : ~Live(w)}
               T == waiters[k] \ dead
    <2>1. /\ pc[r] \in Dropping /\ k \in Keys
          /\ waiters' = [waiters EXCEPT ![k] = T]
          /\ parked' = Without(parked, dead)
          /\ UNCHANGED <<connecting, idle, key, chan, held, of, owner>>
      BY <1>7, <1>t DEF CleanWaiters, lists, attempt
    <2>2. /\ \A j \in Keys : waiters'[j] = IF j = k THEN T ELSE waiters[j]
          /\ \A q \in Requests : q # r => SameRequest(q)
          /\ pc'[r] \in {"sending", "dropConnect", "idle"}
          /\ (\E c \in Conns : owner[c] = r) => pc[r] = "dropToSend" \/ pc'[r] = "dropConnect"
      <3>1. \A j \in Keys : waiters'[j] = IF j = k THEN T ELSE waiters[j]
        BY <1>t, <2>1
      <3> HIDE DEF T, dead
      <3>2. CASE pc[r] = "dropToSend" /\ pc' = [pc EXCEPT ![r] = "sending"]
        <4>1. pc'[r] = "sending" /\ \A q \in Requests : q # r => pc'[q] = pc[q]
          BY <1>t, <3>2
        <4> QED BY <2>1, <3>1, <3>2, <4>1 DEF SameRequest
      <3>3. CASE pc' = [pc EXCEPT ![r] = IF \E c \in Conns : owner[c] = r
                                         THEN "dropConnect" ELSE "idle"]
        BY <1>t, <2>1, <3>1, <3>3 DEF SameRequest
      <3> QED BY <1>7, <3>2, <3>3 DEF CleanWaiters
    <2>3. QueueOrder'
      <3>1. T \subseteq waiters[k] /\ waiters[k] \ T = dead
        OBVIOUS
      <3>2. \A q \in waiters[k] : \A j \in Keys : q \in waiters[j] => j = k
        BY <2>1, OneQueue
      <3> HIDE DEF T, dead, k
      <3> QED BY <1>i, <2>1, <3>1, <3>2, OrderShrinks
    <2>4. ASSUME NEW q \in Requests, q # r
          PROVE  RequestInv(q)'
      <3>1. SameRequest(q) /\ RequestInv(q)
        BY <1>i, <2>2, <2>4
      <3>2. pc[q] \in Parked => Live(q)
        BY DEF Parked, Live
      <3> QED BY <2>1, <2>2, <3>1, <3>2 DEF RequestInv, SameRequest
    <2>5. RequestInv(r)'
      <3>1. \A j \in Keys : r \notin waiters'[j]
        <4>1. ~Live(r) /\ r \notin T
          BY <2>1 DEF Live
        <4>2. \A j \in Keys : r \in waiters[j] => j = k
          BY <1>i DEF RequestInv
        <4> HIDE DEF T
        <4> QED BY <2>2, <4>1, <4>2
      <3>2. chan[r] = Empty
        BY <1>i, <2>1 DEF RequestInv, Parked
      <3>3. RequestInv(r)
        BY <1>i
      <3> QED BY <2>1, <2>2, <3>1, <3>2, <3>3 DEF RequestInv, Parked
    <2>6. (\E c \in Conns : owner[c] = r) => key'[r] = key[r] /\ pc'[r] \in OwnerPCs
      BY <1>o, <2>1, <2>2, RequestsAssumption DEF OwnerPCs
    <2> QED BY <1>b, <1>c, <2>1, <2>2, <2>3, <2>4, <2>5, <2>6 DEF CheckoutInv
  \* The attempt c, which r may own, ends; r moves on to step.
  <1>e. ASSUME NEW c \in Conns, Ended(c), UNCHANGED <<of, key>>,
               \A q \in Requests : q # owner[c] => pc'[q] = pc[q]
        PROVE  OwnerInv' /\ OneAttemptEach'
    <2>1. owner'[c] = Background /\ \A d \in Conns : d # c => owner'[d] = owner[d]
      BY <1>t, <1>e DEF Ended
    <2>2. \A d \in Conns : owner'[d] \in {owner[d], Background}
      BY <2>1
    <2>3. ASSUME NEW d \in Conns, owner'[d] # Background
          PROVE  /\ of'[d] = of[d] /\ key'[owner[d]] = key[owner[d]]
                 /\ pc'[owner[d]] \in OwnerPCs
      <3>1. d # c /\ owner[d] # Background
        BY <2>1, <2>3
      <3>2. owner[d] # owner[c]
        BY <1>i, <3>1 DEF OneAttemptEach
      <3>3. owner[d] \in Requests /\ pc[owner[d]] \in OwnerPCs
        BY <1>o, <3>1
      <3> QED BY <1>e, <3>2, <3>3
    <2>4. OwnerInv /\ OneAttemptEach
      BY <1>i
    <2> QED BY <2>2, <2>3, <2>4, OwnerKept
  \* Drop for Connecting answers the requests that wait for the attempt c.
  <1>r. ASSUME NEW c \in Conns, NEW gone, Release(c, gone), UNCHANGED of,
               NEW q \in Requests, q \notin gone, SameRequest(q)
        PROVE  RequestInv(q)'
    <2>0. RequestInv(q) /\ key[q] \in Keys /\ of[c] \in Keys
      BY <1>i, <1>t
    <2>1. CASE Answered(q, of[c], Canceled)
      <3>1. Canceled # Empty /\ Canceled \notin Conns
        BY ConnsAssumption
      <3> QED BY <1>r, <2>0, <2>1, <3>1, AnsweredRequest
    <2>2. CASE Quiet(q) /\ ~(lock[c] /\ q \in waiters[of[c]])
      <3>1. connecting' = IF lock[c] THEN connecting \ {of[c]} ELSE connecting
        BY <1>r, ReleaseAnswers
      <3>2. pc[q] = "waitCheckout" /\ chan[q] = Empty => key[q] # of[c] \/ ~lock[c]
        BY <2>0, <2>2 DEF RequestInv, Parked
      <3>3. pc[q] = "waitCheckout" /\ chan[q] = Empty /\ key[q] \in connecting
              => key[q] \in connecting'
        BY <3>1, <3>2
      <3> QED BY <1>r, <2>0, <2>2, <3>3, QuietRequest
    <2> QED BY <1>r, <2>1, <2>2, ReleaseAnswers
  <1>8. ASSUME NEW r \in Requests, DropConnect(r)
        PROVE  CheckoutInv'
    <2>1. PICK c \in Conns : owner[c] = r /\ Ended(c) /\ Release(c, {})
      BY <1>8 DEF DropConnect
    <2>2. /\ pc[r] = "dropConnect" /\ pc' = [pc EXCEPT ![r] = "idle"]
          /\ UNCHANGED <<key, held, of>>
      BY <1>8 DEF DropConnect
    <2>3. pc'[r] = "idle" /\ \A q \in Requests : q # r => SameRequest(q)
      BY <1>t, <2>2 DEF SameRequest
    <2>4. \A q \in Requests : q # r => RequestInv(q)'
      BY <1>r, <2>1, <2>2, <2>3
    <2>5. RequestInv(r)'
      <3>1. RequestInv(r) /\ held[r] \notin Conns
        BY <1>i, <1>t, <2>2
      <3>2. chan[r] = Empty /\ \A j \in Keys : r \notin waiters[j]
        BY <2>2, <3>1 DEF RequestInv, Parked
      <3>3. Quiet(r)
        <4>1. r \notin waiters[of[c]]
          BY <1>t, <3>2
        <4> QED BY <2>1, <4>1, ReleaseAnswers DEF Answered
      <3> QED BY <2>2, <2>3, <3>1, <3>2, <3>3, ConnsAssumption DEF RequestInv, Quiet, Parked
    <2>6. OwnerInv' /\ OneAttemptEach'
      BY <1>e, <2>1, <2>2, <2>3 DEF SameRequest
    <2>7. QueueOrder' /\ idle' = idle
      BY <2>1, ReleaseAnswers
    <2> QED BY <1>b, <2>2, <2>4, <2>5, <2>6, <2>7 DEF CheckoutInv
  <1>9. ASSUME NEW r \in Requests, CancelRequest(r)
        PROVE  CheckoutInv'
    <2>0. UNCHANGED <<waiters, parked, connecting, idle, key, of, owner>>
      BY <1>9 DEF CancelRequest, pool, lists, attempt
    <2>1. /\ \A q \in Requests : q # r => SameRequest(q) /\ chan'[q] = chan[q]
          /\ chan'[r] \in {chan[r], Empty} /\ held'[r] \in {held[r], NoConn}
          /\ \/ /\ pc[r] \in {"race", "waitCheckout"} /\ pc'[r] = "dropToIdle"
                /\ chan'[r] = Empty
             \/ pc[r] = "waitConnect" /\ pc'[r] = "dropConnect"
             \/ pc[r] = "sending" /\ pc'[r] = "idle"
      <3>1. CASE /\ pc[r] \in {"race", "waitCheckout"} /\ chan' = [chan EXCEPT ![r] = Empty]
                 /\ pc' = [pc EXCEPT ![r] = "dropToIdle"] /\ UNCHANGED held
        BY <1>t, <2>0, <3>1 DEF SameRequest
      <3>2. CASE /\ pc[r] = "waitConnect" /\ pc' = [pc EXCEPT ![r] = "dropConnect"]
                 /\ UNCHANGED <<chan, held>>
        BY <1>t, <2>0, <3>2 DEF SameRequest
      <3>3. CASE /\ pc[r] = "sending" /\ held' = [held EXCEPT ![r] = NoConn]
                 /\ pc' = [pc EXCEPT ![r] = "idle"] /\ UNCHANGED chan
        BY <1>t, <2>0, <3>3 DEF SameRequest
      <3> QED BY <1>9, <3>1, <3>2, <3>3 DEF CancelRequest, DropPooled
    <2>2. \A q \in Requests \ {r} : RequestInv(q)'
      BY <2>0, <2>1, OthersKept DEF Quiet
    <2>3. RequestInv(r)'
      <3>1. RequestInv(r) /\ NoConn \notin Conns /\ Empty \notin Conns
        BY <1>i, ConnsAssumption
      <3>2. \A c \in Conns : held'[r] = c \/ chan'[r] = c => of'[c] = key'[r]
        BY <2>0, <2>1, <3>1 DEF RequestInv
      <3> QED BY <2>0, <2>1, <3>1, <3>2 DEF RequestInv, Parked
    <2>4. (\E c \in Conns : owner[c] = r) => key'[r] = key[r] /\ pc'[r] \in OwnerPCs
      BY <1>o, <2>0, <2>1, RequestsAssumption DEF OwnerPCs
    <2> QED BY <1>a, <1>b, <1>c, <2>0, <2>1, <2>2, <2>3, <2>4 DEF CheckoutInv
  \* put: the connection c of key of[c] is given to a waiter or becomes idle.
  <1>p. ASSUME NEW c \in Conns, PutUnique(of[c], c), UNCHANGED of,
               NEW q \in Requests, SameRequest(q)
        PROVE  RequestInv(q)'
    <2>0. RequestInv(q) /\ key[q] \in Keys /\ of[c] \in Keys /\ c # Empty
      BY <1>i, <1>t, ConnsAssumption
    <2>1. CASE Answered(q, of[c], c)
      BY <1>p, <2>0, <2>1, AnsweredRequest
    <2>2. CASE Quiet(q)
      <3>1. connecting' = connecting
        BY <1>p DEF PutUnique
      <3> QED BY <1>p, <2>0, <2>2, <3>1, QuietRequest
    <2> QED BY <1>p, <2>0, <2>1, <2>2, PutUniqueAnswers
  <1>q. ASSUME NEW c \in Conns, PutUnique(of[c], c), UNCHANGED of
        PROVE  QueueOrder' /\ IdleOfKey'
    <2>0. of[c] \in Keys
      BY <1>t
    <2>1. \A j \in Keys : \A d \in idle'[j] : d \in idle[j] \/ of[d] = j
      BY <1>q, <2>0, PutUniquePlace
    <2> QED BY <1>i, <1>q, <2>0, <2>1, PutUniqueAnswers, IdleKept
  <1>10. ASSUME NEW r \in Requests, Respond(r)
         PROVE  CheckoutInv'
    <2>0. /\ pc[r] = "sending" /\ held[r] \in Conns /\ of[held[r]] \in Keys
          /\ UNCHANGED <<key, of, owner>>
          /\ held' = [held EXCEPT ![r] = NoConn] /\ pc' = [pc EXCEPT ![r] = "idle"]
      BY <1>10, <1>t DEF Respond, DropPooled, attempt
    <2>1. /\ pc'[r] = "idle" /\ held'[r] = NoConn
          /\ \A q \in Requests : q # r => SameRequest(q)
      BY <1>t, <2>0 DEF SameRequest
    <2>2. \A d \in Conns : owner[d] # r
      BY <1>o, <2>0, RequestsAssumption DEF OwnerPCs
    <2>3. chan[r] = Empty /\ \A j \in Keys : r \notin waiters[j]
      BY <1>i, <2>0 DEF RequestInv, Parked
    <2>4. Quiet(r) => RequestInv(r)'
      BY <2>0, <2>1, <2>3, ConnsAssumption DEF RequestInv, Quiet, Parked
    <2>5. CASE UNCHANGED <<pool, chan>>
      <3>1. UNCHANGED <<waiters, parked, connecting, idle, chan>>
        BY <2>5 DEF pool, lists
      <3>2. \A q \in Requests \ {r} : RequestInv(q)'
        BY <2>0, <2>1, <3>1, OthersKept DEF Quiet
      <3>3. RequestInv(r)'
        BY <2>4, <3>1 DEF Quiet
      <3> QED BY <1>a, <1>b, <1>c, <2>0, <2>1, <2>2, <3>1, <3>2, <3>3 DEF CheckoutInv
    <2>6. CASE PutUnique(of[held[r]], held[r])
      <3>1. \A q \in Requests : q # r => RequestInv(q)'
        BY <1>p, <2>0, <2>1, <2>6
      <3>2. RequestInv(r)'
        BY <2>0, <2>3, <2>4, <2>6, PutUniqueAnswers DEF Answered
      <3>3. QueueOrder' /\ IdleOfKey'
        BY <1>q, <2>0, <2>6
      <3> QED BY <1>c, <2>0, <2>1, <2>2, <3>1, <3>2, <3>3 DEF CheckoutInv
    <2> QED BY <1>10, <2>5, <2>6 DEF Respond
  <1>11. ASSUME NEW r \in Requests, SendFailed(r)
         PROVE  CheckoutInv'
    <2>0. /\ pc[r] = "sending" /\ held' = [held EXCEPT ![r] = NoConn]
          /\ \E step \in {"checkout", "idle"} : pc' = [pc EXCEPT ![r] = step]
          /\ UNCHANGED <<waiters, parked, connecting, idle, chan, key, of, owner>>
      BY <1>11 DEF SendFailed, DropPooled, pool, lists, attempt
    <2>1. /\ pc'[r] \in {"checkout", "idle"} /\ held'[r] = NoConn
          /\ \A q \in Requests : q # r => SameRequest(q)
      BY <1>t, <2>0 DEF SameRequest
    <2>2. \A d \in Conns : owner[d] # r
      BY <1>o, <2>0, RequestsAssumption DEF OwnerPCs
    <2>3. \A q \in Requests \ {r} : RequestInv(q)'
      BY <2>0, <2>1, OthersKept DEF Quiet
    <2>4. RequestInv(r)'
      <3>1. chan[r] = Empty /\ \A j \in Keys : r \notin waiters[j]
        BY <1>i, <2>0 DEF RequestInv, Parked
      <3> QED BY <2>0, <2>1, <3>1, ConnsAssumption DEF RequestInv, Parked
    <2> QED BY <1>a, <1>b, <1>c, <2>0, <2>1, <2>2, <2>3, <2>4 DEF CheckoutInv
  <1>12. ASSUME NEW c \in Conns, NEW alpn \in AlpnH2, Dialed(c, alpn)
         PROVE  CheckoutInv'
    <2>0. UNCHANGED <<waiters, parked, idle, chan, key, held, of>>
      BY <1>12 DEF Dialed, lists
    <2>1. CASE UNCHANGED <<pc, owner>> /\ connecting \subseteq connecting'
      <3>1. \A q \in Requests \ {} : RequestInv(q)'
        BY <2>0, <2>1, OthersKept DEF Quiet, SameRequest
      <3>2. OwnerInv' /\ OneAttemptEach'
        BY <1>i, <2>0, <2>1 DEF OwnerInv, OneAttemptEach
      <3> QED BY <1>a, <1>b, <2>0, <3>1, <3>2 DEF CheckoutInv
    <2>2. CASE /\ of[c] \in connecting /\ Ended(c) /\ UNCHANGED connecting
               /\ pc' = [r \in Requests |->
                           IF owner[c] # r THEN pc[r]
                           ELSE IF pc[r] = "race" THEN "waitCheckout" ELSE "idle"]
      <3>1. \A q \in Requests : q # owner[c] => SameRequest(q)
        BY <2>0, <2>2 DEF SameRequest
      <3>2. \A q \in Requests \ {owner[c]} : RequestInv(q)'
        BY <2>0, <2>2, <3>1, OthersKept DEF Quiet
      <3>3. ASSUME NEW r \in Requests, owner[c] = r
            PROVE  RequestInv(r)'
        <4>1. RequestInv(r) /\ of[c] = key[r]
          BY <1>i, <1>o, <3>3, RequestsAssumption
        <4>2. pc[r] \in {"race", "waitConnect"}
          BY <1>12, <3>3, RequestsAssumption DEF Dialed, Polled
        <4>3. pc'[r] = IF pc[r] = "race" THEN "waitCheckout" ELSE "idle"
          BY <2>2, <3>3
        <4>4. CASE pc[r] = "race"
          BY <2>0, <2>2, <4>1, <4>3, <4>4 DEF RequestInv, Parked
        <4>5. CASE pc[r] = "waitConnect"
          BY <2>0, <2>2, <4>1, <4>3, <4>5 DEF RequestInv, Parked
        <4> QED BY <4>2, <4>4, <4>5
      <3>4. OwnerInv' /\ OneAttemptEach'
        BY <1>e, <2>0, <2>2, <3>1 DEF SameRequest
      <3> QED BY <1>a, <1>b, <2>0, <3>2, <3>3, <3>4 DEF CheckoutInv
    <2> QED BY <1>12, <2>1, <2>2 DEF Dialed
  <1>13. ASSUME NEW c \in Conns, AttemptFailed(c)
         PROVE  CheckoutInv'
    <2>0. /\ Ended(c) /\ Release(c, Racing(c)) /\ Polled(c) /\ UNCHANGED <<key, held, of>>
          /\ pc' = [r \in Requests |->
                      IF owner[c] # r THEN pc[r]
                      ELSE IF pc[r] = "race" THEN "dropToIdle" ELSE "idle"]
      BY <1>13 DEF AttemptFailed
    <2>1. \A q \in Requests : q # owner[c] => SameRequest(q) /\ q \notin Racing(c)
      BY <2>0 DEF SameRequest, Racing
    <2>2. \A q \in Requests : q # owner[c] => RequestInv(q)'
      BY <1>r, <2>0, <2>1
    <2>3. ASSUME NEW r \in Requests, owner[c] = r
          PROVE  RequestInv(r)'
      <3>1. RequestInv(r) /\ pc[r] \in {"race", "waitConnect"} /\ held[r] \notin Conns
        BY <1>i, <1>t, <2>0, <2>3, RequestsAssumption DEF Polled
      <3>2. pc'[r] = IF pc[r] = "race" THEN "dropToIdle" ELSE "idle"
        BY <2>0, <2>3
      <3>3. CASE pc[r] = "race"
        <4>1. Left(r)
          BY <2>0, <2>3, <3>3, ReleaseAnswers DEF Racing
        <4> QED BY <2>0, <3>1, <3>2, <3>3, <4>1, ConnsAssumption DEF RequestInv, Left, Parked
      <3>4. CASE pc[r] = "waitConnect"
        <4>1. chan[r] = Empty /\ \A j \in Keys : r \notin waiters[j]
          BY <3>1, <3>4 DEF RequestInv, Parked
        <4>2. r \notin Racing(c) /\ r \notin waiters[of[c]]
          BY <1>t, <3>4, <4>1 DEF Racing
        <4>3. Quiet(r)
          BY <2>0, <4>2, ReleaseAnswers DEF Answered
        <4> QED BY <2>0, <3>1, <3>2, <3>4, <4>1, <4>3, ConnsAssumption
                DEF RequestInv, Quiet, Parked
      <3> QED BY <3>1, <3>3, <3>4
    <2>4. OwnerInv' /\ OneAttemptEach'
      BY <1>e, <2>0, <2>1 DEF SameRequest
    <2>5. QueueOrder' /\ idle' = idle
      BY <2>0, ReleaseAnswers
    <2> QED BY <1>b, <2>0, <2>2, <2>3, <2>4, <2>5 DEF CheckoutInv
  \* pooled: a shared connection answers every waiter of its key.
  <1>s. ASSUME NEW c \in Conns, PooledShared(of[c], c, Racing(c)), UNCHANGED of
        PROVE  /\ \A q \in Requests : q \notin Racing(c) /\ SameRequest(q) => RequestInv(q)'
               /\ \A q \in Requests : q \in Racing(c) => Left(q)
               /\ \A q \in Requests : q \notin Racing(c) /\ q \notin waiters[of[c]] => Quiet(q)
               /\ QueueOrder' /\ IdleOfKey'
    <2>0. of[c] \in Keys
      BY <1>t
    <2>1. PICK v \in {Canceled, c} : chan' = Sent(of[c], v, Racing(c))
      BY <1>s DEF PooledShared
    <2>2. /\ waiters' = [waiters EXCEPT ![of[c]] = {}]
          /\ parked' = Without(parked, waiters[of[c]])
          /\ connecting' = connecting \ {of[c]}
      BY <1>s DEF PooledShared
    <2>3. /\ \A q \in Requests : q \notin Racing(c) => Quiet(q) \/ Answered(q, of[c], v)
          /\ \A q \in Requests : q \notin Racing(c) /\ q \in waiters[of[c]]
                => Answered(q, of[c], v)
          /\ \A q \in Requests : q \in Racing(c) => Left(q)
          /\ QueueOrder'
      BY <2>0, <2>1, <2>2, SentAnswers
    <2>4. ASSUME NEW q \in Requests, q \notin Racing(c), SameRequest(q)
          PROVE  RequestInv(q)'
      <3>0. RequestInv(q) /\ key[q] \in Keys
        BY <1>i, <1>t
      <3>1. CASE Answered(q, of[c], v)
        <4>1. v # Empty /\ (v \in Conns => of[v] = of[c])
          BY ConnsAssumption
        <4> QED BY <1>s, <2>0, <2>4, <3>0, <3>1, <4>1, AnsweredRequest
      <3>2. CASE Quiet(q) /\ q \notin waiters[of[c]]
        <4>1. pc[q] = "waitCheckout" /\ chan[q] = Empty => key[q] # of[c]
          BY <3>0, <3>2 DEF RequestInv, Parked
        <4>2. pc[q] = "waitCheckout" /\ chan[q] = Empty /\ key[q] \in connecting
                => key[q] \in connecting'
          BY <2>2, <4>1
        <4> QED BY <1>s, <2>4, <3>0, <3>2, <4>2, QuietRequest
      <3> QED BY <2>3, <2>4, <3>1, <3>2
    <2>5. IdleOfKey'
      <3>1. UNCHANGED lists \/ AddIdle(of[c], c)
        BY <1>s DEF PooledShared
      <3>2. \A j \in Keys : \A d \in idle'[j] : d \in idle[j] \/ of[d] = j
        BY <2>0, <3>1, AddIdlePlace DEF lists
      <3> QED BY <1>i, <1>s, <3>2, IdleKept
    <2> QED BY <2>3, <2>4, <2>5 DEF Answered
  <1>14. ASSUME NEW c \in Conns, Handshaken(c)
         PROVE  CheckoutInv'
    <2>0. Ended(c) /\ Polled(c) /\ UNCHANGED <<key, of>> /\ of[c] \in Keys
      BY <1>14, <1>t DEF Handshaken
    <2>1. \A q \in Requests : q # owner[c] => SameRequest(q) /\ q \notin Racing(c)
      <3>1. CASE owner[c] = Background
        BY <1>14, <2>0, <3>1 DEF Handshaken, SameRequest, Racing
      <3>2. CASE owner[c] # Background
        BY <1>14, <1>t, <2>0, <3>2 DEF Handshaken, SameRequest, Racing
      <3> QED BY <3>1, <3>2
    <2>2. /\ \A q \in Requests : q # owner[c] => RequestInv(q)'
          /\ \A q \in Requests : q = owner[c] /\ q \in Racing(c) => Left(q)
          /\ \A q \in Requests :
               q = owner[c] /\ q \notin Racing(c) /\ q \notin waiters[of[c]] => Quiet(q)
          /\ QueueOrder' /\ IdleOfKey'
      <3>1. CASE PooledShared(of[c], c, Racing(c))
        BY <1>s, <2>0, <2>1, <3>1
      <3>2. CASE PutUnique(of[c], c) /\ owner[c] = Background
        BY <1>p, <1>q, <2>0, <2>1, <3>2, RequestsAssumption
      <3>3. CASE Release(c, Racing(c))
        <4>1. \A q \in Requests : q # owner[c] => RequestInv(q)'
          BY <1>r, <2>0, <2>1, <3>3
        <4> QED BY <1>b, <2>0, <3>3, <4>1, ReleaseAnswers DEF Answered
      <3> QED BY <1>14, <3>1, <3>2, <3>3 DEF Handshaken
    <2>3. ASSUME NEW r \in Requests, owner[c] = r
          PROVE  RequestInv(r)'
      <3>1. /\ RequestInv(r) /\ pc[r] \in {"race", "waitConnect"} /\ key[r] = of[c]
        BY <1>i, <1>o, <2>0, <2>3, RequestsAssumption DEF Polled
      <3>2. /\ pc'[r] = IF pc[r] = "race" THEN "dropToSend" ELSE "sending"
            /\ held'[r] = c
        BY <1>14, <1>t, <2>3, RequestsAssumption DEF Handshaken
      <3>3. CASE pc[r] = "race"
        <4>1. Left(r)
          BY <2>2, <2>3, <3>3 DEF Racing
        <4> QED BY <2>0, <3>1, <3>2, <3>3, <4>1, ConnsAssumption DEF RequestInv, Left, Parked
      <3>4. CASE pc[r] = "waitConnect"
        <4>1. chan[r] = Empty /\ \A j \in Keys : r \notin waiters[j]
          BY <3>1, <3>4 DEF RequestInv, Parked
        <4>2. Quiet(r)
          BY <2>0, <2>2, <2>3, <3>4, <4>1 DEF Racing
        <4> QED BY <2>0, <3>1, <3>2, <3>4, <4>1, <4>2, ConnsAssumption
                DEF RequestInv, Quiet, Parked
      <3> QED BY <3>1, <3>3, <3>4
    <2>4. OwnerInv' /\ OneAttemptEach'
      BY <1>e, <2>0, <2>1 DEF SameRequest
    <2> QED BY <2>2, <2>3, <2>4 DEF CheckoutInv
  <1>15. ASSUME NEW c \in Conns, Drained(c)
         PROVE  CheckoutInv'
    <2>0. UNCHANGED <<pc, key, held, of, owner>>
      BY <1>15 DEF Drained, attempt
    <2>1. OwnerInv' /\ OneAttemptEach' /\ \A q \in Requests : SameRequest(q)
      BY <1>i, <2>0 DEF OwnerInv, OneAttemptEach, SameRequest
    <2>2. CASE PutUnique(of[c], c)
      <3>1. \A q \in Requests : RequestInv(q)'
        BY <1>p, <2>0, <2>1, <2>2
      <3>2. QueueOrder' /\ IdleOfKey'
        BY <1>q, <2>0, <2>2
      <3> QED BY <2>1, <3>1, <3>2 DEF CheckoutInv
    <2>3. CASE UNCHANGED <<pool, chan>>
      <3>1. \A q \in Requests \ {} : RequestInv(q)'
        BY <2>0, <2>1, <2>3, OthersKept DEF Quiet, pool
      <3> QED BY <1>a, <1>b, <2>0, <2>1, <2>3, <3>1 DEF CheckoutInv, pool, lists
    <2> QED BY <1>15, <2>2, <2>3 DEF Drained
  <1>16. ASSUME \/ \E c \in Conns : ConnDown(c)
                \/ Tick \/ ClearExpired \/ UNCHANGED vars
         PROVE  CheckoutInv'
    <2>1. UNCHANGED <<waiters, parked, connecting, pc, key, chan, held, of, owner>>
      BY <1>16 DEF ConnDown, Tick, ClearExpired, vars, pool, attempt
    <2>2. \A k \in Keys : idle'[k] \subseteq idle[k]
      BY <1>16 DEF ConnDown, Tick, ClearExpired, Retained, vars, pool, lists
    <2>3. \A q \in Requests \ {} : RequestInv(q)'
      BY <2>1, OthersKept DEF Quiet, SameRequest
    <2>4. OwnerInv' /\ OneAttemptEach'
      BY <1>i, <2>1 DEF OwnerInv, OneAttemptEach
    <2>5. IdleOfKey'
      BY <1>i, <2>1, <2>2 DEF IdleOfKey
    <2> QED BY <1>a, <2>1, <2>3, <2>4, <2>5 DEF CheckoutInv
  <1> QED
    BY <1>1, <1>2, <1>3, <1>4, <1>5, <1>6, <1>7, <1>8, <1>9, <1>10, <1>11, <1>12,
       <1>13, <1>14, <1>15, <1>16 DEF Next

LEMMA CheckoutInit == Init => LockInv /\ CheckoutInv
  <1> SUFFICES ASSUME Init
               PROVE  LockInv /\ CheckoutInv
    OBVIOUS
  <1>1. LockInv
    BY DEF Init, LockInv, AttemptInv, MadeInv, LockHeldByOne, Holders, Attempting
  <1>2. \A r \in Requests : RequestInv(r)
    BY ConnsAssumption DEF Init, RequestInv, Parked
  <1>3. QueueOrder /\ IdleOfKey /\ OwnerInv /\ OneAttemptEach
    BY DEF Init, QueueOrder, IdleOfKey, OwnerInv, OneAttemptEach
  <1> QED BY <1>1, <1>2, <1>3 DEF CheckoutInv

LEMMA CheckoutCorrect == Spec => [](TypeOK /\ LockInv /\ CheckoutInv)
  <1>1. Init => LockInv /\ CheckoutInv
    BY CheckoutInit
  <1>2. TypeOK /\ LockInv /\ CheckoutInv /\ [Next]_vars => LockInv' /\ CheckoutInv'
    BY LockStep, CheckoutStep
  <1> QED BY <1>1, <1>2, TypeCorrect, PTL DEF Spec

\* A request that gave its own connect up for another's is parked, and the
\* attempt it relies on holds the connecting lock and runs: whatever fails, is
\* canceled or upgraded meanwhile, the request is served or canceled by it.
THEOREM NoCheckoutStranded == Spec => []NoStrandedCheckout
  <1>1. TypeOK /\ CheckoutInv => NoStrandedCheckout
    BY CheckoutParts
  <1> QED BY <1>1, CheckoutCorrect, PTL

\* A connection that put hands to a checkout is handed to one that listens,
\* whichever of the parked ones give up while put walks the queue.
THEOREM SentConnectionsAreAwaited == Spec => []SentIsAwaited
  <1>1. TypeOK /\ CheckoutInv => SentIsAwaited
    BY ConnsAssumption DEF CheckoutInv, RequestInv, SentIsAwaited
  <1> QED BY <1>1, CheckoutCorrect, PTL

-----------------------------------------------------------------------------
(* The place of a connection.                                              *)

IsIdle(c) == \E k \in Keys : c \in idle[k]
Coming(c) == \E r \in Requests : chan[r] = c
InHand(c) == \E r \in Requests : held[r] = c

\* UniqueOwner for a connection that has been made.
OnePlace(c) ==
    /\ \A q, r \in Requests : chan[q] = c /\ chan[r] = c => q = r
    /\ \A q, r \in Requests : held[q] = c /\ held[r] = c => q = r
    /\ IsIdle(c) => ~Coming(c) /\ ~InHand(c) /\ c \notin draining
    /\ Coming(c) => ~InHand(c) /\ c \notin draining
    /\ InHand(c) => c \notin draining

\* A busy connection is with the request, or the body, that keeps it busy.
BusyInUse(c) ==
    conn[c] = "busy" =>
        /\ ~h2[c]
        /\ c \in draining \/ \E r \in Requests : held[r] = c /\ pc[r] = "sending"

PlaceInv == \A c \in Conns : (~h2[c] => OnePlace(c)) /\ BusyInUse(c)

LEMMA PlaceUnique ==
    ASSUME MadeInv, IdleOfKey, PlaceInv
    PROVE  UniqueOwner
  <1> SUFFICES ASSUME NEW c \in Conns, ~h2[c], NEW p \in Places(c), NEW q \in Places(c)
               PROVE  p = q
    BY DEF UniqueOwner
  <1>1. OnePlace(c)
    BY DEF PlaceInv
  <1>2. \A j, k \in Keys : c \in idle[j] /\ c \in idle[k] => j = k
    BY DEF IdleOfKey
  <1>3. CASE conn[c] \in Attempting
    BY <1>3 DEF MadeInv, Places
  <1>4. CASE conn[c] \notin Attempting
    <2>1. CASE \E k \in Keys : c \in idle[k] /\ p = <<"idle", k>>
      BY <1>1, <1>2, <1>4, <2>1 DEF Places, OnePlace, IsIdle, Coming, InHand
    <2>2. CASE \E r \in Requests : chan[r] = c /\ p = <<"chan", r>>
      BY <1>1, <1>4, <2>2 DEF Places, OnePlace, IsIdle, Coming, InHand
    <2>3. CASE \E r \in Requests : held[r] = c /\ p = <<"held", r>>
      BY <1>1, <1>4, <2>3 DEF Places, OnePlace, IsIdle, Coming, InHand
    <2>4. CASE c \in draining /\ p = <<"draining", Background>>
      BY <1>1, <1>4, <2>4 DEF Places, OnePlace, IsIdle, Coming, InHand
    <2> QED BY <1>4, <2>1, <2>2, <2>3, <2>4 DEF Places
  <1> QED BY <1>3, <1>4

LEMMA PlaceNotOffered ==
    ASSUME PlaceInv
    PROVE  BusyNotOffered
  <1> SUFFICES ASSUME NEW c \in Conns, conn[c] = "busy"
               PROVE  c \notin IdleConns /\ \A r \in Requests : chan[r] # c
    BY DEF BusyNotOffered
  <1>1. OnePlace(c) /\ (c \in draining \/ InHand(c))
    BY DEF PlaceInv, BusyInUse, InHand
  <1>2. ~IsIdle(c) /\ ~Coming(c)
    BY <1>1 DEF OnePlace
  <1> QED BY <1>2 DEF IsIdle, Coming, IdleConns

\* The step gives c to nobody new.
NotMoved(c) ==
    /\ ~h2'[c] => ~h2[c]
    /\ \A k \in Keys : c \in idle'[k] => c \in idle[k]
    /\ \A q \in Requests : (chan'[q] = c => chan[q] = c) /\ (held'[q] = c => held[q] = c)
    /\ c \in draining' => c \in draining

\* The step makes c busy, or leaves it so without taking it from its user.
BusyKept(c) ==
    conn'[c] = "busy" =>
        /\ conn[c] = "busy" /\ h2'[c] = h2[c]
        /\ c \in draining => c \in draining'
        /\ \A q \in Requests : held[q] = c /\ pc[q] = "sending"
                                 => held'[q] = c /\ pc'[q] = "sending"

LEMMA NotMovedPlace ==
    ASSUME PlaceInv, NEW c \in Conns, NotMoved(c)
    PROVE  ~h2'[c] => OnePlace(c)'
  <1> SUFFICES ASSUME ~h2'[c]
               PROVE  OnePlace(c)'
    OBVIOUS
  <1>1. OnePlace(c)
    BY DEF NotMoved, PlaceInv
  <1>2. /\ IsIdle(c)' => IsIdle(c)
        /\ Coming(c)' => Coming(c)
        /\ InHand(c)' => InHand(c)
    BY DEF NotMoved, IsIdle, Coming, InHand
  <1> QED BY <1>1, <1>2 DEF OnePlace, NotMoved

LEMMA BusyKeptInUse ==
    ASSUME PlaceInv, NEW c \in Conns, BusyKept(c)
    PROVE  BusyInUse(c)'
  BY DEF PlaceInv, BusyInUse, BusyKept

\* put gives the connection to one waiter, or to the idle list of its key.
LEMMA PutUniqueOnce ==
    ASSUME TypeOK, NEW k \in Keys, NEW c \in Conns, PutUnique(k, c),
           ~IsIdle(c), ~Coming(c), ~InHand(c)', c \notin draining'
    PROVE  OnePlace(c)'
  <1>0. chan \in [Requests -> Conns \cup {Empty, Canceled}] /\ waiters[k] \subseteq Requests
    BY DEF TypeOK
  <1>1. ASSUME NEW w \in waiters[k], chan' = [chan EXCEPT ![w] = c], UNCHANGED lists
        PROVE  OnePlace(c)'
    <2>1. \A q \in Requests : chan'[q] = c => q = w
      BY <1>0, <1>1 DEF Coming
    <2>2. ~IsIdle(c)'
      BY <1>1 DEF IsIdle, lists
    <2> QED BY <2>1, <2>2 DEF OnePlace, InHand
  <1>2. CASE UNCHANGED chan
    <2>1. ~Coming(c)'
      BY <1>2 DEF Coming
    <2> QED BY <2>1 DEF OnePlace, Coming, InHand
  <1> QED BY <1>1, <1>2 DEF PutUnique

LEMMA PlaceStep ==
    TypeOK /\ LockInv /\ CheckoutInv /\ PlaceInv /\ [Next]_vars => PlaceInv'
  <1> SUFFICES ASSUME TypeOK, LockInv, CheckoutInv, PlaceInv, [Next]_vars
               PROVE  PlaceInv'
    OBVIOUS
  <1>t. /\ conn \in [Conns -> ConnStates] /\ held \in [Requests -> Conns \cup {NoConn}]
        /\ chan \in [Requests -> Conns \cup {Empty, Canceled}]
        /\ pc \in [Requests -> PCs] /\ h2 \in [Conns -> BOOLEAN]
        /\ \A r \in Requests : held[r] \in Conns <=> pc[r] \in Holding
        /\ idle \in [Keys -> SUBSET Conns] /\ key \in [Requests -> Keys]
        /\ of \in [Conns -> Keys] /\ draining \subseteq Conns
    BY DEF TypeOK
  <1>n. Empty \notin Conns /\ NoConn \notin Conns /\ Canceled \notin Conns
    BY ConnsAssumption
  <1>m. \A c \in Conns : conn[c] \in Attempting => ~Referenced(c)
    BY MadeReferenced DEF LockInv
  <1>k. (\A c \in Conns : NotMoved(c) /\ BusyKept(c)) => PlaceInv'
    BY NotMovedPlace, BusyKeptInUse DEF PlaceInv
  \* A step that moves the connection c.
  <1>c. ASSUME NEW c \in Conns, ~h2'[c] => OnePlace(c)', BusyInUse(c)',
               \A d \in Conns : d # c => NotMoved(d) /\ BusyKept(d)
        PROVE  PlaceInv'
    <2>1. \A d \in Conns : d # c => (~h2'[d] => OnePlace(d)') /\ BusyInUse(d)'
      BY <1>c, NotMovedPlace, BusyKeptInUse
    <2> QED BY <1>c, <2>1 DEF PlaceInv
  <1>1. ASSUME NEW r \in Requests, NEW k \in Keys, Start(r, k)
        PROVE  PlaceInv'
    <2>1. /\ pc[r] = "idle" /\ pc' = [pc EXCEPT ![r] = "checkout"]
          /\ UNCHANGED <<idle, chan, held, conn, h2, draining>>
      BY <1>1 DEF Start, pool, lists, attempt
    <2>2. \A q \in Requests : pc[q] = "sending" => pc'[q] = "sending"
      BY <1>t, <2>1
    <2>3. \A c \in Conns : NotMoved(c) /\ BusyKept(c)
      BY <2>1, <2>2 DEF NotMoved, BusyKept
    <2> QED BY <1>k, <2>3
  <1>2. ASSUME NEW r \in Requests, CheckoutIdle(r)
        PROVE  PlaceInv'
    <2> DEFINE k == key[r]
    <2>1. PICK c \in idle[k] :
            LET after == {d \in idle[k] : <<c, d>> \in pushed} IN
            /\ Usable(c)
            /\ held' = [held EXCEPT ![r] = c]
            /\ conn' = [conn EXCEPT ![c] = InUse(c)]
            /\ idle' = [idle EXCEPT ![k] = @ \ Popped(c, after)]
      BY <1>2 DEF CheckoutIdle
    <2>2. /\ pc[r] = "checkout" /\ pc' = [pc EXCEPT ![r] = "sending"]
          /\ UNCHANGED <<chan, h2, draining>> /\ k \in Keys /\ c \in Conns
      BY <1>2, <1>t, <2>1 DEF CheckoutIdle, attempt
    <2>3. /\ held'[r] = c /\ pc'[r] = "sending"
          /\ \A q \in Requests : q # r => held'[q] = held[q] /\ pc'[q] = pc[q]
          /\ conn'[c] = InUse(c) /\ \A d \in Conns : d # c => conn'[d] = conn[d]
      BY <1>t, <2>1, <2>2
    <2>4. /\ \A j \in Keys : idle'[j] \subseteq idle[j]
          /\ ~h2[c] => c \notin idle'[k]
      BY <1>t, <2>1, <2>2 DEF Popped
    <2>5. ASSUME ~h2[c]
          PROVE  OnePlace(c)'
      <3>1. OnePlace(c) /\ IsIdle(c)
        BY <2>1, <2>2, <2>5 DEF PlaceInv, IsIdle
      <3>2. ~IsIdle(c)'
        <4>1. \A j \in Keys : c \in idle[j] => j = k
          BY <2>1, <2>2 DEF CheckoutInv, IdleOfKey
        <4> HIDE DEF k
        <4> QED BY <2>4, <2>5, <4>1 DEF IsIdle
      <3>3. c \notin draining' /\ ~Coming(c)' /\ \A q \in Requests : held'[q] = c => q = r
        BY <2>2, <2>3, <3>1 DEF OnePlace, Coming, InHand
      <3> QED BY <3>2, <3>3 DEF OnePlace, Coming
    <2>6. BusyInUse(c)'
      <3>1. conn[c] = "up"
        BY <2>1 DEF Usable, IsOpen
      <3>2. h2[c] => conn'[c] # "busy"
        BY <2>3, <3>1 DEF InUse
      <3> QED BY <2>2, <2>3, <3>2 DEF BusyInUse
    <2>7. ASSUME NEW d \in Conns, d # c
          PROVE  NotMoved(d) /\ BusyKept(d)
      <3>1. NotMoved(d)
        BY <2>2, <2>3, <2>4, <2>7 DEF NotMoved
      <3>2. BusyKept(d)
        BY <2>2, <2>3, <2>7 DEF BusyKept
      <3> QED BY <3>1, <3>2
    <2> QED BY <1>c, <2>2, <2>5, <2>6, <2>7
  <1>3. ASSUME NEW r \in Requests, CheckoutPark(r)
        PROVE  PlaceInv'
    <2>1. /\ pc[r] = "checkout" /\ pc' = [pc EXCEPT ![r] = "connect"]
          /\ idle' = [idle EXCEPT ![key[r]] = {}]
          /\ UNCHANGED <<chan, held, conn, h2, draining>>
      BY <1>3 DEF CheckoutPark, attempt
    <2>2. /\ \A q \in Requests : pc[q] = "sending" => pc'[q] = "sending"
          /\ \A j \in Keys : idle'[j] \subseteq idle[j]
      BY <1>t, <2>1
    <2>3. \A c \in Conns : NotMoved(c) /\ BusyKept(c)
      BY <2>1, <2>2 DEF NotMoved, BusyKept
    <2> QED BY <1>k, <2>3
  <1>4. ASSUME NEW r \in Requests, StartConnect(r)
        PROVE  PlaceInv'
    <2>0. /\ pc[r] = "connect" /\ UNCHANGED <<chan, held, idle, draining>>
          /\ \E step \in {"waitCheckout", "race"} : pc' = [pc EXCEPT ![r] = step]
      BY <1>4 DEF StartConnect, lists
    <2>1. \A q \in Requests : pc[q] = "sending" => pc'[q] = "sending"
      BY <1>t, <2>0
    <2>2. CASE UNCHANGED <<conn, attempt>>
      <3>1. \A c \in Conns : NotMoved(c) /\ BusyKept(c)
        BY <2>0, <2>1, <2>2 DEF NotMoved, BusyKept, attempt
      <3> QED BY <1>k, <3>1
    <2>3. ASSUME NEW c \in Conns, Dialing(r, c)
          PROVE  PlaceInv'
      <3>1. /\ ~Referenced(c) /\ conn'[c] = "dialing"
            /\ \A d \in Conns \ {c} : conn'[d] = conn[d] /\ h2'[d] = h2[d]
        BY <1>t, <2>3, UnreferencedIs DEF Dialing
      <3>2. OnePlace(c)'
        BY <2>0, <3>1 DEF Referenced, OnePlace, IsIdle, Coming, InHand
      <3>3. BusyInUse(c)'
        BY <3>1 DEF BusyInUse
      <3>4. \A d \in Conns : d # c => NotMoved(d) /\ BusyKept(d)
        BY <2>0, <2>1, <3>1 DEF NotMoved, BusyKept
      <3> QED BY <1>c, <3>2, <3>3, <3>4
    <2> QED BY <1>4, <2>2, <2>3 DEF StartConnect, Dialing
  <1>5. ASSUME NEW r \in Requests, WaiterServed(r)
        PROVE  PlaceInv'
    <2>0. PICK c \in Conns : c = chan[r]
      BY <1>5 DEF WaiterServed
    <2>1. /\ pc[r] \in {"race", "waitCheckout"} /\ conn[c] = "up"
          /\ held' = [held EXCEPT ![r] = c] /\ chan' = [chan EXCEPT ![r] = Empty]
          /\ conn' = [conn EXCEPT ![c] = InUse(c)] /\ pc' = [pc EXCEPT ![r] = "sending"]
          /\ UNCHANGED <<idle, h2, draining>>
      BY <1>5, <2>0 DEF WaiterServed, pool, lists, IsOpen
    <2>2. /\ held'[r] = c /\ pc'[r] = "sending" /\ chan'[r] = Empty
          /\ \A q \in Requests : q # r =>
               held'[q] = held[q] /\ pc'[q] = pc[q] /\ chan'[q] = chan[q]
          /\ conn'[c] = InUse(c) /\ \A d \in Conns : d # c => conn'[d] = conn[d]
      BY <1>t, <2>1
    <2>3. ASSUME ~h2[c]
          PROVE  OnePlace(c)'
      <3>1. OnePlace(c) /\ Coming(c)
        BY <2>0, <2>3 DEF PlaceInv, Coming
      <3>2. ~IsIdle(c)' /\ c \notin draining'
        BY <2>1, <3>1 DEF OnePlace, IsIdle
      <3>3. /\ \A q \in Requests : held'[q] = c => q = r
            /\ \A q \in Requests : chan'[q] # c
        BY <1>n, <2>0, <2>2, <3>1 DEF OnePlace, InHand
      <3> QED BY <3>2, <3>3 DEF OnePlace, Coming
    <2>4. BusyInUse(c)'
      <3>1. h2[c] => conn'[c] # "busy"
        BY <2>1, <2>2 DEF InUse
      <3> QED BY <2>1, <2>2, <3>1 DEF BusyInUse
    <2>5. ASSUME NEW d \in Conns, d # c
          PROVE  NotMoved(d) /\ BusyKept(d)
      <3>1. NotMoved(d)
        BY <1>n, <2>1, <2>2, <2>5 DEF NotMoved
      <3>2. BusyKept(d)
        BY <2>1, <2>2, <2>5 DEF BusyKept
      <3> QED BY <3>1, <3>2
    <2> QED BY <1>c, <2>1, <2>3, <2>4, <2>5
  <1>6. ASSUME NEW r \in Requests, WaiterGotClosed(r) \/ WaiterCanceled(r)
        PROVE  PlaceInv'
    <2>1. /\ pc[r] \in {"race", "waitCheckout"} /\ chan' = [chan EXCEPT ![r] = Empty]
          /\ \E step : pc' = [pc EXCEPT ![r] = step]
          /\ UNCHANGED <<idle, held, conn, h2, draining>>
      BY <1>6 DEF WaiterGotClosed, WaiterCanceled, pool, lists, attempt
    <2>2. /\ \A q \in Requests : pc[q] = "sending" => pc'[q] = "sending"
          /\ \A q \in Requests : chan'[q] \in {chan[q], Empty}
      BY <1>t, <2>1
    <2>3. \A c \in Conns : NotMoved(c) /\ BusyKept(c)
      BY <1>n, <2>1, <2>2 DEF NotMoved, BusyKept
    <2> QED BY <1>k, <2>3
  <1>7. ASSUME NEW r \in Requests, CleanWaiters(r)
        PROVE  PlaceInv'
    <2>0. UNCHANGED <<idle, chan, held, h2, draining>> /\ pc[r] \in Dropping
      BY <1>7 DEF CleanWaiters, lists, attempt
    <2>1. \A c \in Conns : NotMoved(c)
      BY <2>0 DEF NotMoved
    <2>2. CASE /\ pc[r] = "dropToSend" /\ pc' = [pc EXCEPT ![r] = "sending"]
               /\ conn' = [conn EXCEPT ![held[r]] = InUse(held[r])]
      <3>0. PICK c \in Conns : c = held[r]
        BY <1>t, <2>2
      <3>1. /\ pc'[r] = "sending" /\ conn'[c] = InUse(c)
            /\ \A q \in Requests : pc[q] = "sending" => pc'[q] = "sending"
            /\ \A d \in Conns : d # c => conn'[d] = conn[d]
        BY <1>t, <2>2, <3>0
      <3>2. \A d \in Conns : d # c => BusyKept(d)
        BY <2>0, <3>1 DEF BusyKept
      <3>3. BusyInUse(c)'
        <4>1. h2[c] => conn'[c] # "busy"
          <5>1. BusyInUse(c)
            BY DEF PlaceInv
          <5> QED BY <3>1, <5>1 DEF InUse, BusyInUse
        <4> QED BY <2>0, <3>0, <3>1, <4>1 DEF BusyInUse
      <3>4. ~h2'[c] => OnePlace(c)'
        BY <2>1, NotMovedPlace
      <3> QED BY <1>c, <2>1, <3>2, <3>3, <3>4
    <2>3. CASE /\ pc[r] = "dropToIdle" /\ UNCHANGED conn
               /\ \E step : pc' = [pc EXCEPT ![r] = step]
      <3>1. \A q \in Requests : pc[q] = "sending" => pc'[q] = "sending"
        BY <1>t, <2>3
      <3>2. \A c \in Conns : BusyKept(c)
        BY <2>0, <2>3, <3>1 DEF BusyKept
      <3> QED BY <1>k, <2>1, <3>2
    <2> QED BY <1>7, <2>2, <2>3 DEF CleanWaiters
  \* An attempt c that fails or is dropped is forgotten.
  <1>e. ASSUME NEW c \in Conns, NEW gone, Release(c, gone),
               conn' = [conn EXCEPT ![c] = "down"], UNCHANGED <<held, h2, draining>>,
               \A q \in Requests : pc[q] = "sending" => pc'[q] = "sending"
        PROVE  PlaceInv'
    <2>1. \A d \in Conns : idle' = idle /\ \A q \in Requests : chan'[q] = d => chan[q] = d
      BY <1>e, ReleaseRefers
    <2>2. \A d \in Conns : conn'[d] = "busy" => conn[d] = "busy"
      BY <1>e, <1>t
    <2>3. \A d \in Conns : NotMoved(d)
      BY <1>e, <2>1 DEF NotMoved
    <2>4. \A d \in Conns : BusyKept(d)
      BY <1>e, <2>2 DEF BusyKept
    <2> QED BY <1>k, <2>3, <2>4
  <1>8. ASSUME NEW r \in Requests, DropConnect(r)
        PROVE  PlaceInv'
    <2>1. PICK c \in Conns : Release(c, {}) /\ conn' = [conn EXCEPT ![c] = "down"]
      BY <1>8 DEF DropConnect
    <2>2. /\ pc[r] = "dropConnect" /\ pc' = [pc EXCEPT ![r] = "idle"]
          /\ UNCHANGED <<held, h2, draining>>
      BY <1>8 DEF DropConnect
    <2>3. \A q \in Requests : pc[q] = "sending" => pc'[q] = "sending"
      BY <1>t, <2>2
    <2> QED BY <1>e, <2>1, <2>2, <2>3
  \* A request that gives up a connection that is not busy.
  <1>d. ASSUME NEW r \in Requests, pc[r] = "sending", \E step : pc' = [pc EXCEPT ![r] = step],
               held' = [held EXCEPT ![r] = NoConn], UNCHANGED <<idle, chan, h2, draining>>,
               \A d \in Conns : d # held[r] => conn'[d] = conn[d], conn'[held[r]] # "busy"
        PROVE  PlaceInv'
    <2>1. /\ held'[r] = NoConn
          /\ \A q \in Requests : q # r => held'[q] = held[q] /\ pc'[q] = pc[q]
      BY <1>t, <1>d
    <2>2. \A d \in Conns : NotMoved(d)
      BY <1>d, <1>n, <2>1 DEF NotMoved
    <2>3. ASSUME NEW d \in Conns
          PROVE  BusyKept(d)
      <3>1. CASE d = held[r]
        BY <1>d, <3>1 DEF BusyKept
      <3>2. CASE d # held[r]
        BY <1>d, <2>1, <3>2 DEF BusyKept
      <3> QED BY <3>1, <3>2
    <2> QED BY <1>k, <2>2, <2>3
  <1>9. ASSUME NEW r \in Requests, CancelRequest(r)
        PROVE  PlaceInv'
    <2>0. UNCHANGED <<idle, h2, draining>>
      BY <1>9 DEF CancelRequest, pool, lists, attempt
    <2>1. CASE /\ pc[r] \in {"race", "waitCheckout", "waitConnect"}
               /\ chan' = [chan EXCEPT ![r] = Empty] \/ UNCHANGED chan
               /\ \E step : pc' = [pc EXCEPT ![r] = step]
               /\ UNCHANGED <<conn, held>>
      <3>1. /\ \A q \in Requests : pc[q] = "sending" => pc'[q] = "sending"
            /\ \A q \in Requests : chan'[q] \in {chan[q], Empty}
        BY <1>t, <2>1
      <3>2. \A c \in Conns : NotMoved(c) /\ BusyKept(c)
        BY <1>n, <2>0, <2>1, <3>1 DEF NotMoved, BusyKept
      <3> QED BY <1>k, <3>2
    <2>2. CASE /\ pc[r] = "sending" /\ pc' = [pc EXCEPT ![r] = "idle"]
               /\ conn' = [conn EXCEPT ![held[r]] = IF h2[held[r]] THEN @ ELSE "down"]
               /\ held' = [held EXCEPT ![r] = NoConn] /\ UNCHANGED chan
      <3>1. held[r] \in Conns
        BY <1>t, <2>2
      <3>2. BusyInUse(held[r])
        BY <3>1 DEF PlaceInv
      <3>3. conn'[held[r]] # "busy" /\ \A d \in Conns : d # held[r] => conn'[d] = conn[d]
        BY <1>t, <2>2, <3>1, <3>2 DEF BusyInUse
      <3> QED BY <1>d, <2>0, <2>2, <3>3
    <2> QED BY <1>9, <2>1, <2>2 DEF CancelRequest, DropPooled
  \* put: the connection c, which nobody else has, is offered again.
  <1>p. ASSUME NEW c \in Conns, PutUnique(of[c], c), UNCHANGED h2,
               conn' = [conn EXCEPT ![c] = "up"],
               ~IsIdle(c), ~Coming(c), ~InHand(c)', c \notin draining',
               \A d \in Conns : d # c => (d \in draining' <=> d \in draining),
               \A q \in Requests : held'[q] = held[q] \/ held'[q] = NoConn,
               \A q \in Requests : held[q] # c => held'[q] = held[q] /\ pc'[q] = pc[q]
        PROVE  PlaceInv'
    <2>1. of[c] \in Keys /\ conn'[c] = "up" /\ \A d \in Conns : d # c => conn'[d] = conn[d]
      BY <1>p, <1>t
    <2>2. OnePlace(c)'
      BY <1>p, <2>1, PutUniqueOnce
    <2>3. BusyInUse(c)'
      BY <2>1 DEF BusyInUse
    <2>4. ASSUME NEW d \in Conns, d # c
          PROVE  NotMoved(d) /\ BusyKept(d)
      <3>1. /\ \A j \in Keys : d \in idle'[j] => d \in idle[j]
            /\ \A q \in Requests : chan'[q] = d => chan[q] = d
        BY <1>p, <2>1, <2>4, PutUniqueRefers
      <3>2. NotMoved(d)
        BY <1>n, <1>p, <2>4, <3>1 DEF NotMoved
      <3>3. BusyKept(d)
        BY <1>p, <2>1, <2>4 DEF BusyKept
      <3> QED BY <3>2, <3>3
    <2> QED BY <1>c, <2>2, <2>3, <2>4
  <1>10. ASSUME NEW r \in Requests, Respond(r)
         PROVE  PlaceInv'
    <2>1. PICK c \in Conns : c = held[r]
      BY <1>10, <1>t DEF Respond
    <2>2. /\ pc[r] = "sending" /\ pc' = [pc EXCEPT ![r] = "idle"]
          /\ held' = [held EXCEPT ![r] = NoConn] /\ UNCHANGED h2
      BY <1>10 DEF Respond, DropPooled, attempt
    <2>3. /\ held'[r] = NoConn
          /\ \A q \in Requests : q # r => held'[q] = held[q] /\ pc'[q] = pc[q]
      BY <1>t, <2>2
    <2>4. CASE h2[c] /\ UNCHANGED <<pool, chan, conn, draining>>
      <3>1. conn'[held[r]] # "busy" /\ \A d \in Conns : conn'[d] = conn[d]
        BY <2>1, <2>4 DEF PlaceInv, BusyInUse
      <3>2. UNCHANGED <<idle, chan, draining>>
        BY <2>4 DEF pool, lists
      <3> QED BY <1>d, <2>2, <3>1, <3>2
    <2>5. ASSUME ~h2[c]
          PROVE  /\ ~IsIdle(c) /\ ~Coming(c) /\ c \notin draining /\ ~InHand(c)'
                 /\ \A q \in Requests : held[q] = c => q = r
      <3>1. OnePlace(c) /\ InHand(c)
        BY <2>1, <2>5 DEF PlaceInv, InHand
      <3>2. /\ ~IsIdle(c) /\ ~Coming(c) /\ c \notin draining
            /\ \A q \in Requests : held[q] = c => q = r
        BY <2>1, <3>1 DEF OnePlace
      <3>3. ~InHand(c)'
        BY <1>n, <2>3, <3>2 DEF InHand
      <3> QED BY <3>2, <3>3
    <2>6. CASE /\ ~h2[c] /\ conn' = [conn EXCEPT ![c] = "up"]
               /\ PutUnique(of[c], c) /\ UNCHANGED draining
      <3>1. /\ \A q \in Requests : held'[q] = held[q] \/ held'[q] = NoConn
            /\ \A q \in Requests : held[q] # c => held'[q] = held[q] /\ pc'[q] = pc[q]
        BY <2>1, <2>3
      <3> QED BY <1>p, <2>2, <2>5, <2>6, <3>1
    <2>7. CASE ~h2[c] /\ draining' = draining \cup {c} /\ UNCHANGED <<pool, chan, conn>>
      <3>0. UNCHANGED <<idle, chan, conn>>
        BY <2>7 DEF pool, lists
      <3>1. OnePlace(c)'
        <4>1. ~IsIdle(c)' /\ ~Coming(c)' /\ ~InHand(c)'
          BY <2>5, <2>7, <3>0 DEF IsIdle, Coming
        <4> QED BY <4>1 DEF OnePlace, Coming, InHand
      <3>2. BusyInUse(c)'
        BY <2>2, <2>7 DEF BusyInUse
      <3>3. ASSUME NEW d \in Conns, d # c
            PROVE  NotMoved(d) /\ BusyKept(d)
        <4>1. NotMoved(d)
          BY <1>n, <2>2, <2>3, <2>7, <3>0, <3>3 DEF NotMoved
        <4>2. BusyKept(d)
          BY <2>1, <2>2, <2>3, <2>7, <3>0, <3>3 DEF BusyKept
        <4> QED BY <4>1, <4>2
      <3> QED BY <1>c, <3>1, <3>2, <3>3
    <2> QED BY <1>10, <2>1, <2>4, <2>6, <2>7 DEF Respond
  <1>11. ASSUME NEW r \in Requests, SendFailed(r)
         PROVE  PlaceInv'
    <2>1. /\ pc[r] = "sending" /\ held' = [held EXCEPT ![r] = NoConn]
          /\ \E step : pc' = [pc EXCEPT ![r] = step]
          /\ conn[held[r]] = "down" \/ h2[held[r]]
          /\ UNCHANGED <<idle, chan, conn, h2, draining>>
      BY <1>11 DEF SendFailed, DropPooled, pool, lists, attempt
    <2>2. conn'[held[r]] # "busy"
      BY <1>t, <2>1 DEF PlaceInv, BusyInUse
    <2> QED BY <1>d, <2>1, <2>2
  <1>12. ASSUME NEW c \in Conns, NEW alpn \in AlpnH2, Dialed(c, alpn)
         PROVE  PlaceInv'
    <2>0. UNCHANGED <<idle, chan, held, draining>> /\ conn[c] = "dialing"
      BY <1>12 DEF Dialed, lists
    <2>a. \/ conn' = [conn EXCEPT ![c] = "handshake"] /\ h2' = [h2 EXCEPT ![c] = @ \/ alpn]
          \/ conn' = [conn EXCEPT ![c] = "down"] /\ h2' = h2
      BY <1>12 DEF Dialed
    <2>b. conn \in [Conns -> ConnStates] /\ h2 \in [Conns -> BOOLEAN]
      BY <1>t
    <2>1. /\ conn'[c] \in {"handshake", "down"}
          /\ \A d \in Conns : d # c => conn'[d] = conn[d] /\ h2'[d] = h2[d]
          /\ ~h2'[c] => ~h2[c]
      BY <2>a, <2>b
    <2>2. \A q \in Requests : pc[q] = "sending" => pc'[q] = "sending"
      BY <1>12, RequestsAssumption DEF Dialed, Polled
    <2>3. \A d \in Conns : NotMoved(d)
      BY <2>0, <2>1 DEF NotMoved
    <2>4. \A d \in Conns : BusyKept(d)
      BY <2>0, <2>1, <2>2 DEF BusyKept
    <2> QED BY <1>k, <2>3, <2>4
  <1>13. ASSUME NEW c \in Conns, AttemptFailed(c)
         PROVE  PlaceInv'
    <2>1. /\ Release(c, Racing(c)) /\ conn' = [conn EXCEPT ![c] = "down"]
          /\ UNCHANGED <<held, h2, draining>>
      BY <1>13 DEF AttemptFailed
    <2>2. \A q \in Requests : pc[q] = "sending" => pc'[q] = "sending"
      BY <1>13, RequestsAssumption DEF AttemptFailed, Polled
    <2> HIDE DEF Racing
    <2> QED BY <1>e, <2>1, <2>2
  <1>14. ASSUME NEW c \in Conns, Handshaken(c)
         PROVE  PlaceInv'
    <2>0. /\ conn[c] = "handshake" /\ Polled(c) /\ UNCHANGED <<h2, draining>>
          /\ of[c] \in Keys /\ ~Referenced(c)
      BY <1>14, <1>m, <1>t DEF Handshaken
    <2>1. ~IsIdle(c) /\ ~Coming(c) /\ ~InHand(c) /\ c \notin draining
      BY <2>0 DEF Referenced, IsIdle, Coming, InHand
    <2>2. CASE owner[c] = Background /\ ~h2[c]
      <3>1. /\ PutUnique(of[c], c) /\ conn' = [conn EXCEPT ![c] = "up"]
            /\ UNCHANGED <<pc, held>>
        BY <1>14, <2>2 DEF Handshaken
      <3>2. ~InHand(c)'
        BY <2>1, <3>1 DEF InHand
      <3> QED BY <1>p, <2>0, <2>1, <3>1, <3>2
    <2>3. CASE owner[c] # Background \/ h2[c]
      <3>1. ASSUME NEW d \in Conns, d # c
            PROVE  /\ \A j \in Keys : d \in idle'[j] => d \in idle[j]
                   /\ \A q \in Requests : chan'[q] = d => chan[q] = d
        <4>1. CASE PooledShared(of[c], c, Racing(c))
          <5> HIDE DEF Racing
          <5> QED BY <2>0, <3>1, <4>1, PooledSharedRefers
        <4>2. CASE Release(c, Racing(c))
          <5> HIDE DEF Racing
          <5> QED BY <4>2, ReleaseRefers
        <4> QED BY <1>14, <2>3, <4>1, <4>2 DEF Handshaken
      <3>2. /\ conn'[c] \in ConnStates /\ (conn'[c] = "busy" => ~h2[c])
            /\ \A d \in Conns : d # c => conn'[d] = conn[d]
        BY <1>14, <1>t DEF Handshaken
      <3>3. CASE owner[c] = Background
        <4>1. h2[c] /\ UNCHANGED <<pc, held>> /\ conn'[c] = "up"
          BY <1>14, <1>t, <2>3, <3>3 DEF Handshaken
        <4>2. \A d \in Conns : d # c => NotMoved(d) /\ BusyKept(d)
          BY <2>0, <3>1, <3>2, <4>1 DEF NotMoved, BusyKept
        <4>3. BusyInUse(c)'
          BY <4>1 DEF BusyInUse
        <4> QED BY <1>c, <2>0, <4>1, <4>2, <4>3
      <3>4. CASE owner[c] # Background
        <4>1. PICK r \in Requests : r = owner[c] /\ pc[r] \in {"race", "waitConnect"}
          BY <2>0, <3>4 DEF Polled
        <4>2. /\ held' = [held EXCEPT ![r] = c]
              /\ pc' = [pc EXCEPT ![r] = IF @ = "race" THEN "dropToSend" ELSE "sending"]
              /\ conn' = [conn EXCEPT ![c] = IF h2[c] \/ pc[r] = "race" THEN "up" ELSE "busy"]
          BY <1>14, <3>4, <4>1 DEF Handshaken
        <4>3. /\ held'[r] = c /\ held[r] \notin Conns
              /\ \A q \in Requests : q # r => held'[q] = held[q] /\ pc'[q] = pc[q]
              /\ conn'[c] = "busy" => pc'[r] = "sending"
          BY <1>t, <4>1, <4>2
        <4>4. ASSUME ~h2[c]
              PROVE  OnePlace(c)'
          <5>1. Release(c, Racing(c))
            BY <1>14, <3>4, <4>4 DEF Handshaken
          <5>2. idle' = idle /\ \A q \in Requests : chan'[q] = c => chan[q] = c
            <6> HIDE DEF Racing
            <6> QED BY <5>1, ReleaseRefers
          <5>3. ~IsIdle(c)' /\ ~Coming(c)' /\ c \notin draining'
            BY <2>0, <2>1, <5>2 DEF IsIdle, Coming
          <5>4. \A q \in Requests : held'[q] = c => q = r
            BY <2>1, <4>3 DEF InHand
          <5> QED BY <5>3, <5>4 DEF OnePlace, Coming
        <4>5. BusyInUse(c)'
          BY <2>0, <3>2, <4>1, <4>3 DEF BusyInUse
        <4>6. ASSUME NEW d \in Conns, d # c
              PROVE  NotMoved(d) /\ BusyKept(d)
          <5>1. NotMoved(d)
            BY <2>0, <3>1, <4>3, <4>6 DEF NotMoved
          <5>2. BusyKept(d)
            BY <2>0, <3>2, <4>3, <4>6 DEF BusyKept
          <5> QED BY <5>1, <5>2
        <4> QED BY <1>c, <2>0, <4>4, <4>5, <4>6
      <3> QED BY <3>3, <3>4
    <2> QED BY <2>2, <2>3
  <1>15. ASSUME NEW c \in Conns, Drained(c)
         PROVE  PlaceInv'
    <2>0. c \in draining /\ draining' = draining \ {c} /\ UNCHANGED <<pc, held, h2>>
      BY <1>15 DEF Drained, attempt
    <2>1. CASE /\ conn[c] = "busy" /\ conn' = [conn EXCEPT ![c] = "up"]
               /\ PutUnique(of[c], c)
      <3>1. OnePlace(c)
        BY <2>1 DEF PlaceInv, BusyInUse
      <3>2. ~IsIdle(c) /\ ~Coming(c) /\ ~InHand(c) /\ ~InHand(c)'
        <4>1. ~IsIdle(c) /\ ~Coming(c) /\ ~InHand(c)
          BY <2>0, <3>1 DEF OnePlace
        <4> QED BY <2>0, <4>1 DEF InHand
      <3> QED BY <1>p, <2>0, <2>1, <3>2
    <2>2. CASE conn[c] = "down" /\ UNCHANGED <<pool, chan, conn>>
      <3>1. UNCHANGED <<idle, chan, conn>>
        BY <2>2 DEF pool, lists
      <3>2. \A d \in Conns : NotMoved(d)
        BY <2>0, <3>1 DEF NotMoved
      <3>3. \A d \in Conns : BusyKept(d)
        BY <2>0, <2>2, <3>1 DEF BusyKept
      <3> QED BY <1>k, <3>2, <3>3
    <2> QED BY <1>15, <2>1, <2>2 DEF Drained
  <1>16. ASSUME \/ \E c \in Conns : ConnDown(c)
                \/ Tick \/ ClearExpired \/ UNCHANGED vars
         PROVE  PlaceInv'
    <2>1. UNCHANGED <<pc, chan, held, h2, draining>>
      BY <1>16 DEF ConnDown, Tick, ClearExpired, vars, attempt
    <2>2. \A k \in Keys : idle'[k] \subseteq idle[k]
      BY <1>16 DEF ConnDown, Tick, ClearExpired, Retained, vars, pool, lists
    <2>3. \A c \in Conns : conn'[c] = "busy" => conn[c] = "busy"
      BY <1>16, <1>t DEF ConnDown, Tick, ClearExpired, vars
    <2>4. \A c \in Conns : NotMoved(c)
      BY <2>1, <2>2 DEF NotMoved
    <2>5. \A c \in Conns : BusyKept(c)
      BY <2>1, <2>3 DEF BusyKept
    <2> QED BY <1>k, <2>4, <2>5
  <1> QED
    BY <1>1, <1>2, <1>3, <1>4, <1>5, <1>6, <1>7, <1>8, <1>9, <1>10, <1>11, <1>12,
       <1>13, <1>14, <1>15, <1>16 DEF Next

LEMMA PlaceInit == Init => PlaceInv
  <1> SUFFICES ASSUME Init, NEW c \in Conns
               PROVE  OnePlace(c) /\ BusyInUse(c)
    BY DEF PlaceInv
  <1>1. \A r \in Requests : chan[r] # c /\ held[r] # c
    BY ConnsAssumption DEF Init
  <1>2. ~IsIdle(c) /\ conn[c] = "down"
    BY DEF Init, IsIdle
  <1> QED BY <1>1, <1>2 DEF OnePlace, BusyInUse, Coming, InHand

LEMMA PlaceCorrect == Spec => [](MadeInv /\ IdleOfKey /\ PlaceInv)
  <1>1. LockInv /\ CheckoutInv => MadeInv /\ IdleOfKey
    BY DEF LockInv, CheckoutInv
  <1> QED BY <1>1, CheckoutCorrect, PlaceInit, PlaceStep, PTL DEF Spec

\* An HTTP/1 connection is in one place at a time: in an idle list, on its way
\* to one waiter, in the hands of one request, finishing a response body, or
\* still being made.
THEOREM OneOwnerEach == Spec => []UniqueOwner
  <1>1. MadeInv /\ IdleOfKey /\ PlaceInv => UniqueOwner
    BY PlaceUnique
  <1> QED BY <1>1, PlaceCorrect, PTL

\* While an exchange runs on an HTTP/1 connection, Drop for Pooled and on_idle
\* offer it to nobody else.
THEOREM BusyIsNotOffered == Spec => []BusyNotOffered
  <1>1. PlaceInv => BusyNotOffered
    BY PlaceNotOffered
  <1> QED BY <1>1, PlaceCorrect, PTL
=============================================================================

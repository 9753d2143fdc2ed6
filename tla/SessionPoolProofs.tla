-------------------------- MODULE SessionPoolProofs --------------------------
(***************************************************************************)
(* Theorems about SessionPool, for every number of clients and sessions,   *)
(* every pool size and every choice of faults.                             *)
(***************************************************************************)
EXTENDS SessionPool, TLAPS, FiniteSetTheorems, SequenceTheorems

-----------------------------------------------------------------------------
(* Lemmas about the deque operations *)

\* Deleting one position of a sequence.
LEMMA RemoveAtType ==
    ASSUME NEW S, NEW q \in Seq(S), NEW k \in 1..Len(q)
    PROVE  /\ RemoveAt(q, k) \in Seq(S)
           /\ Len(RemoveAt(q, k)) = Len(q) - 1
           /\ \A i \in 1..Len(RemoveAt(q, k)) : \E j \in 1..Len(q) : RemoveAt(q, k)[i] = q[j]
<1> DEFINE n     == Len(q)
           left  == SubSeq(q, 1, k - 1)
           right == SubSeq(q, k + 1, n)
           r     == RemoveAt(q, k)
<1>1. n \in Nat /\ k \in 1..n /\ \A i \in 1..n : q[i] \in S
  BY LenProperties, ElementOfSeq
<1>2. r = left \o right
  BY DEF RemoveAt
<1>3. \A i \in 1..(k - 1) : q[i] \in S
  BY <1>1
<1>4. \A i \in (k + 1)..n : q[i] \in S
  BY <1>1
<1> HIDE DEF n
<1>5. /\ left \in Seq(S) /\ Len(left) = k - 1
      /\ \A i \in 1..(k - 1) : left[i] = q[i]
  BY <1>1, <1>3, SubSeqProperties
<1>6. /\ right \in Seq(S) /\ Len(right) = n - k
      /\ \A i \in 1..(n - k) : right[i] = q[k + i]
  BY <1>1, <1>4, SubSeqProperties
<1> HIDE DEF left, right, r
<1>7. /\ r \in Seq(S) /\ Len(r) = Len(left) + Len(right)
      /\ \A i \in 1..(Len(left) + Len(right)) :
             r[i] = IF i <= Len(left) THEN left[i] ELSE right[i - Len(left)]
  BY <1>2, <1>5, <1>6, ConcatProperties
<1>8. Len(r) = n - 1
  BY <1>1, <1>5, <1>6, <1>7
<1>9. ASSUME NEW i \in 1..Len(r) PROVE \E j \in 1..n : r[i] = q[j]
  <2>1. CASE i <= k - 1
    <3>1. i \in 1..(k - 1) /\ i \in 1..n
      BY <2>1, <1>1, <1>8
    <3>2. r[i] = q[i]
      BY <3>1, <2>1, <1>1, <1>5, <1>7
    <3> QED
      BY <3>1, <3>2
  <2>2. CASE ~ (i <= k - 1)
    <3>1. i - (k - 1) \in 1..(n - k) /\ k + (i - (k - 1)) = i + 1 /\ i + 1 \in 1..n
      BY <2>2, <1>1, <1>8
    <3>2. r[i] = right[i - (k - 1)]
      BY <2>2, <1>5, <1>7
    <3> QED
      BY <3>1, <3>2, <1>6
  <2> QED
    BY <2>1, <2>2
<1> QED
  BY <1>7, <1>8, <1>9 DEF n, r

\* Appending at the back and then shifting the front off, as getSession does
\* with a session it has just created: the length is unchanged, and an empty
\* deque stays empty.
LEMMA AppendShift ==
    ASSUME NEW S, NEW q \in Seq(S), NEW e \in S
    PROVE  /\ Tail(Append(q, e)) \in Seq(S)
           /\ Len(Tail(Append(q, e))) = Len(q)
           /\ q = <<>> => Tail(Append(q, e)) = <<>>
           /\ \A i \in 1..Len(Tail(Append(q, e))) :
                  \/ Tail(Append(q, e))[i] = e
                  \/ i + 1 \in 1..Len(q) /\ Tail(Append(q, e))[i] = q[i + 1]
<1> DEFINE a == Append(q, e)
<1>1. a \in Seq(S) /\ Len(a) = Len(q) + 1 /\ Len(q) \in Nat
  BY LenProperties, AppendProperties
<1>2. \A i \in 1..Len(a) : a[i] = e \/ (i \in 1..Len(q) /\ a[i] = q[i])
  BY <1>1, AppendProperties
<1>3. a # <<>>
  BY <1>1, EmptySeq
<1> HIDE DEF a
<1>4. /\ Tail(a) \in Seq(S)
      /\ Len(Tail(a)) = Len(a) - 1
      /\ \A i \in 1..Len(Tail(a)) : Tail(a)[i] = a[i + 1]
  BY <1>1, <1>3, HeadTailProperties
<1>5. Len(Tail(a)) = Len(q)
  BY <1>1, <1>4
<1>6. q = <<>> => Tail(a) = <<>>
  BY <1>4, <1>5, <1>1, EmptySeq
<1>7. \A i \in 1..Len(Tail(a)) : \/ Tail(a)[i] = e
                                 \/ i + 1 \in 1..Len(q) /\ Tail(a)[i] = q[i + 1]
  BY <1>1, <1>2, <1>4, <1>5
<1> QED
  BY <1>4, <1>5, <1>6, <1>7 DEF a

-----------------------------------------------------------------------------
(* Type correctness *)

\* A pool that has just been constructed has the types (BaseSessionPool.ts:50-59).
LEMMA TypeInit == Init => TypeOK
  BY SizesAssumption, EmptySeq
  DEF Init, TypeOK, InitCalls, Phases, ConnState, PcState

\* The same types for clients that may also be in states that getSession and
\* releaseSession do not know, as those of RedirectPool are.
PoolTypes(States) ==
    /\ phase \in Phases
    /\ initPending \in 0..MinPoolSize
    /\ pool \in SUBSET Sessions /\ idle \in Seq(Sessions)
    /\ active \in SUBSET Sessions /\ inUse \in SUBSET Sessions
    /\ waitQueue \in Seq(Clients \cup {Expired})
    /\ conn \in [Sessions -> ConnState]
    /\ cleaning \in [Sessions -> Nat] /\ closing \in SUBSET Sessions
    /\ pc \in [Clients -> States]
    /\ holds \in [Clients -> Sessions \cup {NoSession}]
    /\ leaked \in Nat

\* Every action keeps the types.
LEMMA TypesNext ==
    ASSUME NEW States, PcState \subseteq States, PoolTypes(States), [Next]_vars
    PROVE  PoolTypes(States)'
<1> USE SizesAssumption DEF PoolTypes, Phases, ConnState, PcState
<1>1. CASE InitCreated
  BY <1>1, AppendProperties DEF InitCreated
<1>2. CASE InitFails
  BY <1>2 DEF InitFails, poolVars
<1>3. ASSUME NEW c \in Clients, Reuse(c) PROVE PoolTypes(States)'
  BY <1>3, HeadTailProperties DEF Reuse, IdleRest
<1>4. IdleLeft \in Seq(Sessions) /\ PoolLeft \in SUBSET Sessions
  BY HeadTailProperties DEF IdleLeft, PoolLeft, StaleHead, IdleRest
<1>5. ASSUME NEW c \in Clients, CreateNew(c) PROVE PoolTypes(States)'
  BY <1>4, <1>5 DEF CreateNew
<1>6. ASSUME NEW c \in Clients, Enqueue(c) PROVE PoolTypes(States)'
  BY <1>4, <1>6, AppendProperties DEF Enqueue
<1>7. ASSUME NEW c \in Clients, CreateDone(c) PROVE PoolTypes(States)'
  BY <1>7, AppendShift DEF CreateDone, AfterCreate
<1>8. ASSUME NEW c \in Clients, CreateFails(c) PROVE PoolTypes(States)'
  BY <1>8 DEF CreateFails, poolVars
<1>9. ASSUME NEW c \in Clients, Timeout(c) PROVE PoolTypes(States)'
  <2>1. waitQueue' \in Seq(Clients \cup {Expired})
    BY <1>9, LenProperties DEF Timeout
  <2> QED
    BY <1>9, <2>1 DEF Timeout
<1>10. ASSUME NEW c \in Clients, ReleaseForeign(c) PROVE PoolTypes(States)'
  BY <1>10 DEF ReleaseForeign, poolVars
<1>11. ASSUME NEW c \in Clients, ReleaseToIdle(c) PROVE PoolTypes(States)'
  BY <1>11, AppendProperties DEF ReleaseToIdle
<1>12. ASSUME NEW c \in Clients, ReleaseToWaiter(c) PROVE PoolTypes(States)'
  <2>1. /\ waitQueue' \in Seq(Clients \cup {Expired})
        /\ Head(waitQueue) \in Clients \cup {Expired}
    BY <1>12, HeadTailProperties DEF ReleaseToWaiter, NobodyWaits, WaitersLeft
  <2>2. /\ pc' \in [Clients -> States]
        /\ holds' \in [Clients -> Sessions \cup {NoSession}]
        /\ leaked' \in Nat
    <3>1. CASE Head(waitQueue) = Expired
      <4>1. /\ pc' = [pc EXCEPT ![c] = "out"] /\ holds' = [holds EXCEPT ![c] = NoSession]
            /\ leaked' = leaked + 1
        BY <1>12, <3>1 DEF ReleaseToWaiter
      <4> QED
        BY <4>1
    <3>2. CASE Head(waitQueue) # Expired
      <4> DEFINE d == Head(waitQueue)
      <4>1. d \in Clients
        BY <2>1, <3>2
      <4> HIDE DEF d
      <4>2. pc' = [pc EXCEPT ![c] = "out", ![d] = "using"]
        BY <1>12, <3>2 DEF ReleaseToWaiter, d
      <4>3. holds' = [holds EXCEPT ![c] = NoSession, ![d] = holds[c]] /\ leaked' = leaked
        BY <1>12, <3>2 DEF ReleaseToWaiter, d
      <4> QED
        BY <4>1, <4>2, <4>3
    <3> QED
      BY <3>1, <3>2
  <2> QED
    BY <1>12, <2>1, <2>2 DEF ReleaseToWaiter, ActiveHandedOver
<1>13. ASSUME NEW s \in Sessions, Lose(s) PROVE PoolTypes(States)'
  BY <1>13 DEF Lose, poolVars
<1>14. ASSUME NEW s \in Sessions, Cleaned(s) PROVE PoolTypes(States)'
  <2>1. idle' \in Seq(Sessions)
    BY <1>14, RemoveAtType, LenProperties DEF Cleaned
  <2> QED
    BY <1>14, <2>1 DEF Cleaned, CloseReturns
<1>15. ASSUME NEW s \in Sessions, CloseSession(s) PROVE PoolTypes(States)'
  BY <1>15, EmptySeq DEF CloseSession, CloseReturns, ClearPool, poolVars
<1>16. CASE CleanupTick
  <2>1. ASSUME NEW s \in Sessions
        PROVE  Cardinality({i \in DOMAIN idle : idle[i] = s}) \in Nat
    <3>1. DOMAIN idle = 1..Len(idle) /\ Len(idle) \in Nat
      BY LenProperties
    <3>2. IsFiniteSet(DOMAIN idle)
      BY <3>1, FS_Interval
    <3> QED
      BY <3>2, FS_Subset, FS_CardinalityType
  <2> QED
    BY <1>16, <2>1 DEF CleanupTick, poolVars
<1>17. CASE CloseStart
  BY <1>17, EmptySeq DEF CloseStart, ClearPool, poolVars
<1>18. CASE UNCHANGED vars
  BY <1>18 DEF vars, poolVars
<1> QED
  BY <1>1, <1>2, <1>3, <1>5, <1>6, <1>7, <1>8, <1>9, <1>10, <1>11, <1>12, <1>13, <1>14,
     <1>15, <1>16, <1>17, <1>18 DEF Next

\* In particular those of a pool without such clients.
LEMMA TypeNext == TypeOK /\ [Next]_vars => TypeOK'
<1>1. TypeOK <=> PoolTypes(PcState)
  BY DEF TypeOK, PoolTypes
<1>2. TypeOK' <=> PoolTypes(PcState)'
  BY DEF TypeOK, PoolTypes
<1> QED
  BY <1>1, <1>2, TypesNext

\* The variables of the pool always have their types (BaseSessionPool.ts:50-59).
THEOREM TypeCorrect == Spec => []TypeOK
  BY TypeInit, TypeNext, PTL DEF Spec

-----------------------------------------------------------------------------
(* The bound on the number of sessions *)

\* While init() has calls in flight no client is in getSession, and pool and
\* calls together are at most the MinPoolSize calls init() made.
InitPhase ==
    initPending > 0 => Creating = {} /\ Cardinality(pool) + initPending <= MinPoolSize

CapInv == CapacityBound /\ InitPhase

\* The sets that are counted are finite.
LEMMA Counts ==
    ASSUME TypeOK
    PROVE  /\ IsFiniteSet(Clients) /\ Cardinality(Clients) \in Nat \ {0}
           /\ IsFiniteSet(pool) /\ Cardinality(pool) \in Nat
           /\ IsFiniteSet(Creating) /\ Cardinality(Creating) \in Nat
           /\ IsFiniteSet(Using) /\ Cardinality(Using) \in Nat
<1>1. IsFiniteSet(Clients) /\ Cardinality(Clients) \in Nat \ {0}
  BY ClientsAssumption, FS_CardinalityType, FS_EmptySet
<1>2. Creating \in SUBSET Clients /\ Using \in SUBSET Clients /\ pool \in SUBSET Sessions
  BY DEF TypeOK, Creating, Using
<1>3. IsFiniteSet(pool) /\ IsFiniteSet(Creating) /\ IsFiniteSet(Using)
  BY <1>1, <1>2, SessionsAssumption, FS_Subset
<1> QED
  BY <1>1, <1>3, FS_CardinalityType

\* A session joins the pool.
LEMMA PoolGrows ==
    ASSUME TypeOK, NEW s
    PROVE  LET p == pool \cup {s}
           IN  /\ Cardinality(p) \in Nat
               /\ Cardinality(p) <= Cardinality(pool) + 1
               /\ s \notin pool => Cardinality(p) = Cardinality(pool) + 1
<1>1. IsFiniteSet(pool) /\ Cardinality(pool) \in Nat
  BY Counts
<1>2. /\ IsFiniteSet(pool \cup {s})
      /\ Cardinality(pool \cup {s}) = IF s \in pool THEN Cardinality(pool) ELSE Cardinality(pool) + 1
  BY <1>1, FS_AddElement
<1> QED
  BY <1>1, <1>2

\* A step that adds nothing to pool, to the creations or to the calls of init.
LEMMA CapShrinks ==
    ASSUME TypeOK, TypeOK', CapInv,
           pool' \subseteq pool, Creating' \subseteq Creating, initPending' <= initPending
    PROVE  CapInv'
<1>1. Cardinality(pool') <= Cardinality(pool) /\ Cardinality(pool') \in Nat
  BY Counts, FS_Subset, FS_CardinalityType
<1>2. Cardinality(Creating') <= Cardinality(Creating) /\ Cardinality(Creating') \in Nat
  BY Counts, FS_Subset, FS_CardinalityType
<1>3. initPending \in Nat /\ initPending' \in Nat
  BY SizesAssumption DEF TypeOK
<1> QED
  BY <1>1, <1>2, <1>3, Counts, SizesAssumption DEF CapInv, CapacityBound, InitPhase

\* The calls init() starts are within the bound (BaseSessionPool.ts:129-134).
LEMMA CapInit == Init => CapInv
<1> SUFFICES ASSUME Init PROVE CapInv
  OBVIOUS
<1>1. pool = {} /\ Creating = {} /\ initPending = MinPoolSize
  BY DEF Init, Creating, InitCalls
<1>2. Cardinality(Clients) \in Nat \ {0}
  BY ClientsAssumption, FS_CardinalityType, FS_EmptySet
<1> QED
  BY <1>1, <1>2, FS_EmptySet, SizesAssumption DEF CapInv, CapacityBound, InitPhase

\* Every action keeps the bound: init() ends before callers create, and each
\* caller has at most one creation in flight (BaseSessionPool.ts:257-261).
LEMMA CapNext == TypeOK /\ TypeOK' /\ CapInv /\ [Next]_vars => CapInv'
<1> SUFFICES ASSUME TypeOK, TypeOK', CapInv, [Next]_vars PROVE CapInv'
  OBVIOUS
<1>t. /\ initPending \in Nat /\ initPending' \in Nat
      /\ MaxPoolSize \in Nat /\ MinPoolSize \in Nat /\ MinPoolSize <= MaxPoolSize
      /\ pc \in [Clients -> PcState]
  BY SizesAssumption DEF TypeOK
<1>1. CASE InitCreated
  <2>1. PICK s \in Sessions : pool' = pool \cup {s}
    BY <1>1 DEF InitCreated
  <2>2. Cardinality(pool') <= Cardinality(pool) + 1 /\ Cardinality(pool') \in Nat
    BY <2>1, PoolGrows
  <2>3. Creating' = Creating /\ initPending > 0 /\ initPending' = initPending - 1
    BY <1>1 DEF InitCreated, Creating
  <2> QED
    BY <2>2, <2>3, <1>t, Counts DEF CapInv, CapacityBound, InitPhase
<1>2. ASSUME NEW c \in Clients, CreateNew(c) PROVE CapInv'
  <2>1. initPending' = 0
    BY <1>2 DEF CreateNew, MayCall
  <2>2. Cardinality(pool') < MaxPoolSize
    BY <1>2 DEF CreateNew, HasRoom
  <2>3. Creating' \in SUBSET Clients
    BY DEF Creating
  <2>4. Cardinality(Creating') <= Cardinality(Clients) /\ Cardinality(Creating') \in Nat
    BY <2>3, Counts, FS_Subset, FS_CardinalityType
  <2>5. Cardinality(pool') \in Nat
    BY SessionsAssumption, FS_Subset, FS_CardinalityType DEF TypeOK
  <2> QED
    BY <2>1, <2>2, <2>4, <2>5, <1>t, Counts DEF CapInv, CapacityBound, InitPhase
<1>3. ASSUME NEW c \in Clients, CreateDone(c) PROVE CapInv'
  <2>1. PICK s \in Sessions : pool' = pool \cup {s}
    BY <1>3 DEF CreateDone
  <2>2. Cardinality(pool') <= Cardinality(pool) + 1 /\ Cardinality(pool') \in Nat
    BY <2>1, PoolGrows
  <2>3. c \in Creating /\ Creating' = Creating \ {c} /\ initPending' = initPending
    BY <1>3, <1>t DEF CreateDone, Creating
  <2>4. Cardinality(Creating') = Cardinality(Creating) - 1
    BY <2>3, Counts, FS_RemoveElement
  <2>5. initPending = 0
    BY <2>3, <1>t DEF CapInv, InitPhase
  <2> QED
    BY <2>2, <2>3, <2>4, <2>5, <1>t, Counts DEF CapInv, CapacityBound, InitPhase
<1>4. ASSUME ~ InitCreated, \A c \in Clients : ~ CreateNew(c) /\ ~ CreateDone(c)
      PROVE  pool' \subseteq pool /\ Creating' \subseteq Creating /\ initPending' <= initPending
  <2> USE <1>t DEF Creating, poolVars
  <2>1. CASE InitFails \/ CleanupTick \/ CloseStart
    BY <2>1 DEF InitFails, CleanupTick, CloseStart, ClearPool
  <2>2. ASSUME NEW c \in Clients, Reuse(c) \/ Enqueue(c) \/ CreateFails(c) \/ Timeout(c)
        PROVE  pool' \subseteq pool /\ Creating' \subseteq Creating /\ initPending' <= initPending
    BY <2>2 DEF Reuse, Enqueue, CreateFails, Timeout, PoolLeft
  <2>3. ASSUME NEW c \in Clients, ReleaseForeign(c) \/ ReleaseToIdle(c) \/ ReleaseToWaiter(c)
        PROVE  pool' \subseteq pool /\ Creating' \subseteq Creating /\ initPending' <= initPending
    BY <2>3 DEF ReleaseForeign, ReleaseToIdle, ReleaseToWaiter
  <2>4. ASSUME NEW s \in Sessions, Lose(s) \/ Cleaned(s) \/ CloseSession(s)
        PROVE  pool' \subseteq pool /\ Creating' \subseteq Creating /\ initPending' <= initPending
    BY <2>4 DEF Lose, Cleaned, CloseSession, ClearPool
  <2>5. CASE UNCHANGED vars
    BY <2>5 DEF vars
  <2> QED
    BY <1>4, <2>1, <2>2, <2>3, <2>4, <2>5 DEF Next
<1> QED
  BY <1>1, <1>2, <1>3, <1>4, CapShrinks

\* Whatever happens, the sessions in the pool and those being created number
\* less than maxPoolSize plus the number of callers (BaseSessionPool.ts:257).
THEOREM Capacity == Spec => []CapacityBound
<1>1. Init => TypeOK /\ CapInv
  BY TypeInit, CapInit
<1>2. TypeOK /\ CapInv /\ [Next]_vars => TypeOK' /\ CapInv'
  BY TypeNext, CapNext
<1>3. CapInv => CapacityBound
  BY DEF CapInv
<1> QED
  BY <1>1, <1>2, <1>3, PTL DEF Spec

-----------------------------------------------------------------------------
(* The entries of the wait queue *)

\* A step that keeps the queue and moves only clients that do not wait.
LEMMA WaitersKeep ==
    ASSUME NEW States, PoolTypes(States), WaitersWait, waitQueue' = waitQueue,
           \A c \in Clients : pc[c] = "waiting" => pc'[c] = "waiting"
    PROVE  WaitersWait'
<1>1. \A i \in DOMAIN waitQueue : waitQueue[i] # Expired => waitQueue[i] \in Clients
  BY LenProperties, ElementOfSeq DEF PoolTypes
<1> QED
  BY <1>1 DEF WaitersWait

\* Every action keeps waitQueue and the waiting callers in step
\* (BaseSessionPool.ts:279-298, 317-323).
LEMMA WaitersNext ==
    ASSUME NEW States, PcState \subseteq States, PoolTypes(States), WaitersWait, [Next]_vars
    PROVE  WaitersWait'
<1>t. /\ pc \in [Clients -> States]
      /\ waitQueue \in Seq(Clients \cup {Expired})
      /\ DOMAIN waitQueue = 1..Len(waitQueue) /\ Len(waitQueue) \in Nat
      /\ \A i \in DOMAIN waitQueue : waitQueue[i] \in Clients \cup {Expired}
  BY LenProperties, ElementOfSeq DEF PoolTypes
<1>1. ASSUME NEW c \in Clients, Enqueue(c) PROVE WaitersWait'
  <2>1. waitQueue' = Append(waitQueue, c) /\ pc[c] = "out" /\ pc' = [pc EXCEPT ![c] = "waiting"]
    BY <1>1 DEF Enqueue, MayCall
  <2>2. /\ DOMAIN waitQueue' = 1..(Len(waitQueue) + 1)
        /\ \A i \in 1..Len(waitQueue) : waitQueue'[i] = waitQueue[i]
        /\ waitQueue'[Len(waitQueue) + 1] = c
    BY <2>1, <1>t, AppendProperties, LenProperties
  <2>3. \A i \in DOMAIN waitQueue : waitQueue[i] # c
    BY <2>1, MarkersAssumption DEF WaitersWait
  <2>4. c # Expired
    BY MarkersAssumption
  <2> QED
    BY <2>1, <2>2, <2>3, <2>4, <1>t DEF WaitersWait
<1>2. ASSUME NEW c \in Clients, Timeout(c) PROVE WaitersWait'
  <2>1. /\ pc' = [pc EXCEPT ![c] = "out"]
        /\ waitQueue' = [i \in DOMAIN waitQueue |->
                            IF waitQueue[i] = c THEN Expired ELSE waitQueue[i]]
    BY <1>2 DEF Timeout
  <2> QED
    BY <2>1, <1>t DEF WaitersWait
<1>3. ASSUME NEW c \in Clients, ReleaseToWaiter(c) PROVE WaitersWait'
  <2>1. /\ waitQueue # <<>> /\ waitQueue' = Tail(waitQueue) /\ pc[c] = "using"
        /\ \/ Head(waitQueue) # Expired /\ pc' = [pc EXCEPT ![c] = "out", ![Head(waitQueue)] = "using"]
           \/ Head(waitQueue) = Expired /\ pc' = [pc EXCEPT ![c] = "out"]
    BY <1>3 DEF ReleaseToWaiter, NobodyWaits, WaitersLeft
  <2>2. /\ DOMAIN waitQueue' = 1..(Len(waitQueue) - 1)
        /\ \A i \in 1..(Len(waitQueue) - 1) : waitQueue'[i] = waitQueue[i + 1]
        /\ Head(waitQueue) = waitQueue[1] /\ 1 \in DOMAIN waitQueue
    BY <2>1, <1>t, HeadTailProperties, LenProperties, EmptySeq
  <2>3. ASSUME NEW i \in DOMAIN waitQueue', waitQueue'[i] # Expired
        PROVE  pc'[waitQueue'[i]] = "waiting"
    <3>1. i + 1 \in DOMAIN waitQueue /\ i + 1 # 1 /\ waitQueue'[i] = waitQueue[i + 1]
      BY <2>2, <1>t
    <3>2. waitQueue[i + 1] # c /\ waitQueue[i + 1] # waitQueue[1] /\ pc[waitQueue[i + 1]] = "waiting"
      BY <2>1, <2>2, <2>3, <3>1 DEF WaitersWait
    <3> QED
      BY <2>1, <2>2, <2>3, <3>1, <3>2, <1>t
  <2>4. ASSUME NEW i \in DOMAIN waitQueue', waitQueue'[i] # Expired,
               NEW j \in DOMAIN waitQueue', waitQueue'[j] = waitQueue'[i]
        PROVE  i = j
    <3>1. /\ i + 1 \in DOMAIN waitQueue /\ waitQueue'[i] = waitQueue[i + 1]
          /\ j + 1 \in DOMAIN waitQueue /\ waitQueue'[j] = waitQueue[j + 1]
      BY <2>2, <1>t
    <3>2. i + 1 = j + 1
      BY <2>4, <3>1 DEF WaitersWait
    <3> QED
      BY <3>2, <2>2, <1>t
  <2> QED
    BY <2>3, <2>4 DEF WaitersWait
<1>4. ASSUME waitQueue' = <<>> PROVE WaitersWait'
  BY <1>4 DEF WaitersWait
<1>5. ASSUME NEW c \in Clients, Reuse(c) \/ CreateNew(c) \/ CreateDone(c) \/ CreateFails(c)
      PROVE  WaitersWait'
  BY <1>5, <1>t, WaitersKeep DEF Reuse, CreateNew, CreateDone, CreateFails, MayCall, poolVars
<1>6. ASSUME NEW c \in Clients, ReleaseForeign(c) \/ ReleaseToIdle(c) PROVE WaitersWait'
  BY <1>6, <1>t, WaitersKeep DEF ReleaseForeign, ReleaseToIdle, poolVars
<1>7. ASSUME NEW s \in Sessions, Lose(s) \/ Cleaned(s) \/ CloseSession(s) PROVE WaitersWait'
  BY <1>4, <1>7, WaitersKeep DEF Lose, Cleaned, CloseSession, ClearPool, poolVars
<1>8. CASE InitCreated \/ InitFails \/ CleanupTick \/ CloseStart
  BY <1>4, <1>8, WaitersKeep DEF InitCreated, InitFails, CleanupTick, CloseStart, ClearPool, poolVars
<1>9. CASE UNCHANGED vars
  BY <1>9, WaitersKeep DEF vars, poolVars
<1> QED
  BY <1>1, <1>2, <1>3, <1>5, <1>6, <1>7, <1>8, <1>9 DEF Next

\* In a pool whose clients do nothing else.
LEMMA WaitersStep == TypeOK /\ WaitersWait /\ [Next]_vars => WaitersWait'
<1>1. TypeOK => PoolTypes(PcState)
  BY DEF TypeOK, PoolTypes
<1> QED
  BY <1>1, WaitersNext

\* Whatever happens, a live waitQueue entry is the only one of a caller that
\* waits (BaseSessionPool.ts:293, 317-323).
THEOREM Waiters == Spec => []WaitersWait
<1>1. Init => WaitersWait
  BY DEF Init, WaitersWait
<1> QED
  BY <1>1, TypeInit, TypeNext, WaitersStep, PTL DEF Spec

-----------------------------------------------------------------------------
(* No open connection is forgotten *)

\* Only close() has its own close() calls in flight.
PooledInv == OpenIsPooled /\ (closing # {} => phase = "closing")

\* Every action keeps the open sessions in the pool: what leaves it is closed,
\* or close() has begun (BaseSessionPool.ts:163, 250, 356, 478).
LEMMA PooledNext ==
    ASSUME conn \in [Sessions -> ConnState], PooledInv, [Next]_vars
    PROVE  PooledInv'
<1> USE DEF PooledInv, OpenIsPooled, IsOpen
<1>1. CASE InitCreated
  BY <1>1 DEF InitCreated
<1>2. CASE InitFails
  BY <1>2 DEF InitFails, poolVars
<1>3. ASSUME NEW c \in Clients, Reuse(c) \/ CreateNew(c) \/ Enqueue(c) PROVE PooledInv'
  BY <1>3 DEF Reuse, CreateNew, Enqueue, PoolLeft, StaleHead
<1>4. ASSUME NEW c \in Clients, CreateDone(c) PROVE PooledInv'
  BY <1>4 DEF CreateDone
<1>5. ASSUME NEW c \in Clients, CreateFails(c) \/ Timeout(c) PROVE PooledInv'
  BY <1>5 DEF CreateFails, Timeout, poolVars
<1>6. ASSUME NEW c \in Clients, Release(c) PROVE PooledInv'
  BY <1>6 DEF Release, ReleaseForeign, ReleaseToIdle, ReleaseToWaiter, poolVars
<1>7. ASSUME NEW s \in Sessions, Lose(s) PROVE PooledInv'
  BY <1>7 DEF Lose, poolVars
<1>8. ASSUME NEW s \in Sessions, Cleaned(s) PROVE PooledInv'
  BY <1>8 DEF Cleaned, CloseReturns
<1>9. ASSUME NEW s \in Sessions, CloseSession(s) PROVE PooledInv'
  BY <1>9 DEF CloseSession, CloseReturns, ClearPool, poolVars
<1>10. CASE CleanupTick
  BY <1>10 DEF CleanupTick, poolVars
<1>11. CASE CloseStart
  BY <1>11 DEF CloseStart, ClearPool, poolVars
<1>12. CASE UNCHANGED vars
  BY <1>12 DEF vars, poolVars
<1> QED
  BY <1>1, <1>2, <1>3, <1>4, <1>5, <1>6, <1>7, <1>8, <1>9, <1>10, <1>11, <1>12
  DEF Next, Release

\* Until close() is called, every open connection is in the pool, where the
\* cleanup and close() find it (BaseSessionPool.ts:163, 250, 356).
THEOREM Pooled == Spec => []OpenIsPooled
<1>1. Init => PooledInv
  BY DEF Init, PooledInv, OpenIsPooled, IsOpen
<1>2. TypeOK /\ PooledInv /\ [Next]_vars => PooledInv'
  BY PooledNext DEF TypeOK
<1>3. PooledInv => OpenIsPooled
  BY DEF PooledInv
<1> QED
  BY <1>1, <1>2, <1>3, TypeInit, TypeNext, PTL DEF Spec

-----------------------------------------------------------------------------
(* An undisturbed pool *)

\* Every session in the pool is open, and what is idle or held is in it.
SessionsUp ==
    /\ closing = {}
    /\ \A s \in Sessions : cleaning[s] = 0
    /\ \A s \in pool : conn[s] = "open"
    /\ \A i \in 1..Len(idle) : idle[i] \in pool
    /\ \A c \in Using : holds[c] \in pool
    /\ initPending > 0 => waitQueue = <<>>

UpInv == TypeOK /\ WaitersWait /\ SessionsUp /\ NothingWasted /\ PermitsAddUp

\* The inductive invariant: all of it, until the pool is disturbed.
QuietInv == TypeOK /\ WaitersWait /\ (Undisturbed => UpInv)

\* The actions left, with what they come down to.
LEMMA QuietHead ==
    ASSUME TypeOK, SessionsUp
    PROVE  /\ ~ StaleHead
           /\ NoneReady => idle = <<>>
           /\ IdleLeft = idle /\ PoolLeft = pool
<1>1. ASSUME idle # <<>> PROVE Head(idle) \in pool
  <2>1. 1 \in 1..Len(idle) /\ Head(idle) = idle[1]
    BY <1>1, LenProperties, EmptySeq, HeadTailProperties DEF TypeOK
  <2> QED
    BY <2>1 DEF SessionsUp
<1>2. ~ StaleHead
  BY <1>1 DEF StaleHead, IsOpen, SessionsUp
<1> QED
  BY <1>2 DEF IdleLeft, PoolLeft, NoneReady

\* The cleanup marks at least one session, so the pool is disturbed by it.
LEMMA TickDisturbs == ASSUME idle \in Seq(Sessions), CleanupTick PROVE ~ Undisturbed'
<1>1. PICK R \in (SUBSET ToSet(idle)) \ {{}} :
          cleaning' = [s \in Sessions |->
                          IF s \in R
                            THEN Cardinality({i \in DOMAIN idle : idle[i] = s})
                            ELSE 0]
  BY DEF CleanupTick
<1>2. PICK s \in R : s \in ToSet(idle)
  BY <1>1
<1>3. DOMAIN idle = 1..Len(idle) /\ Len(idle) \in Nat /\ s \in Sessions
  BY <1>2, LenProperties, ElementOfSeq DEF ToSet
<1> DEFINE Places == {i \in DOMAIN idle : idle[i] = s}
<1>4. IsFiniteSet(Places)
  <2>1. IsFiniteSet(1..Len(idle))
    BY <1>3, FS_Interval
  <2>2. Places \in SUBSET (1..Len(idle))
    BY <1>3
  <2> QED
    BY <2>1, <2>2, FS_Subset
<1>5. Places # {}
  BY <1>2 DEF ToSet
<1>6. Cardinality(Places) # 0
  BY <1>4, <1>5, FS_EmptySet
<1>7. cleaning'[s] = Cardinality(Places)
  BY <1>1, <1>2, <1>3
<1> QED
  BY <1>3, <1>6, <1>7 DEF Undisturbed

\* Nothing undoes a disturbance: a closed connection object stays closed, a
\* cleanup ends with one, and a closed pool stays closed.
LEMMA NeverUndone ==
    ASSUME NEW States, PoolTypes(States), [Next]_vars, Undisturbed' PROVE Undisturbed
<1>t. /\ conn \in [Sessions -> ConnState] /\ cleaning \in [Sessions -> Nat]
      /\ idle \in Seq(Sessions)
  BY DEF PoolTypes
<1> USE <1>t DEF Undisturbed
<1>1. CASE InitCreated
  BY <1>1 DEF InitCreated, Fresh
<1>2. CASE InitFails
  BY <1>2 DEF InitFails
<1>3. ASSUME NEW c \in Clients, Reuse(c) \/ CreateNew(c) \/ Enqueue(c) PROVE Undisturbed
  BY <1>3 DEF Reuse, CreateNew, Enqueue
<1>4. ASSUME NEW c \in Clients, CreateDone(c) PROVE Undisturbed
  BY <1>4 DEF CreateDone, Fresh
<1>5. ASSUME NEW c \in Clients, CreateFails(c) \/ Timeout(c) \/ Release(c) PROVE Undisturbed
  BY <1>5 DEF CreateFails, Timeout, Release, ReleaseForeign, ReleaseToIdle, ReleaseToWaiter
<1>6. ASSUME NEW s \in Sessions, Lose(s) \/ Cleaned(s) \/ CloseSession(s) PROVE FALSE
  BY <1>6 DEF Lose, Cleaned, CloseSession, CloseReturns
<1>7. CASE CleanupTick
  BY <1>7, TickDisturbs
<1>8. CASE CloseStart
  BY <1>8 DEF CloseStart, ClearPool
<1>9. CASE UNCHANGED vars
  BY <1>9 DEF vars
<1> QED
  BY <1>1, <1>2, <1>3, <1>4, <1>5, <1>6, <1>7, <1>8, <1>9 DEF Next, Release

LEMMA StaysUndisturbed ==
    ASSUME TypeOK, [Next]_vars, Undisturbed' PROVE Undisturbed
<1>1. PoolTypes(PcState)
  BY DEF TypeOK, PoolTypes
<1> QED
  BY <1>1, NeverUndone

\* A step that leaves the pool undisturbed is none of loss, cleanup and close,
\* nor the release of a session the pool does not own (BaseSessionPool.ts:307).
LEMMA QuietActions ==
    ASSUME Undisturbed', SessionsUp, TypeOK
    PROVE  /\ ~ CleanupTick /\ ~ CloseStart
           /\ \A s \in Sessions : ~ Lose(s) /\ ~ Cleaned(s) /\ ~ CloseSession(s)
           /\ \A c \in Clients : ~ ReleaseForeign(c)
<1>1. ~ CleanupTick
  BY TickDisturbs DEF TypeOK
<1>2. ~ CloseStart
  BY DEF CloseStart, ClearPool, Undisturbed
<1>3. \A s \in Sessions : ~ Lose(s) /\ ~ Cleaned(s) /\ ~ CloseSession(s)
  BY DEF Lose, Cleaned, CloseSession, CloseReturns, Undisturbed, TypeOK
<1>4. \A c \in Clients : ~ ReleaseForeign(c)
  BY DEF SessionsUp, ReleaseForeign, Using
<1> QED
  BY <1>1, <1>2, <1>3, <1>4

\* The invariant of an undisturbed pool holds initially.
LEMMA UpInit == Init => UpInv
<1> SUFFICES ASSUME Init PROVE UpInv
  OBVIOUS
<1>1. TypeOK
  BY TypeInit
<1>2. WaitersWait /\ SessionsUp /\ NothingWasted
  BY EmptySeq DEF Init, WaitersWait, SessionsUp, NothingWasted, Using
<1>3. Len(idle) = 0 /\ Using = {} /\ leaked = 0 /\ pool = {}
  BY EmptySeq DEF Init, Using
<1> QED
  BY <1>1, <1>2, <1>3, FS_EmptySet DEF UpInv, PermitsAddUp

\* A client starts or ends its use of a session.
LEMMA UsingCounts ==
    ASSUME TypeOK, NEW c \in Clients
    PROVE  /\ Cardinality(Using \cup {c}) =
                  IF c \in Using THEN Cardinality(Using) ELSE Cardinality(Using) + 1
           /\ Cardinality(Using \ {c}) =
                  IF c \in Using THEN Cardinality(Using) - 1 ELSE Cardinality(Using)
  BY Counts, FS_AddElement, FS_RemoveElement

\* One client hands its session to another.
LEMMA UsingSwap ==
    ASSUME TypeOK, NEW c \in Using, NEW d \in Clients \ Using
    PROVE  Cardinality((Using \ {c}) \cup {d}) = Cardinality(Using)
<1>1. IsFiniteSet(Using \ {c}) /\ Cardinality(Using \ {c}) = Cardinality(Using) - 1
  BY Counts, FS_RemoveElement
<1>2. Cardinality((Using \ {c}) \cup {d}) = Cardinality(Using \ {c}) + 1
  BY <1>1, FS_AddElement
<1> QED
  BY <1>1, <1>2, Counts

\* Every action of getSession and releaseSession keeps it
\* (BaseSessionPool.ts:230-333).
LEMMA UpNext ==
    ASSUME Undisturbed', UpInv, TypeOK', WaitersWait', [Next]_vars
    PROVE  UpInv'
<1> SUFFICES SessionsUp' /\ NothingWasted' /\ PermitsAddUp'
  BY DEF UpInv
<1>t. /\ TypeOK /\ WaitersWait /\ SessionsUp /\ NothingWasted /\ PermitsAddUp
      /\ pc \in [Clients -> PcState] /\ conn \in [Sessions -> ConnState]
      /\ holds \in [Clients -> Sessions \cup {NoSession}]
      /\ idle \in Seq(Sessions) /\ Len(idle) \in Nat
      /\ DOMAIN idle = 1..Len(idle)
      /\ waitQueue \in Seq(Clients \cup {Expired})
      /\ leaked \in Nat /\ MaxPoolSize \in Nat \ {0}
      /\ pool \in SUBSET Sessions
  BY SizesAssumption, LenProperties DEF UpInv, TypeOK
<1>c. Cardinality(pool) \in Nat /\ Cardinality(Using) \in Nat
  BY <1>t, Counts
<1>1. CASE InitCreated
  <2>1. PICK s \in Sessions :
            /\ conn[s] = "none" /\ conn' = [conn EXCEPT ![s] = "open"]
            /\ pool' = pool \cup {s} /\ idle' = Append(idle, s)
    BY <1>1 DEF InitCreated, Fresh
  <2>2. s \notin pool /\ Cardinality(pool') = Cardinality(pool) + 1
    BY <2>1, <1>t, PoolGrows DEF SessionsUp
  <2>3. /\ UNCHANGED <<waitQueue, cleaning, closing, pc, holds, leaked>> /\ Using' = Using
        /\ waitQueue = <<>>
    BY <1>1, <1>t DEF InitCreated, Using, SessionsUp
  <2>4. /\ Len(idle') = Len(idle) + 1
        /\ \A i \in 1..Len(idle) : idle'[i] = idle[i]
        /\ idle'[Len(idle) + 1] = s
    BY <2>1, <1>t, AppendProperties
  <2>5. SessionsUp'
    BY <2>1, <2>3, <2>4, <1>t DEF SessionsUp
  <2>6. PermitsAddUp'
    BY <2>2, <2>3, <2>4, <1>t, <1>c DEF PermitsAddUp
  <2> QED
    BY <2>3, <2>5, <2>6 DEF NothingWasted
<1>2. CASE InitFails
  <2>1. UNCHANGED <<poolVars, conn, cleaning, closing, pc, holds, leaked>>
        /\ (initPending' > 0 => initPending > 0)
    BY <1>2, SizesAssumption DEF InitFails, UpInv, TypeOK
  <2>2. Using' = Using
    BY <2>1 DEF Using
  <2> QED
    BY <2>1, <2>2, <1>t DEF poolVars, SessionsUp, NothingWasted, PermitsAddUp
<1>3. ASSUME NEW c \in Clients, Reuse(c)
      PROVE  SessionsUp' /\ NothingWasted' /\ PermitsAddUp'
  <2>1. /\ idle # <<>> /\ idle' = Tail(idle) /\ pc[c] = "out"
        /\ pc' = [pc EXCEPT ![c] = "using"] /\ holds' = [holds EXCEPT ![c] = Head(idle)]
        /\ UNCHANGED <<pool, waitQueue, conn, cleaning, closing, leaked, initPending>>
    BY <1>3 DEF Reuse, MayCall, IdleRest
  <2>2. /\ Len(idle') = Len(idle) - 1
        /\ \A i \in 1..Len(idle') : idle'[i] = idle[i + 1]
        /\ Head(idle) = idle[1] /\ 1 \in 1..Len(idle)
    BY <2>1, <1>t, HeadTailProperties, EmptySeq
  <2>3. c \notin Using /\ Using' = Using \cup {c}
    BY <2>1, <1>t DEF Using
  <2>4. SessionsUp'
    <3>1. \A i \in 1..Len(idle') : idle'[i] \in pool
      BY <2>2, <1>t DEF SessionsUp
    <3>2. \A d \in Using' : holds'[d] \in pool
      BY <2>1, <2>2, <2>3, <1>t DEF SessionsUp, Using
    <3> QED
      BY <2>1, <3>1, <3>2, <1>t DEF SessionsUp
  <2>5. PermitsAddUp'
    BY <2>1, <2>2, <2>3, <1>t, <1>c, UsingCounts DEF PermitsAddUp
  <2> QED
    BY <2>1, <2>4, <2>5, <1>t DEF NothingWasted
<1>4. ASSUME NEW c \in Clients, CreateNew(c)
      PROVE  SessionsUp' /\ NothingWasted' /\ PermitsAddUp'
  <2>1. /\ pc[c] = "out" /\ pc' = [pc EXCEPT ![c] = "creating"]
        /\ UNCHANGED <<pool, idle, waitQueue, conn, cleaning, closing, holds, leaked, initPending>>
    BY <1>4, <1>t, QuietHead DEF CreateNew, MayCall
  <2>2. Using' = Using
    BY <2>1, <1>t DEF Using
  <2> QED
    BY <2>1, <2>2, <1>t DEF SessionsUp, NothingWasted, PermitsAddUp
<1>5. ASSUME NEW c \in Clients, Enqueue(c)
      PROVE  SessionsUp' /\ NothingWasted' /\ PermitsAddUp'
  <2>1. /\ pc[c] = "out" /\ pc' = [pc EXCEPT ![c] = "waiting"] /\ initPending = 0
        /\ idle = <<>> /\ ~ HasRoom(pool)
        /\ UNCHANGED <<pool, idle, conn, cleaning, closing, holds, leaked, initPending>>
    BY <1>5, <1>t, QuietHead DEF Enqueue, MayCall
  <2>2. Using' = Using
    BY <2>1, <1>t DEF Using
  <2> QED
    BY <2>1, <2>2, <1>t, <1>c DEF SessionsUp, NothingWasted, PermitsAddUp, HasRoom
<1>6. ASSUME NEW c \in Clients, CreateDone(c)
      PROVE  SessionsUp' /\ NothingWasted' /\ PermitsAddUp'
  <2>1. PICK s \in Sessions :
            /\ conn[s] = "none" /\ conn' = [conn EXCEPT ![s] = "open"]
            /\ pool' = pool \cup {s} /\ idle' = Tail(Append(idle, s))
            /\ holds' = [holds EXCEPT ![c] = s]
    BY <1>6 DEF CreateDone, Fresh, AfterCreate
  <2>2. /\ pc[c] = "creating" /\ pc' = [pc EXCEPT ![c] = "using"]
        /\ UNCHANGED <<waitQueue, cleaning, closing, leaked, initPending>>
    BY <1>6 DEF CreateDone
  <2>3. s \notin pool /\ Cardinality(pool') = Cardinality(pool) + 1
    BY <2>1, <1>t, PoolGrows DEF SessionsUp
  <2>4. c \notin Using /\ Using' = Using \cup {c}
    BY <2>2, <1>t DEF Using
  <2>5. /\ Len(idle') = Len(idle)
        /\ idle = <<>> => idle' = <<>>
        /\ \A i \in 1..Len(idle') : idle'[i] \in pool'
    BY <2>1, <1>t, AppendShift DEF SessionsUp
  <2>6. SessionsUp'
    <3>1. \A d \in Using' : holds'[d] \in pool'
      BY <2>1, <2>2, <2>4, <1>t DEF SessionsUp, Using
    <3>2. \A r \in pool' : conn'[r] = "open"
      BY <2>1, <1>t DEF SessionsUp
    <3> QED
      BY <2>2, <2>5, <3>1, <3>2, <1>t DEF SessionsUp
  <2>7. PermitsAddUp'
    BY <2>2, <2>3, <2>4, <2>5, <1>t, <1>c, UsingCounts DEF PermitsAddUp
  <2> QED
    BY <2>2, <2>3, <2>5, <2>6, <2>7, <1>t, <1>c DEF NothingWasted
<1>7. ASSUME NEW c \in Clients, CreateFails(c)
      PROVE  SessionsUp' /\ NothingWasted' /\ PermitsAddUp'
  <2>1. /\ pc[c] = "creating" /\ pc' = [pc EXCEPT ![c] = "out"]
        /\ UNCHANGED <<poolVars, conn, cleaning, closing, holds, leaked, initPending>>
    BY <1>7 DEF CreateFails
  <2>2. Using' = Using
    BY <2>1, <1>t DEF Using
  <2> QED
    BY <2>1, <2>2, <1>t DEF poolVars, SessionsUp, NothingWasted, PermitsAddUp
<1>8. ASSUME NEW c \in Clients, Timeout(c)
      PROVE  SessionsUp' /\ NothingWasted' /\ PermitsAddUp'
  <2>1. /\ pc[c] = "waiting" /\ pc' = [pc EXCEPT ![c] = "out"]
        /\ DOMAIN waitQueue' = DOMAIN waitQueue
        /\ UNCHANGED <<pool, idle, conn, cleaning, closing, holds, leaked, initPending>>
    BY <1>8 DEF Timeout, TimerArmed
  <2>2. waitQueue' # <<>> => waitQueue # <<>>
    <3>1. waitQueue' \in Seq(Clients \cup {Expired})
      BY DEF TypeOK
    <3>2. Len(waitQueue') = Len(waitQueue)
      BY <2>1, <3>1, <1>t, LenProperties
    <3> QED
      BY <3>1, <3>2, <1>t, EmptySeq
  <2>3. Using' = Using
    BY <2>1, <1>t DEF Using
  <2> QED
    BY <2>1, <2>2, <2>3, <1>t DEF SessionsUp, NothingWasted, PermitsAddUp
<1>9. ASSUME NEW c \in Clients, ReleaseToIdle(c)
      PROVE  SessionsUp' /\ NothingWasted' /\ PermitsAddUp'
  <2> DEFINE s == holds[c]
  <2>1. /\ pc[c] = "using" /\ pc' = [pc EXCEPT ![c] = "out"] /\ waitQueue = <<>>
        /\ s \in pool /\ idle' = Append(idle, s) /\ holds' = [holds EXCEPT ![c] = NoSession]
        /\ UNCHANGED <<pool, waitQueue, conn, cleaning, closing, leaked, initPending>>
    BY <1>9 DEF ReleaseToIdle, NobodyWaits
  <2> HIDE DEF s
  <2>2. /\ Len(idle') = Len(idle) + 1
        /\ \A i \in 1..Len(idle) : idle'[i] = idle[i]
        /\ idle'[Len(idle) + 1] = s
    BY <2>1, <1>t, AppendProperties
  <2>3. c \in Using /\ Using' = Using \ {c}
    BY <2>1, <1>t DEF Using
  <2>4. SessionsUp'
    <3>1. \A d \in Using' : holds'[d] \in pool
      BY <2>1, <2>3, <1>t DEF SessionsUp, Using
    <3>2. \A i \in 1..Len(idle') : idle'[i] \in pool
      BY <2>1, <2>2, <1>t DEF SessionsUp
    <3> QED
      BY <2>1, <3>1, <3>2, <1>t DEF SessionsUp
  <2>5. PermitsAddUp'
    BY <2>1, <2>2, <2>3, <1>t, <1>c, UsingCounts DEF PermitsAddUp
  <2> QED
    BY <2>1, <2>4, <2>5 DEF NothingWasted
<1>10. ASSUME NEW c \in Clients, ReleaseToWaiter(c)
       PROVE  SessionsUp' /\ NothingWasted' /\ PermitsAddUp'
  <2> DEFINE d == Head(waitQueue)
  <2>1. /\ pc[c] = "using" /\ holds[c] \in pool /\ waitQueue # <<>>
        /\ UNCHANGED <<pool, idle, conn, cleaning, closing, initPending>>
    BY <1>10 DEF ReleaseToWaiter, NobodyWaits
  <2>2. NothingWasted'
    BY <2>1, <1>t DEF NothingWasted
  <2>3. d \in Clients \cup {Expired} /\ d = waitQueue[1] /\ 1 \in DOMAIN waitQueue
    BY <2>1, <1>t, HeadTailProperties, LenProperties, EmptySeq
  <2>4. initPending = 0
    BY <2>1, <1>t, SizesAssumption DEF SessionsUp, UpInv, TypeOK
  <2>5. CASE d = Expired
    <3>1. /\ pc' = [pc EXCEPT ![c] = "out"] /\ holds' = [holds EXCEPT ![c] = NoSession]
          /\ leaked' = leaked + 1
      BY <1>10, <2>5 DEF ReleaseToWaiter
    <3>2. c \in Using /\ Using' = Using \ {c}
      BY <2>1, <3>1, <1>t DEF Using
    <3>3. SessionsUp'
      BY <2>1, <2>4, <3>1, <3>2, <1>t DEF SessionsUp, Using
    <3>4. Cardinality(Using') = Cardinality(Using) - 1
      BY <3>2, <1>t, UsingCounts
    <3>5. PermitsAddUp'
      <4>1. idle' = idle /\ pool' = pool /\ leaked' = leaked + 1
        BY <2>1, <3>1
      <4>2. Len(idle) + Cardinality(Using) + leaked = Cardinality(pool)
        BY <1>t DEF PermitsAddUp
      <4>3. Len(idle) + Cardinality(Using') + (leaked + 1) = Cardinality(pool)
        BY <4>2, <3>4, <1>t, <1>c
      <4> QED
        BY <4>1, <4>3 DEF PermitsAddUp
    <3> QED
      BY <2>2, <3>3, <3>5
  <2>6. CASE d # Expired
    <3>1. d \in Clients /\ pc[d] = "waiting"
      BY <2>3, <2>6, <1>t DEF WaitersWait
    <3>2. /\ pc' = [pc EXCEPT ![c] = "out", ![d] = "using"]
          /\ holds' = [holds EXCEPT ![c] = NoSession, ![d] = holds[c]]
          /\ leaked' = leaked
      BY <1>10, <2>6 DEF ReleaseToWaiter
    <3> HIDE DEF d
    <3>3. d # c /\ c \in Using /\ d \notin Using /\ Using' = (Using \ {c}) \cup {d}
      BY <2>1, <3>1, <3>2, <1>t DEF Using
    <3>4. Cardinality(Using') = Cardinality(Using)
      BY <3>1, <3>3, <1>t, UsingSwap
    <3>5. \A e \in Using' : holds'[e] \in pool
      BY <2>1, <3>1, <3>2, <3>3, <1>t DEF SessionsUp, Using
    <3>6. SessionsUp'
      BY <2>1, <2>4, <3>5, <1>t DEF SessionsUp
    <3>7. PermitsAddUp'
      BY <2>1, <3>2, <3>4, <1>t DEF PermitsAddUp
    <3> QED
      BY <2>2, <3>6, <3>7
  <2> QED
    BY <2>5, <2>6
<1>11. CASE UNCHANGED vars
  <2>1. Using' = Using
    BY <1>11 DEF vars, Using
  <2> QED
    BY <1>11, <2>1, <1>t DEF vars, poolVars, SessionsUp, NothingWasted, PermitsAddUp
<1> QED
  BY <1>1, <1>2, <1>3, <1>4, <1>5, <1>6, <1>7, <1>8, <1>9, <1>10, <1>11, <1>t, QuietActions
  DEF Next

\* The invariant is inductive: it may be lost only with the condition.
LEMMA QuietNext == QuietInv /\ [Next]_vars => QuietInv'
<1> SUFFICES ASSUME QuietInv, [Next]_vars PROVE QuietInv'
  OBVIOUS
<1>1. TypeOK' /\ WaitersWait'
  BY TypeNext, WaitersStep DEF QuietInv
<1>2. ASSUME Undisturbed' PROVE UpInv'
  BY <1>1, <1>2, StaysUndisturbed, UpNext DEF QuietInv
<1> QED
  BY <1>1, <1>2 DEF QuietInv

\* It holds in every state.
LEMMA QuietAlways == Spec => []QuietInv
<1>1. Init => QuietInv
  BY UpInit DEF QuietInv, UpInv
<1> QED
  BY <1>1, QuietNext, PTL DEF Spec

\* Until a connection is lost, cleaned up or closed, callers wait only when
\* there is neither an idle session nor room, so no release or creation is
\* missed (BaseSessionPool.ts:317).
THEOREM Wakeup == Spec => []NoLostWakeup
<1>1. QuietInv => NoLostWakeup
  BY DEF QuietInv, UpInv, NoLostWakeup
<1> QED
  BY <1>1, QuietAlways, PTL

\* Until then, idle entries, users and leaked sessions add up to the pool, even
\* when a session has been handed out twice (BaseSessionPool.ts:264).
THEOREM Permits == Spec => []PermitsConserved
<1>1. QuietInv => PermitsConserved
  BY DEF QuietInv, UpInv, PermitsConserved
<1> QED
  BY <1>1, QuietAlways, PTL

\* While callers wait, a step moves no caller past them.
LEMMA QueueUpNext == ASSUME QuietInv, Next PROVE QueueUp
<1> SUFFICES ASSUME NEW c \in Clients, UpInv, waitQueue # <<>>, pc[c] = "out"
             PROVE  pc'[c] \in {"out", "waiting"}
  BY DEF QueueUp, QuietInv
<1>1. idle = <<>> /\ ~ HasRoom(pool) /\ pc \in [Clients -> PcState]
  BY Counts, SizesAssumption DEF UpInv, NothingWasted, HasRoom, TypeOK
<1>2. ASSUME NEW d \in Clients, Reuse(d) \/ CreateNew(d) PROVE FALSE
  BY <1>1, <1>2, QuietHead DEF UpInv, Reuse, CreateNew
<1>3. ASSUME NEW d \in Clients,
             Enqueue(d) \/ CreateDone(d) \/ CreateFails(d) \/ Timeout(d)
      PROVE  pc'[c] \in {"out", "waiting"}
  BY <1>1, <1>3 DEF Enqueue, CreateDone, CreateFails, Timeout, TimerArmed
<1>4. ASSUME NEW d \in Clients, ReleaseForeign(d) \/ ReleaseToIdle(d)
      PROVE  pc'[c] \in {"out", "waiting"}
  BY <1>1, <1>4 DEF ReleaseForeign, ReleaseToIdle
<1>5. ASSUME NEW d \in Clients, ReleaseToWaiter(d) PROVE pc'[c] \in {"out", "waiting"}
  <2>1. Head(waitQueue) # Expired => pc[Head(waitQueue)] = "waiting"
    <3>1. 1 \in DOMAIN waitQueue /\ Head(waitQueue) = waitQueue[1]
      BY LenProperties, EmptySeq, HeadTailProperties DEF UpInv, TypeOK
    <3> QED
      BY <3>1 DEF UpInv, WaitersWait
  <2> QED
    BY <1>1, <1>5, <2>1 DEF ReleaseToWaiter
<1>6. ASSUME NEW s \in Sessions, Lose(s) \/ Cleaned(s) \/ CloseSession(s)
      PROVE  pc' = pc
  BY <1>6 DEF Lose, Cleaned, CloseSession
<1>7. ASSUME InitCreated \/ InitFails \/ CleanupTick \/ CloseStart PROVE pc' = pc
  BY <1>7 DEF InitCreated, InitFails, CleanupTick, CloseStart
<1> QED
  BY <1>2, <1>3, <1>4, <1>5, <1>6, <1>7 DEF Next

\* Until then, no new caller overtakes those in the queue
\* (BaseSessionPool.ts:233-271).
THEOREM Barging == Spec => NoBarging
<1>1. QuietInv /\ [Next]_vars => [QueueUp]_vars
  BY QueueUpNext
<1> QED
  BY <1>1, QuietAlways, PTL DEF NoBarging, Spec

-----------------------------------------------------------------------------
(* An undisturbed pool of fixed size *)

\* A pool that is ready is full, so getSession never creates.
FullPool ==
    /\ phase \in {"initializing", "initFailed", "ready"}
    /\ phase = "initializing" => Cardinality(pool) + initPending = MaxPoolSize
    /\ phase = "ready" => ~ HasRoom(pool)
    /\ phase # "ready" => \A c \in Clients : pc[c] = "out"
    /\ \A c \in Clients : pc[c] # "creating"

\* No session is in two places among idle and the holders, and activeSessions
\* holds none that is idle.
Apart ==
    /\ \A i, j \in 1..Len(idle) : idle[i] = idle[j] => i = j
    /\ \A i \in 1..Len(idle) : idle[i] \notin active
    /\ active \subseteq pool
    /\ \A c \in Using : holds[c] \in active
    /\ \A c, d \in Using : holds[c] = holds[d] => c = d
    /\ Cardinality(active) = Cardinality(Using) + leaked

FixedInv == UpInv /\ FullPool /\ Apart

\* The invariant of a full pool implies what the runs check.
LEMMA FixedImplies ==
    ASSUME FixedInv PROVE Exclusive /\ ActiveExact
<1>1. idle \in Seq(Sessions)
  BY DEF FixedInv, UpInv, TypeOK
<1> QED
  BY <1>1 DEF FixedInv, Apart, Exclusive, ActiveExact, Contains

\* It holds before init() has created the first session.
LEMMA FixedInit ==
    ASSUME MinPoolSize = MaxPoolSize, Init PROVE FixedInv
<1>1. UpInv
  BY UpInit
<1>2. Len(idle) = 0 /\ Using = {} /\ leaked = 0 /\ pool = {} /\ active = {} /\ idle = <<>>
  BY EmptySeq DEF Init, Using
<1>3. FullPool
  BY <1>2, FS_EmptySet, SizesAssumption DEF Init, InitCalls, FullPool
<1> QED
  BY <1>1, <1>2, <1>3, FS_EmptySet DEF FixedInv, Apart

\* Adding a session to activeSessions, or taking one out.
LEMMA ActiveCounts ==
    ASSUME TypeOK, NEW s
    PROVE  /\ Cardinality(active) \in Nat
           /\ Cardinality(active \cup {s}) =
                  IF s \in active THEN Cardinality(active) ELSE Cardinality(active) + 1
           /\ Cardinality(active \ {s}) =
                  IF s \in active THEN Cardinality(active) - 1 ELSE Cardinality(active)
<1>1. IsFiniteSet(active)
  BY SessionsAssumption, FS_Subset DEF TypeOK
<1> QED
  BY <1>1, FS_CardinalityType, FS_AddElement, FS_RemoveElement

\* Every action keeps it: with no room, getSession only reuses or waits
\* (BaseSessionPool.ts:235-246, 293-298, 306-333).
LEMMA FixedNext ==
    ASSUME MinPoolSize = MaxPoolSize, Undisturbed', FixedInv, UpInv', [Next]_vars
    PROVE  FixedInv'
<1> SUFFICES FullPool' /\ Apart'
  BY DEF FixedInv
<1>t. /\ TypeOK /\ WaitersWait /\ SessionsUp /\ FullPool /\ Apart
      /\ pc \in [Clients -> PcState]
      /\ holds \in [Clients -> Sessions \cup {NoSession}]
      /\ idle \in Seq(Sessions) /\ Len(idle) \in Nat
      /\ waitQueue \in Seq(Clients \cup {Expired})
      /\ leaked \in Nat /\ MaxPoolSize \in Nat \ {0} /\ initPending \in Nat
      /\ active \in SUBSET Sessions
  BY SizesAssumption, LenProperties DEF FixedInv, UpInv, TypeOK
<1>c. Cardinality(pool) \in Nat /\ Cardinality(Using) \in Nat /\ Cardinality(active) \in Nat
  BY <1>t, Counts, ActiveCounts
<1>1. CASE InitCreated
  <2>1. PICK s \in Sessions :
            conn[s] = "none" /\ pool' = pool \cup {s} /\ idle' = Append(idle, s)
    BY <1>1 DEF InitCreated, Fresh
  <2>2. s \notin pool /\ Cardinality(pool') = Cardinality(pool) + 1
    BY <2>1, <1>t, PoolGrows DEF SessionsUp
  <2>3. /\ UNCHANGED <<active, pc, holds, leaked>> /\ Using' = Using
        /\ initPending > 0 /\ initPending' = initPending - 1
        /\ phase' = IF phase = "initializing" /\ initPending = 1 THEN "ready" ELSE phase
    BY <1>1 DEF InitCreated, Using
  <2>4. /\ Len(idle') = Len(idle) + 1
        /\ \A i \in 1..Len(idle) : idle'[i] = idle[i]
        /\ idle'[Len(idle) + 1] = s
    BY <2>1, <1>t, AppendProperties
  <2>5. FullPool'
    <3>1. phase' = "ready" => ~ HasRoom(pool')
      <4>1. CASE phase = "ready"
        BY <4>1, <2>2, <1>t, <1>c DEF FullPool, HasRoom
      <4>2. CASE phase # "ready"
        BY <4>2, <2>2, <2>3, <1>t, <1>c DEF FullPool, HasRoom
      <4> QED
        BY <4>1, <4>2
    <3>2. phase' = "initializing" => Cardinality(pool') + initPending' = MaxPoolSize
      BY <2>2, <2>3, <1>t, <1>c DEF FullPool
    <3> QED
      BY <2>3, <3>1, <3>2, <1>t DEF FullPool
  <2>6. s \notin active /\ \A i \in 1..Len(idle) : idle[i] # s
    BY <2>2, <1>t DEF SessionsUp, Apart
  <2>7. \A i, j \in 1..Len(idle') : idle'[i] = idle'[j] => i = j
    BY <2>4, <2>6, <1>t DEF Apart
  <2>8. \A i \in 1..Len(idle') : idle'[i] \notin active
    BY <2>4, <2>6, <1>t DEF Apart
  <2>9. Apart'
    BY <2>1, <2>3, <2>7, <2>8, <1>t DEF Apart
  <2> QED
    BY <2>5, <2>9
<1>2. CASE InitFails
  <2>1. /\ UNCHANGED <<poolVars, pc, holds, leaked>> /\ Using' = Using
        /\ phase' = IF phase = "initializing" THEN "initFailed" ELSE phase
    BY <1>2 DEF InitFails, Using
  <2> QED
    BY <2>1, <1>t DEF poolVars, FullPool, Apart, HasRoom
<1>3. ASSUME NEW c \in Clients, Reuse(c) PROVE FullPool' /\ Apart'
  <2>1. /\ idle # <<>> /\ idle' = Tail(idle) /\ pc[c] = "out"
        /\ pc' = [pc EXCEPT ![c] = "using"] /\ holds' = [holds EXCEPT ![c] = Head(idle)]
        /\ active' = active \cup {Head(idle)}
        /\ UNCHANGED <<phase, initPending, pool, leaked>>
        /\ phase = "ready"
    BY <1>3, <1>t DEF Reuse, MayCall, IdleRest, FullPool
  <2>2. /\ Len(idle') = Len(idle) - 1
        /\ \A i \in 1..Len(idle') : idle'[i] = idle[i + 1]
        /\ Head(idle) = idle[1] /\ 1 \in 1..Len(idle)
    BY <2>1, <1>t, HeadTailProperties, EmptySeq
  <2>3. c \notin Using /\ Using' = Using \cup {c}
    BY <2>1, <1>t DEF Using
  <2>4. Head(idle) \notin active /\ Head(idle) \in pool
    BY <2>2, <1>t DEF Apart, SessionsUp
  <2>5. \A i \in 1..Len(idle') : i + 1 \in 1..Len(idle) /\ i + 1 # 1
    BY <2>2, <1>t
  <2>6. \A i, j \in 1..Len(idle') : idle'[i] = idle'[j] => i = j
    BY <2>2, <2>5, <1>t DEF Apart
  <2>7. \A i \in 1..Len(idle') : idle'[i] \notin active'
    BY <2>1, <2>2, <2>5, <1>t DEF Apart
  <2>8. \A d \in Using' : holds'[d] = IF d = c THEN Head(idle) ELSE holds[d]
    BY <2>1, <2>3, <1>t DEF Using
  <2>9. Cardinality(active') = Cardinality(Using') + leaked'
    <3>1. Cardinality(active') = Cardinality(active) + 1
      BY <2>1, <2>4, <1>t, ActiveCounts
    <3>2. Cardinality(Using') = Cardinality(Using) + 1
      BY <2>3, <1>t, UsingCounts
    <3> QED
      BY <2>1, <3>1, <3>2, <1>t, <1>c DEF Apart
  <2>10. Apart'
    BY <2>1, <2>3, <2>4, <2>6, <2>7, <2>8, <2>9, <1>t DEF Apart
  <2> QED
    BY <2>1, <2>10, <1>t DEF FullPool, HasRoom
<1>4. ASSUME NEW c \in Clients, CreateNew(c) \/ CreateDone(c) \/ CreateFails(c)
      PROVE  FALSE
  BY <1>4, <1>t, QuietHead DEF CreateNew, MayCall, CreateDone, CreateFails, FullPool
<1>5. ASSUME NEW c \in Clients, Enqueue(c) PROVE FullPool' /\ Apart'
  <2>1. /\ pc[c] = "out" /\ pc' = [pc EXCEPT ![c] = "waiting"]
        /\ UNCHANGED <<phase, initPending, pool, idle, active, holds, leaked>>
        /\ phase = "ready"
    BY <1>5, <1>t, QuietHead DEF Enqueue, MayCall, FullPool
  <2>2. Using' = Using
    BY <2>1, <1>t DEF Using
  <2> QED
    BY <2>1, <2>2, <1>t DEF FullPool, Apart, HasRoom
<1>6. ASSUME NEW c \in Clients, Timeout(c) PROVE FullPool' /\ Apart'
  <2>1. /\ pc[c] = "waiting" /\ pc' = [pc EXCEPT ![c] = "out"]
        /\ UNCHANGED <<phase, initPending, pool, idle, active, holds, leaked>>
    BY <1>6 DEF Timeout, TimerArmed
  <2>2. Using' = Using
    BY <2>1, <1>t DEF Using
  <2> QED
    BY <2>1, <2>2, <1>t DEF FullPool, Apart, HasRoom
<1>7. ASSUME NEW c \in Clients, ReleaseToIdle(c) PROVE FullPool' /\ Apart'
  <2> DEFINE s == holds[c]
  <2>1. /\ pc[c] = "using" /\ pc' = [pc EXCEPT ![c] = "out"]
        /\ s \in pool /\ idle' = Append(idle, s) /\ holds' = [holds EXCEPT ![c] = NoSession]
        /\ active' = active \ {s}
        /\ UNCHANGED <<phase, initPending, pool, leaked>>
    BY <1>7 DEF ReleaseToIdle
  <2>2. c \in Using /\ Using' = Using \ {c} /\ s \in active
    BY <2>1, <1>t DEF Using, Apart
  <2>3. \A d \in Using' : holds'[d] = holds[d] /\ holds[d] # s /\ holds[d] \in active
    BY <2>1, <2>2, <1>t DEF Using, Apart
  <2> HIDE DEF s
  <2>4. /\ Len(idle') = Len(idle) + 1
        /\ \A i \in 1..Len(idle) : idle'[i] = idle[i]
        /\ idle'[Len(idle) + 1] = s
    BY <2>1, <1>t, AppendProperties
  <2>5. \A i \in 1..Len(idle) : idle[i] # s
    BY <2>2, <1>t DEF Apart
  <2>6. \A i, j \in 1..Len(idle') : idle'[i] = idle'[j] => i = j
    BY <2>4, <2>5, <1>t DEF Apart
  <2>7. \A i \in 1..Len(idle') : idle'[i] \notin active'
    BY <2>1, <2>4, <1>t DEF Apart
  <2>8. Cardinality(active') = Cardinality(Using') + leaked'
    <3>1. Cardinality(active') = Cardinality(active) - 1
      BY <2>1, <2>2, <1>t, ActiveCounts
    <3>2. Cardinality(Using') = Cardinality(Using) - 1
      BY <2>2, <1>t, UsingCounts
    <3> QED
      BY <2>1, <3>1, <3>2, <1>t, <1>c DEF Apart
  <2>9. Apart'
    BY <2>1, <2>2, <2>3, <2>6, <2>7, <2>8, <1>t DEF Apart
  <2>10. phase = "ready"
    BY <2>1, <1>t DEF FullPool
  <2> QED
    BY <2>1, <2>9, <2>10, <1>t DEF FullPool, HasRoom
<1>8. ASSUME NEW c \in Clients, ReleaseToWaiter(c) PROVE FullPool' /\ Apart'
  <2> DEFINE d == Head(waitQueue)
             s == holds[c]
  <2>1. /\ pc[c] = "using" /\ s \in pool /\ waitQueue # <<>>
        /\ active' = active \cup {s}
        /\ UNCHANGED <<phase, initPending, pool, idle>>
    BY <1>8 DEF ReleaseToWaiter, NobodyWaits, ActiveHandedOver
  <2>2. c \in Using /\ active' = active
    BY <2>1, <1>t DEF Using, Apart
  <2>3. phase = "ready"
    BY <2>1, <1>t DEF FullPool
  <2>4. d \in Clients \cup {Expired} /\ d = waitQueue[1] /\ 1 \in DOMAIN waitQueue
    BY <2>1, <1>t, HeadTailProperties, LenProperties, EmptySeq
  <2>5. Cardinality(Using) = Cardinality(active) - leaked
    BY <1>t, <1>c DEF Apart
  <2>7. CASE d = Expired
    <3>1. /\ pc' = [pc EXCEPT ![c] = "out"] /\ holds' = [holds EXCEPT ![c] = NoSession]
          /\ leaked' = leaked + 1
      BY <1>8, <2>7 DEF ReleaseToWaiter
    <3>2. Using' = Using \ {c} /\ \A e \in Using' : holds'[e] = holds[e]
      BY <2>1, <3>1, <1>t DEF Using
    <3>3. Cardinality(active') = Cardinality(Using') + leaked'
      <4>1. Cardinality(Using') = Cardinality(Using) - 1
        BY <2>2, <3>2, <1>t, UsingCounts
      <4>2. Cardinality(active) = (Cardinality(Using) - 1) + (leaked + 1)
        BY <2>5, <1>t, <1>c
      <4> QED
        BY <2>2, <3>1, <4>1, <4>2
    <3>4. Apart'
      BY <2>1, <2>2, <3>2, <3>3, <1>t DEF Apart
    <3> QED
      BY <2>1, <2>3, <3>1, <3>4, <1>t DEF FullPool, HasRoom
  <2>8. CASE d # Expired
    <3>1. d \in Clients /\ pc[d] = "waiting"
      BY <2>4, <2>8, <1>t DEF WaitersWait
    <3>2. /\ pc' = [pc EXCEPT ![c] = "out", ![d] = "using"]
          /\ holds' = [holds EXCEPT ![c] = NoSession, ![d] = s]
          /\ leaked' = leaked
      BY <1>8, <2>8 DEF ReleaseToWaiter
    <3> HIDE DEF d
    <3>3. /\ d # c /\ d \notin Using /\ Using' = (Using \ {c}) \cup {d}
          /\ \A e \in Using' : holds'[e] = IF e = d THEN s ELSE holds[e]
      BY <2>1, <3>1, <3>2, <1>t DEF Using
    <3>4. \A e \in Using \ {c} : holds[e] # s
      BY <2>2, <1>t DEF Apart
    <3>5. s \in active
      BY <2>2, <1>t DEF Apart
    <3>8. Cardinality(active') = Cardinality(Using') + leaked'
      <4>1. Cardinality(Using') = Cardinality(Using)
        BY <2>2, <3>1, <3>3, <1>t, UsingSwap
      <4> QED
        BY <2>2, <2>5, <3>2, <4>1, <1>t, <1>c
    <3> HIDE DEF s
    <3>6. Apart'
      BY <2>1, <2>2, <3>8, <3>3, <3>4, <3>5, <1>t DEF Apart
    <3>7. \A e \in Clients : pc'[e] # "creating"
      BY <3>1, <3>2, <1>t DEF FullPool
    <3> QED
      BY <2>1, <2>3, <3>6, <3>7, <1>t DEF FullPool, HasRoom
  <2> QED
    BY <2>7, <2>8
<1>9. CASE UNCHANGED vars
  <2>1. Using' = Using
    BY <1>9 DEF vars, Using
  <2> QED
    BY <1>9, <2>1, <1>t DEF vars, poolVars, FullPool, Apart, HasRoom
<1> QED
  BY <1>1, <1>2, <1>3, <1>4, <1>5, <1>6, <1>7, <1>8, <1>9, <1>t, QuietActions DEF Next

\* The inductive invariant of a fixed pool, until it is disturbed.
FixedQuiet == QuietInv /\ (Undisturbed => FixedInv)

\* In a pool of fixed size, until a connection is lost, cleaned up or closed, no
\* session is with two clients or idle while held (BaseSessionPool.ts:235, 264,
\* 321-323), and activeSessions is exact (BaseSessionPool.ts:239, 310, 321).
THEOREM FixedPool ==
    ASSUME MinPoolSize = MaxPoolSize
    PROVE  Spec => [](Exclusive /\ ActiveExact)
<1>1. FixedQuiet /\ [Next]_vars => FixedQuiet'
  <2> SUFFICES ASSUME FixedQuiet, [Next]_vars PROVE FixedQuiet'
    OBVIOUS
  <2>1. QuietInv'
    BY QuietNext DEF FixedQuiet
  <2>2. ASSUME Undisturbed' PROVE FixedInv'
    <3>1. UpInv' /\ Undisturbed
      BY <2>1, <2>2, StaysUndisturbed DEF QuietInv, FixedQuiet
    <3> QED
      BY <2>2, <3>1, FixedNext DEF FixedQuiet
  <2> QED
    BY <2>1, <2>2 DEF FixedQuiet
<1>2. Init => FixedQuiet
  BY FixedInit, UpInit DEF FixedQuiet, QuietInv, UpInv
<1>3. FixedQuiet => Exclusive /\ ActiveExact
  BY FixedImplies DEF FixedQuiet, Exclusive, ActiveExact
<1> QED
  BY <1>1, <1>2, <1>3, PTL DEF Spec

\* In the same pool activeSessions counts the sessions that clients hold, and those
\* lost to callers that had timed out (BaseSessionPool.ts:239, 310, 321).
THEOREM FixedCount ==
    ASSUME MinPoolSize = MaxPoolSize
    PROVE  Spec => []ActiveExact
<1>1. Spec => [](Exclusive /\ ActiveExact)
  BY FixedPool
<1>2. Exclusive /\ ActiveExact => ActiveExact
  OBVIOUS
<1> QED
  BY <1>1, <1>2, PTL
=============================================================================

---------------------------- MODULE RedirectProofs ----------------------------
(***************************************************************************)
(* Theorems about RedirectCache and RedirectPool, for every number of      *)
(* clients, sessions, devices and endpoints and every size of the pool and *)
(* of the cache.                                                           *)
(***************************************************************************)
EXTENDS RedirectPool, SessionPoolProofs

-----------------------------------------------------------------------------
(* The cache *)

\* A device has one entry in q, and q has the old entries first.
Orderly(q) ==
    /\ q \in Seq(Entries)
    /\ \A i, j \in 1..Len(q) : q[i].device = q[j].device => i = j
    /\ \A i, j \in 1..Len(q) : i < j /\ q[j].old => q[i].old

\* n entries fit; only an empty id can keep the cache from evicting.
Fits(n) == EmptyDevice \notin Devices => n <= CacheSize

\* The inductive invariant of the cache.
CacheInv == Orderly(cache) /\ Fits(Len(cache))

\* Deleting the entry at a position leaves the others in order.
LEMMA RemoveAtOrderly ==
    ASSUME NEW q, Orderly(q), NEW k \in 1..Len(q)
    PROVE  /\ Orderly(RemoveAt(q, k))
           /\ Len(RemoveAt(q, k)) = Len(q) - 1
           /\ \A i \in 1..Len(RemoveAt(q, k)) : RemoveAt(q, k)[i].device # q[k].device
<1> DEFINE left  == SubSeq(q, 1, k - 1)
           right == SubSeq(q, k + 1, Len(q))
           r     == RemoveAt(q, k)
<1>1. q \in Seq(Entries) /\ Len(q) \in Nat /\ k \in Nat /\ k >= 1 /\ k <= Len(q)
  BY LenProperties DEF Orderly
<1>2. /\ left \in Seq(Entries) /\ Len(left) = k - 1
      /\ \A i \in 1..(k - 1) : left[i] = q[i]
  BY <1>1, SubSeqProperties, ElementOfSeq
<1>3. /\ right \in Seq(Entries) /\ Len(right) = Len(q) - k
      /\ \A i \in 1..(Len(q) - k) : right[i] = q[k + i]
  BY <1>1, SubSeqProperties, ElementOfSeq
<1>4. r = left \o right
  BY DEF RemoveAt
<1> HIDE DEF left, right, r
<1>5. /\ r \in Seq(Entries) /\ Len(r) = Len(q) - 1
      /\ \A i \in 1..(k - 1) : r[i] = q[i]
      /\ \A i \in k..(Len(q) - 1) : r[i] = q[i + 1]
  <2>0. /\ r \in Seq(Entries) /\ Len(r) = Len(left) + Len(right)
        /\ \A i \in 1..(Len(left) + Len(right)) :
               r[i] = IF i <= Len(left) THEN left[i] ELSE right[i - Len(left)]
    BY <1>2, <1>3, <1>4, ConcatProperties
  <2>1. \A i \in 1..Len(r) : r[i] = IF i <= Len(left) THEN left[i] ELSE right[i - Len(left)]
    BY <2>0
  <2>2. Len(r) = Len(q) - 1
    BY <1>1, <1>2, <1>3, <2>0
  <2>3. \A i \in 1..(k - 1) : r[i] = q[i]
    BY <1>1, <1>2, <2>1, <2>2
  <2>4. ASSUME NEW i \in k..(Len(q) - 1) PROVE r[i] = q[i + 1]
    <3>1. i \in 1..Len(r) /\ ~ (i <= Len(left)) /\ i - Len(left) \in 1..(Len(q) - k)
          /\ k + (i - Len(left)) = i + 1
      BY <1>1, <1>2, <2>2
    <3> QED
      BY <3>1, <1>3, <2>1
  <2> QED
    BY <2>0, <2>2, <2>3, <2>4
\* Where an entry was.
<1> DEFINE was(i) == IF i < k THEN i ELSE i + 1
<1>6. \A i \in 1..Len(r) : was(i) \in 1..Len(q) /\ was(i) # k /\ r[i] = q[was(i)]
  BY <1>1, <1>5
<1>7. \A i, j \in 1..Len(r) : (was(i) = was(j) => i = j) /\ (i < j => was(i) < was(j))
  BY <1>1, <1>5
<1> HIDE DEF was
<1>8. \A i \in 1..Len(r) : r[i].device # q[k].device
  BY <1>6 DEF Orderly
<1>9. \A i, j \in 1..Len(r) : r[i].device = r[j].device => i = j
  BY <1>6, <1>7 DEF Orderly
<1>10. \A i, j \in 1..Len(r) : i < j /\ r[j].old => r[i].old
  BY <1>6, <1>7 DEF Orderly
<1> QED
  BY <1>5, <1>8, <1>9, <1>10 DEF Orderly, r

\* So does dropping the first entry.
LEMMA TailOrderly ==
    ASSUME NEW q, Orderly(q), q # <<>>
    PROVE  /\ Orderly(Tail(q)) /\ Len(Tail(q)) = Len(q) - 1
           /\ \A i \in 1..Len(Tail(q)) : i + 1 \in 1..Len(q) /\ Tail(q)[i] = q[i + 1]
<1> DEFINE r == Tail(q)
<1>1. /\ r \in Seq(Entries) /\ Len(r) = Len(q) - 1 /\ Len(q) \in Nat
      /\ \A i \in 1..Len(r) : r[i] = q[i + 1]
  BY HeadTailProperties, LenProperties DEF Orderly
<1> HIDE DEF r
<1>2. \A i \in 1..Len(r) : i + 1 \in 1..Len(q)
  BY <1>1
<1>3. \A i, j \in 1..Len(r) : r[i].device = r[j].device => i = j
  <2> SUFFICES ASSUME NEW i \in 1..Len(r), NEW j \in 1..Len(r), r[i].device = r[j].device
               PROVE  i = j
    OBVIOUS
  <2>1. i + 1 = j + 1
    BY <1>1, <1>2 DEF Orderly
  <2> QED
    BY <2>1, <1>1
<1>4. \A i, j \in 1..Len(r) : i < j /\ r[j].old => r[i].old
  <2> SUFFICES ASSUME NEW i \in 1..Len(r), NEW j \in 1..Len(r), i < j, r[j].old
               PROVE  r[i].old
    OBVIOUS
  <2>1. i + 1 \in 1..Len(q) /\ j + 1 \in 1..Len(q) /\ i + 1 < j + 1 /\ q[j + 1].old
    BY <1>1, <1>2
  <2>2. q[i + 1].old
    BY <2>1 DEF Orderly
  <2> QED
    BY <2>2, <1>1
<1> QED
  BY <1>1, <1>2, <1>3, <1>4 DEF Orderly, r

\* A new entry of a device that has none goes to the end.
LEMMA AppendOrderly ==
    ASSUME NEW q, Orderly(q), NEW e \in Entries, ~ e.old,
           \A i \in 1..Len(q) : q[i].device # e.device
    PROVE  Orderly(Append(q, e)) /\ Len(Append(q, e)) = Len(q) + 1
<1> DEFINE r == Append(q, e)
<1>1. /\ r \in Seq(Entries) /\ Len(r) = Len(q) + 1 /\ Len(q) \in Nat
      /\ \A i \in 1..Len(q) : r[i] = q[i]
      /\ r[Len(q) + 1] = e
  BY AppendProperties, LenProperties DEF Orderly
<1> HIDE DEF r
<1>2. \A i \in 1..Len(r) : i \in 1..Len(q) \/ i = Len(q) + 1
  BY <1>1
<1>3. \A i, j \in 1..Len(r) : r[i].device = r[j].device => i = j
  BY <1>1, <1>2 DEF Orderly
<1>4. \A i, j \in 1..Len(r) : i < j /\ r[j].old => r[i].old
  BY <1>1, <1>2 DEF Orderly
<1> QED
  BY <1>1, <1>3, <1>4 DEF Orderly, r

\* Place finds the entry of a device.
LEMMA PlaceFound ==
    ASSUME Orderly(cache), NEW d, Has(d)
    PROVE  Place(d) \in 1..Len(cache) /\ cache[Place(d)].device = d
<1>1. DOMAIN cache = 1..Len(cache)
  BY LenProperties DEF Orderly
<1>2. \E i \in DOMAIN cache : cache[i].device = d
  BY DEF Has
<1> QED
  BY <1>1, <1>2 DEF Place

\* Map.delete leaves no entry of the device and the others in order
\* (RedirectCache.ts:46-71).
LEMMA WithoutOrderly ==
    ASSUME CacheInv, NEW d
    PROVE  /\ Orderly(Without(d))
           /\ Len(Without(d)) \in Nat
           /\ Fits(Len(Without(d)))
           /\ Has(d) => Fits(Len(Without(d)) + 1)
           /\ \A i \in 1..Len(Without(d)) : Without(d)[i].device # d
<1>1. DOMAIN cache = 1..Len(cache) /\ Len(cache) \in Nat
  BY LenProperties DEF CacheInv, Orderly
<1>2. CASE Has(d)
  <2>1. Place(d) \in 1..Len(cache) /\ cache[Place(d)].device = d
    BY <1>2, PlaceFound DEF CacheInv
  <2>2. Without(d) = RemoveAt(cache, Place(d))
    BY <1>2 DEF Without
  <2>3. /\ Orderly(RemoveAt(cache, Place(d)))
        /\ Len(RemoveAt(cache, Place(d))) = Len(cache) - 1
        /\ \A i \in 1..Len(RemoveAt(cache, Place(d))) :
               RemoveAt(cache, Place(d))[i].device # d
    BY <2>1, RemoveAtOrderly DEF CacheInv
  <2>4. Len(cache) - 1 \in Nat
    BY <1>1, <2>1
  <2> QED
    BY <1>1, <2>2, <2>3, <2>4, CacheSizeAssumption DEF CacheInv, Fits
<1>3. CASE ~ Has(d)
  BY <1>1, <1>3 DEF Without, Has, CacheInv
<1> QED
  BY <1>2, <1>3

\* Every operation keeps the cache in order (RedirectCache.ts:46-108).
LEMMA CacheKept ==
    ASSUME CacheInv,
           \/ \E d \in Devices : Get(d) \/ Delete(d) \/ \E e \in Endpoints : Set(d, e)
           \/ Age
           \/ Clear
           \/ UNCHANGED cache
    PROVE  CacheInv'
<1>t. cache \in Seq(Entries) /\ DOMAIN cache = 1..Len(cache) /\ Len(cache) \in Nat
  BY LenProperties DEF CacheInv, Orderly
<1>1. ASSUME NEW d \in Devices, Get(d) \/ Delete(d) PROVE CacheInv'
  BY <1>1, WithoutOrderly DEF Get, Delete, CacheInv
<1>2. ASSUME NEW d \in Devices, NEW e \in Endpoints, Set(d, e) PROVE CacheInv'
  <2> DEFINE room == RoomFor(d)
             new  == NewEntry(d, e)
  <2>1. new \in Entries /\ ~ new.old /\ new.device = d
    BY DEF NewEntry, Entries
  <2>2. /\ Orderly(room) /\ Fits(Len(room) + 1)
        /\ \A i \in 1..Len(room) : room[i].device # d
    <3>1. CASE Has(d)
      BY <3>1, WithoutOrderly DEF RoomFor
    <3>2. CASE ~ Has(d) /\ Full /\ Head(cache).device # EmptyDevice
      <4>1. room = Tail(cache)
        BY <3>2 DEF RoomFor
      <4>2. /\ Orderly(Tail(cache)) /\ Len(Tail(cache)) = Len(cache) - 1
            /\ \A i \in 1..Len(Tail(cache)) : i + 1 \in 1..Len(cache)
                                              /\ Tail(cache)[i] = cache[i + 1]
        BY <3>2, TailOrderly DEF CacheInv, Full
      <4>3. Fits(Len(Tail(cache)) + 1)
        BY <4>2, <1>t, CacheSizeAssumption DEF CacheInv, Fits
      <4>4. \A i \in 1..Len(Tail(cache)) : Tail(cache)[i].device # d
        BY <3>2, <4>2, <1>t DEF Has
      <4> QED
        BY <4>1, <4>2, <4>3, <4>4
    <3>3. CASE ~ Has(d) /\ ~ (Full /\ Head(cache).device # EmptyDevice)
      <4>1. room = cache
        BY <3>3 DEF RoomFor
      <4>2. Fits(Len(cache) + 1)
        <5>1. CASE ~ Full
          BY <5>1, <1>t, EmptySeq, CacheSizeAssumption DEF Full, Fits
        <5>2. CASE Full
          <6>1. Head(cache) \in Entries /\ Head(cache).device = EmptyDevice
            BY <3>3, <5>2, <1>t, HeadTailProperties DEF Full
          <6> QED
            BY <6>1 DEF Entries, Fits
        <5> QED
          BY <5>1, <5>2
      <4> QED
        BY <4>1, <4>2, <3>3, <1>t DEF Has, CacheInv
    <3> QED
      BY <3>1, <3>2, <3>3
  <2>3. cache' = Append(room, new)
    BY <1>2 DEF Set
  <2> HIDE DEF room, new
  <2> QED
    BY <2>1, <2>2, <2>3, AppendOrderly DEF CacheInv
<1>3. CASE Age
  <2>1. PICK i \in Young : /\ \A j \in Young : i <= j
                           /\ cache' = [cache EXCEPT ![i].old = TRUE]
    BY <1>3 DEF Age
  <2>2. i \in 1..Len(cache)
    BY <2>1, <1>t DEF Young
  <2>3. \A j \in 1..Len(cache) : cache[j] \in Entries
    BY <1>t, ElementOfSeq
  <2>4. /\ DOMAIN cache' = 1..Len(cache)
        /\ \A j \in 1..Len(cache) : j # i => cache'[j] = cache[j]
        /\ cache'[i] = [cache[i] EXCEPT !.old = TRUE]
    BY <2>1, <2>2, <1>t
  <2>5. cache'[i] \in Entries /\ cache'[i].old /\ cache'[i].device = cache[i].device
    BY <2>2, <2>3, <2>4 DEF Entries
  <2>6. cache' \in Seq(Entries) /\ Len(cache') = Len(cache)
    <3>1. cache \in [1..Len(cache) -> Entries]
      BY <1>t, LenProperties
    <3>2. cache' \in [1..Len(cache) -> Entries]
      BY <2>1, <2>2, <2>4, <2>5, <3>1
    <3>3. cache' \in Seq(Entries)
      BY <3>2, <1>t, SeqDef
    <3> QED
      BY <2>4, <3>3, <1>t, LenProperties
  <2>7. \A j \in 1..Len(cache) : cache'[j].device = cache[j].device
    BY <2>4, <2>5
  <2>8. \A j \in 1..Len(cache) : j < i => cache[j].old
    BY <2>1, <2>2, <2>3, <1>t DEF Young, Entries
  <2>9. \A j, k \in 1..Len(cache) : j < k /\ cache'[k].old => cache'[j].old
    <3> SUFFICES ASSUME NEW j \in 1..Len(cache), NEW k \in 1..Len(cache), j < k, cache'[k].old
                 PROVE  cache'[j].old
      OBVIOUS
    <3>1. CASE j = i
      BY <3>1, <2>5
    <3>2. CASE j # i /\ k = i
      BY <3>2, <2>4, <2>8
    <3>3. CASE j # i /\ k # i
      <4>1. cache[k].old
        BY <3>3, <2>4
      <4>2. cache[j].old
        BY <4>1 DEF CacheInv, Orderly
      <4> QED
        BY <3>3, <4>2, <2>4
    <3> QED
      BY <3>1, <3>2, <3>3
  <2>10. \A j, k \in 1..Len(cache) : cache'[j].device = cache'[k].device => j = k
    BY <2>7 DEF CacheInv, Orderly
  <2> QED
    BY <2>6, <2>9, <2>10 DEF CacheInv, Orderly
<1>4. CASE Clear
  <2>1. cache' = <<>> /\ Len(cache') = 0
    BY <1>4, EmptySeq DEF Clear
  <2> QED
    BY <2>1, EmptySeq, CacheSizeAssumption DEF CacheInv, Orderly, Fits
<1>5. CASE UNCHANGED cache
  BY <1>5 DEF CacheInv
<1> QED
  BY <1>1, <1>2, <1>3, <1>4, <1>5

\* The invariant implies what the runs check, and a new cache satisfies it.
LEMMA CacheStart == CacheInit => CacheInv
  BY EmptySeq, CacheSizeAssumption DEF CacheInit, CacheInv, Orderly, Fits

LEMMA CacheImplies == CacheInv => CacheSound
<1> SUFFICES ASSUME CacheInv PROVE CacheSound
  OBVIOUS
<1>1. DOMAIN cache = 1..Len(cache)
  BY LenProperties DEF CacheInv, Orderly
<1> QED
  BY <1>1 DEF CacheInv, Orderly, Fits, CacheSound

\* Whatever calls are made of the cache, it does not outgrow maxSize unless an id is
\* empty, a device has one entry, and the one evicted is the one set longest ago
\* (RedirectCache.ts:46-91).
THEOREM CacheCorrect == CacheSpec => []CacheSound
<1>1. CacheInv /\ [CacheNext]_cache => CacheInv'
  BY CacheKept DEF CacheNext
<1> QED
  BY <1>1, CacheStart, CacheImplies, PTL DEF CacheSpec

-----------------------------------------------------------------------------
(* The pool below *)

\* Clients of RedirectPool may also be opening a session for an endpoint.
RouteStates == PcState \cup {"opening"}

PoolInv == PoolTypes(RouteStates) /\ WaitersWait /\ PooledInv

Continuations == [client : Clients, ok : BOOLEAN]

\* Continuations are those of clients.
LEMMA TurnClients ==
    ASSUME turn \in Seq(Continuations)
    PROVE  \A i \in 1..Len(turn) : turn[i].client \in Clients
<1>1. \A i \in 1..Len(turn) : turn[i] \in Continuations
  BY ElementOfSeq
<1> QED
  BY <1>1 DEF Continuations

\* So is the one that runs next.
LEMMA TurnHead ==
    ASSUME turn \in Seq(Continuations), turn # <<>>
    PROVE  /\ 1 \in 1..Len(turn) /\ Head(turn) = turn[1]
           /\ Head(turn).client \in Clients /\ Head(turn).ok \in BOOLEAN
<1>1. 1 \in 1..Len(turn) /\ Head(turn) = turn[1]
  BY HeadTailProperties, EmptySeq
<1>2. turn[1] \in Continuations
  BY <1>1, ElementOfSeq
<1> QED
  BY <1>1, <1>2 DEF Continuations

\* What an operation of RedirectPool does to the pool is a step of SessionPool,
\* or one of the three that SessionPool does not know.
LEMMA PoolStep ==
    ASSUME turn \in Seq(Continuations), [RedirectNext]_redirectVars
    PROVE  \/ [Next]_vars
           \/ \E c \in Clients, d \in Devices : InsertThere(c, d) \/ InsertOpens(c, d)
           \/ \E c \in Clients : InsertOpened(c)
<1>1. CASE InitStep
  BY <1>1 DEF InitStep, Next
<1>2. ASSUME NEW c \in Clients,
             \/ \E d \in Devices : InsertAnywhere(c, d)
             \/ TakeSession(c)
      PROVE  Next
  BY <1>2 DEF InsertAnywhere, TakeSession, GetSession, Next
<1>3. ASSUME NEW c \in Clients, Connected(c) \/ TimedOut(c) PROVE Next
  BY <1>3 DEF Connected, TimedOut, Next
<1>4. ASSUME EntryAges \/ \E c \in Clients : Reply(c) \/ \E d \in Devices : DirectInsert(c, d)
      PROVE  UNCHANGED vars
  BY <1>4 DEF EntryAges, Reply, DirectInsert
<1>5. CASE Maintenance
  BY <1>5 DEF Maintenance, Next
<1>6. CASE Closing
  BY <1>6 DEF Closing, Next
<1>7. CASE Continue
  <2>1. Head(turn).client \in Clients
    BY <1>7, TurnHead DEF Continue
  <2>2. Release(Head(turn).client)
    BY <1>7 DEF Continue
  <2> QED
    BY <2>1, <2>2 DEF Release, Next
<1>8. CASE DirectContinue
  <2>1. Head(turn).client \in Clients
    BY <1>8, TurnHead DEF DirectContinue
  <2>2. Release(Head(turn).client) \/ UNCHANGED vars
    BY <1>8 DEF DirectContinue, GiveBack
  <2> QED
    BY <2>1, <2>2 DEF Release, Next
<1>9. ASSUME NEW c \in Clients, DirectRelease(c) PROVE Next
  BY <1>9 DEF DirectRelease, GiveBack, Release, Next
<1>10. CASE UNCHANGED redirectVars
  BY <1>10 DEF redirectVars
<1> QED
  BY <1>1, <1>2, <1>3, <1>4, <1>5, <1>6, <1>7, <1>8, <1>9, <1>10 DEF RedirectNext

\* An entry of the cache names an endpoint (RedirectCache.ts:46-61).
LEMMA FoundType == ASSUME CacheInv, NEW d PROVE Found(d) \in Here
<1>1. CASE Has(d)
  <2>1. Place(d) \in 1..Len(cache)
    BY <1>1, PlaceFound DEF CacheInv
  <2>2. cache[Place(d)] \in Entries
    BY <2>1, ElementOfSeq DEF CacheInv, Orderly
  <2> QED
    BY <2>2 DEF Entries, Found, Here
<1> QED
  BY <1>1 DEF Found, Here

\* What the pool promises does not suffer from sessions opened for an endpoint
\* (BaseSessionPool.ts:192-226).
LEMMA PoolKept ==
    ASSUME PoolInv, CacheInv, sessionAt \in [Endpoints -> Sessions \cup {NoSession}],
           turn \in Seq(Continuations), [RedirectNext]_redirectVars
    PROVE  PoolInv'
<1>1. ASSUME [Next]_vars PROVE PoolInv'
  <2>1. PcState \subseteq RouteStates
    BY DEF RouteStates
  <2>2. PoolTypes(RouteStates)' /\ WaitersWait'
    BY <1>1, <2>1, TypesNext, WaitersNext DEF PoolInv
  <2>3. PooledInv'
    BY <1>1, PooledNext DEF PoolInv, PoolTypes
  <2> QED
    BY <2>2, <2>3 DEF PoolInv
<1> USE DEF RouteStates, PcState
<1>2. ASSUME NEW c \in Clients, NEW d \in Devices, InsertThere(c, d) PROVE PoolInv'
  <2> DEFINE s == sessionAt[Found(d)]
  <2>1. s \in Sessions
    BY <1>2, FoundType DEF InsertThere, Reusable, Here
  <2>2. /\ pc[c] = "out" /\ pc' = [pc EXCEPT ![c] = "using"]
        /\ holds' = [holds EXCEPT ![c] = s] /\ inUse' = inUse \cup {s}
        /\ UNCHANGED <<phase, initPending, pool, idle, active, waitQueue, conn, cleaning, closing,
                       leaked>>
    BY <1>2 DEF InsertThere, MayCall
  <2> HIDE DEF s
  <2>3. PoolTypes(RouteStates)'
    BY <2>1, <2>2 DEF PoolInv, PoolTypes
  <2>4. WaitersWait'
    BY <2>2, WaitersKeep DEF PoolInv, PoolTypes
  <2>5. PooledInv'
    BY <2>2 DEF PoolInv, PooledInv, OpenIsPooled, IsOpen
  <2> QED
    BY <2>3, <2>4, <2>5 DEF PoolInv
<1>3. ASSUME NEW c \in Clients, NEW d \in Devices, InsertOpens(c, d) PROVE PoolInv'
  <2>1. /\ pc[c] = "out" /\ pc' = [pc EXCEPT ![c] = "opening"]
        /\ UNCHANGED <<phase, initPending, poolVars, conn, cleaning, closing, holds, leaked>>
    BY <1>3 DEF InsertOpens, MayCall
  <2>2. PoolTypes(RouteStates)'
    BY <2>1 DEF PoolInv, PoolTypes, poolVars
  <2>3. WaitersWait'
    BY <2>1, WaitersKeep DEF PoolInv, PoolTypes, poolVars
  <2>4. PooledInv'
    BY <2>1 DEF PoolInv, PooledInv, OpenIsPooled, IsOpen, poolVars
  <2> QED
    BY <2>2, <2>3, <2>4 DEF PoolInv
<1>4. ASSUME NEW c \in Clients, InsertOpened(c) PROVE PoolInv'
  <2>1. /\ pc[c] = "opening"
        /\ UNCHANGED <<phase, initPending, idle, active, waitQueue, cleaning, closing, leaked>>
    BY <1>4 DEF InsertOpened
  <2>2. \/ /\ pc' = [pc EXCEPT ![c] = "out"] /\ UNCHANGED <<conn, pool, inUse, holds>>
        \/ /\ pc' = [pc EXCEPT ![c] = "using"]
           /\ \E s \in Sessions : /\ conn' = [conn EXCEPT ![s] = "open"]
                                 /\ pool' = pool \cup {s} /\ inUse' = inUse \cup {s}
                                 /\ holds' = [holds EXCEPT ![c] = s]
    BY <1>4 DEF InsertOpened, Opened
  <2>3. PoolTypes(RouteStates)'
    <3> USE DEF PoolInv, PoolTypes, ConnState
    <3>1. CASE pc' = [pc EXCEPT ![c] = "out"] /\ UNCHANGED <<conn, pool, inUse, holds>>
      BY <2>1, <3>1
    <3>2. ASSUME NEW s \in Sessions, conn' = [conn EXCEPT ![s] = "open"],
                 pool' = pool \cup {s}, inUse' = inUse \cup {s},
                 holds' = [holds EXCEPT ![c] = s], pc' = [pc EXCEPT ![c] = "using"]
          PROVE  PoolTypes(RouteStates)'
      BY <2>1, <3>2
    <3> QED
      BY <2>2, <3>1, <3>2
  <2>4. WaitersWait'
    BY <2>1, <2>2, WaitersKeep DEF PoolInv, PoolTypes
  <2>5. PooledInv'
    BY <2>1, <2>2 DEF PoolInv, PoolTypes, PooledInv, OpenIsPooled, IsOpen
  <2> QED
    BY <2>3, <2>4, <2>5 DEF PoolInv
<1> QED
  BY <1>1, <1>2, <1>3, <1>4, PoolStep

-----------------------------------------------------------------------------
(* The inserts *)

RouteTypes ==
    /\ lastRedirect \in [Sessions -> Here]
    /\ askedFor \in [Sessions -> Devices \cup {NoDevice}]
    /\ device \in [Clients -> Devices \cup {NoDevice}]
    /\ direct \subseteq Clients
    /\ sessionAt \in [Endpoints -> Sessions \cup {NoSession}]
    /\ turn \in Seq(Continuations)

\* A client in insertTablet of the pool has a device, the session a client uses is one,
\* and no session that a client has is yet to be created.
Inserting ==
    \A c \in Clients :
        /\ pc[c] # "out" /\ c \notin direct => device[c] \in Devices
        /\ pc[c] = "using" => holds[c] \in Sessions
        /\ holds[c] \in Sessions => conn[holds[c]] # "none"

\* The continuations of a turn are those of different inserts over one session.
InTurn ==
    /\ \A i \in 1..Len(turn) : /\ pc[turn[i].client] = "using"
                               /\ holds[turn[i].client] = holds[turn[1].client]
    /\ \A i, j \in 1..Len(turn) : turn[i].client = turn[j].client => i = j

\* A recommendation a session keeps is for the insert whose continuation runs next;
\* or a client who does not look at it has the session, or had it.
OwnSession == \A c, d \in Clients : holds[c] # NoSession /\ holds[c] = holds[d] => c = d
Overlooked(s) == s \in unread \/ \E c \in direct : pc[c] = "using" /\ holds[c] = s
PendingAdvice ==
    \A s \in Sessions : lastRedirect[s] # NoEndpoint =>
        \/ Overlooked(s)
        \/ \E i \in 1..Len(turn) : /\ turn[i].ok /\ holds[turn[i].client] = s
                                   /\ askedFor[s] = device[turn[i].client]
Advice == ~ shared => foreign = {} /\ OwnSession /\ PendingAdvice

\* The inductive invariant.
RouteInv == PoolInv /\ CacheInv /\ RouteTypes /\ Inserting /\ InTurn /\ Advice

\* getSession moves only its caller (BaseSessionPool.ts:228-301).
LEMMA Acquires ==
    ASSUME PoolInv, Inserting, NEW c \in Clients,
           Reuse(c) \/ Enqueue(c) \/ CreateNew(c) \/ CreateDone(c) \/ CreateFails(c)
    PROVE  /\ \A d \in Clients : d # c => pc'[d] = pc[d] /\ holds'[d] = holds[d]
           /\ \/ pc'[c] = "using" /\ holds'[c] \in Sessions
              \/ pc'[c] # "using" /\ holds'[c] = holds[c]
           /\ holds'[c] \in Sessions => conn'[holds'[c]] # "none"
           /\ \A s \in Sessions : conn[s] # "none" => conn'[s] # "none"
           /\ CreateFails(c) => pc'[c] = "out"
<1>t. /\ pc \in [Clients -> RouteStates] /\ holds \in [Clients -> Sessions \cup {NoSession}]
      /\ conn \in [Sessions -> ConnState]
  BY DEF PoolInv, PoolTypes
<1>1. CASE Reuse(c)
  <2>1. Head(idle) \in Sessions
    BY <1>1, HeadTailProperties DEF Reuse, PoolInv, PoolTypes
  <2>2. /\ pc' = [pc EXCEPT ![c] = "using"] /\ holds' = [holds EXCEPT ![c] = Head(idle)]
        /\ conn' = conn /\ conn[Head(idle)] = "open" /\ pc[c] = "out"
    BY <1>1 DEF Reuse, IsOpen, MayCall
  <2> QED
    BY <1>1, <1>t, <2>1, <2>2 DEF CreateFails
<1>2. CASE Enqueue(c) \/ CreateNew(c)
  <2>1. /\ pc' = [pc EXCEPT ![c] = "waiting"] \/ pc' = [pc EXCEPT ![c] = "creating"]
        /\ UNCHANGED <<holds, conn>> /\ pc[c] = "out"
    BY <1>2 DEF Enqueue, CreateNew, MayCall
  <2> QED
    BY <1>t, <2>1 DEF CreateFails, Inserting
<1>3. CASE CreateDone(c)
  <2>1. PICK s \in Sessions :
            conn' = [conn EXCEPT ![s] = "open"] /\ holds' = [holds EXCEPT ![c] = s]
    BY <1>3 DEF CreateDone
  <2>2. pc' = [pc EXCEPT ![c] = "using"]
    BY <1>3 DEF CreateDone
  <2>3. ~ CreateFails(c)
    BY <2>2, <1>t DEF CreateFails
  <2> QED
    BY <1>t, <2>1, <2>2, <2>3
<1>4. CASE CreateFails(c)
  <2>1. pc' = [pc EXCEPT ![c] = "out"] /\ UNCHANGED <<holds, conn>>
    BY <1>4 DEF CreateFails
  <2> QED
    BY <1>t, <2>1 DEF Inserting
<1> QED
  BY <1>1, <1>2, <1>3, <1>4

\* releaseSession moves its caller and at most one that waits
\* (BaseSessionPool.ts:303-333).
LEMMA Releases ==
    ASSUME PoolInv, NEW c \in Clients, Release(c)
    PROVE  /\ pc'[c] = "out" /\ holds'[c] = NoSession
           /\ \A d \in Clients : d # c =>
                  \/ pc'[d] = pc[d] /\ holds'[d] = holds[d]
                  \/ pc[d] = "waiting" /\ pc'[d] = "using" /\ holds'[d] = holds[c]
           /\ conn' = conn
<1>t. /\ pc \in [Clients -> RouteStates] /\ holds \in [Clients -> Sessions \cup {NoSession}]
      /\ waitQueue \in Seq(Clients \cup {Expired}) /\ DOMAIN waitQueue = 1..Len(waitQueue)
  BY LenProperties DEF PoolInv, PoolTypes
<1>1. CASE ReleaseForeign(c) \/ ReleaseToIdle(c)
  BY <1>1, <1>t DEF ReleaseForeign, ReleaseToIdle
<1>2. CASE ReleaseToWaiter(c)
  <2> DEFINE d == Head(waitQueue)
  <2>1. conn' = conn /\ waitQueue # <<>> /\ pc[c] = "using"
    BY <1>2 DEF ReleaseToWaiter, NobodyWaits
  <2>2. 1 \in DOMAIN waitQueue /\ d = waitQueue[1] /\ d \in Clients \cup {Expired}
    BY <2>1, <1>t, HeadTailProperties, EmptySeq
  <2>3. CASE d = Expired
    BY <1>2, <2>1, <2>3, <1>t DEF ReleaseToWaiter
  <2>4. CASE d # Expired
    <3>1. d \in Clients /\ pc[d] = "waiting"
      BY <2>2, <2>4 DEF PoolInv, WaitersWait
    <3>2. /\ pc' = [pc EXCEPT ![c] = "out", ![d] = "using"]
          /\ holds' = [holds EXCEPT ![c] = NoSession, ![d] = holds[c]]
      BY <1>2, <2>4 DEF ReleaseToWaiter
    <3> HIDE DEF d
    <3> QED
      BY <2>1, <3>1, <3>2, <1>t
  <2> QED
    BY <2>3, <2>4
<1> QED
  BY <1>1, <1>2 DEF Release

\* The client whose continuation runs next, and what it has.
LEMMA Continues ==
    ASSUME RouteInv, Continue
    PROVE  LET c == Head(turn).client
               s == holds[c]
           IN  /\ c \in Clients /\ c = turn[1].client /\ pc[c] = "using"
               /\ s \in Sessions /\ device[c] \in Devices
               /\ Release(c)
<1>1. turn # <<>> /\ Release(Head(turn).client) /\ Head(turn).client \notin direct
  BY DEF Continue
<1>2. /\ 1 \in 1..Len(turn) /\ Head(turn) = turn[1]
      /\ Head(turn).client \in Clients
  BY <1>1, TurnHead DEF RouteInv, RouteTypes
<1>3. pc[Head(turn).client] = "using"
  BY <1>2 DEF RouteInv, InTurn
<1> QED
  BY <1>1, <1>2, <1>3 DEF RouteInv, Inserting

\* Every operation keeps the cache in order, and what getEndpoint finds there an
\* endpoint (BaseSessionPool.ts:411-451, 482).
LEMMA CacheStep == ASSUME RouteInv, [RedirectNext]_redirectVars PROVE CacheInv'
<1> SUFFICES \/ \E d \in Devices : Get(d) \/ Delete(d) \/ \E e \in Endpoints : Set(d, e)
             \/ Age
             \/ Clear
             \/ UNCHANGED cache
  BY CacheKept DEF RouteInv
<1>1. ASSUME NEW c \in Clients, NEW d \in Devices, InsertAnywhere(c, d) PROVE Get(d)
  BY <1>1 DEF InsertAnywhere
<1>2. ASSUME NEW c \in Clients, NEW d \in Devices,
             InsertThere(c, d) \/ InsertOpens(c, d) \/ DirectInsert(c, d)
      PROVE  UNCHANGED cache
  BY <1>2 DEF InsertThere, InsertOpens, DirectInsert
<1>3. ASSUME NEW c \in Clients,
             \/ Connected(c) \/ InsertOpened(c) \/ TimedOut(c) \/ Reply(c)
             \/ TakeSession(c) \/ DirectRelease(c)
      PROVE  UNCHANGED cache
  BY <1>3 DEF Connected, InsertOpened, TimedOut, Reply, TakeSession, DirectRelease
<1>4. CASE InitStep \/ Maintenance \/ DirectContinue
  BY <1>4 DEF InitStep, Maintenance, DirectContinue
<1>5. CASE EntryAges
  BY <1>5 DEF EntryAges
<1>6. CASE Closing
  BY <1>6 DEF Closing
<1>7. CASE Continue
  <2> DEFINE c == Head(turn).client
             s == holds[c]
  <2>1. device[c] \in Devices /\ s \in Sessions
    BY <1>7, Continues
  <2>2. \/ lastRedirect[s] # NoEndpoint /\ Set(device[c], lastRedirect[s])
        \/ UNCHANGED cache
    BY <1>7 DEF Continue
  <2>3. lastRedirect[s] \in Here
    BY <2>1 DEF RouteInv, RouteTypes
  <2> HIDE DEF c, s
  <2> QED
    BY <2>1, <2>2, <2>3 DEF Here
<1>8. CASE UNCHANGED redirectVars
  BY <1>8 DEF redirectVars, routeVars
<1> QED
  BY <1>1, <1>2, <1>3, <1>4, <1>5, <1>6, <1>7, <1>8 DEF RedirectNext

\* A step that is no insert's own: only connections and the pool change.
LEMMA RouteQuiet ==
    ASSUME RouteInv,
           UNCHANGED <<pc, holds, device, direct, lastRedirect, turn, history>>,
           sessionAt' \in [Endpoints -> Sessions \cup {NoSession}],
           \A s \in Sessions : conn[s] # "none" => conn'[s] # "none"
    PROVE  RouteTypes' /\ Inserting' /\ InTurn' /\ Advice'
<1> USE DEF RouteInv, history
<1>1. RouteTypes'
  BY DEF RouteTypes
<1>2. Inserting'
  BY DEF Inserting
<1>3. InTurn'
  BY DEF InTurn
<1>4. Advice'
  BY DEF Advice, OwnSession, PendingAdvice, Overlooked
<1> QED
  BY <1>1, <1>2, <1>3, <1>4

\* A step of a client that had no session, in a turn of its own: a client that gets a
\* session is noted if another one has it.
LEMMA RouteOwnTurn ==
    ASSUME RouteInv, NEW c \in Clients, turn = <<>>, turn' = turn, pc[c] # "using",
           \A d \in Clients : d # c => pc'[d] = pc[d] /\ holds'[d] = holds[d] /\ device'[d] = device[d],
           \A d \in Clients : d # c => (d \in direct' <=> d \in direct),
           pc'[c] # "out" => device'[c] \in Devices \/ c \in direct',
           pc'[c] = "using" => holds'[c] \in Sessions,
           holds'[c] \in Sessions => conn'[holds'[c]] # "none",
           \A s \in Sessions : conn[s] # "none" => conn'[s] # "none",
           UNCHANGED <<lastRedirect, foreign, unread>>, ~ shared' => ~ shared /\ OwnSession'
    PROVE  Inserting' /\ InTurn' /\ Advice'
<1> USE DEF RouteInv
<1>1. Inserting'
  BY DEF Inserting
<1>2. Len(turn) = 0
  BY EmptySeq
<1>3. InTurn'
  BY <1>2 DEF InTurn
<1>4. \A s : Overlooked(s) => Overlooked(s)'
  BY DEF Overlooked, RouteTypes
<1>5. Advice'
  BY <1>2, <1>4 DEF Advice, PendingAdvice
<1> QED
  BY <1>1, <1>3, <1>5

\* The first continuation runs, and no client that has a session but its own loses it.
LEMMA NextTurn ==
    ASSUME RouteInv, turn # <<>>, turn' = Tail(turn),
           \A d \in Clients : d # Head(turn).client /\ pc[d] = "using"
                                => pc'[d] = "using" /\ holds'[d] = holds[d]
    PROVE  InTurn' /\ turn' \in Seq(Continuations)
<1> DEFINE c == Head(turn).client
           s == holds[c]
<1>t. turn \in Seq(Continuations) /\ InTurn
  BY DEF RouteInv, RouteTypes
<1>1. Head(turn) = turn[1] /\ 1 \in 1..Len(turn) /\ c \in Clients
  BY <1>t, TurnHead
<1>2. c = turn[1].client
  BY <1>1
<1>3. /\ turn' \in Seq(Continuations) /\ Len(turn') = Len(turn) - 1 /\ Len(turn) \in Nat
      /\ \A i \in 1..Len(turn') : turn'[i] = turn[i + 1] /\ i + 1 \in 1..Len(turn) /\ i + 1 # 1
  <2>1. /\ turn' \in Seq(Continuations) /\ Len(turn') = Len(turn) - 1 /\ Len(turn) \in Nat
        /\ \A i \in 1..Len(turn') : turn'[i] = turn[i + 1]
    BY <1>t, HeadTailProperties, LenProperties
  <2> QED
    BY <2>1
<1>4. \A i \in 1..Len(turn') : /\ turn'[i].client \in Clients /\ turn'[i].client # c
                              /\ pc[turn'[i].client] = "using"
                              /\ holds[turn'[i].client] = s
  <2>1. \A i \in 1..Len(turn) : turn[i].client \in Clients
    BY <1>t, TurnClients
  <2>2. \A i \in 1..Len(turn) : pc[turn[i].client] = "using" /\ holds[turn[i].client] = s
    BY <1>2, <1>t DEF InTurn
  <2>3. \A i \in 1..Len(turn) : turn[i].client = c => i = 1
    BY <1>1, <1>2, <1>t DEF InTurn
  <2>4. \A i \in 1..Len(turn') : turn'[i].client # c
    BY <2>3, <1>3
  <2> QED
    BY <2>1, <2>2, <2>4, <1>3
<1>5. \A i \in 1..Len(turn') : pc'[turn'[i].client] = "using" /\ holds'[turn'[i].client] = s
  BY <1>4
<1>6. \A i, j \in 1..Len(turn') : turn'[i].client = turn'[j].client => i = j
  <2> SUFFICES ASSUME NEW i \in 1..Len(turn'), NEW j \in 1..Len(turn'),
                      turn'[i].client = turn'[j].client
               PROVE  i = j
    OBVIOUS
  <2>1. /\ i + 1 \in 1..Len(turn) /\ j + 1 \in 1..Len(turn)
        /\ turn[i + 1].client = turn[j + 1].client
    BY <1>3
  <2>2. i + 1 = j + 1
    BY <2>1, <1>t DEF InTurn
  <2> QED
    BY <2>2, <1>3
<1>7. \A i \in 1..Len(turn') : 1 \in 1..Len(turn')
  BY <1>3
<1> QED
  BY <1>3, <1>5, <1>6, <1>7 DEF InTurn

\* While no session is shared only one continuation is in the turn.
LEMMA OneInTurn ==
    ASSUME RouteInv, ~ shared, turn # <<>>
    PROVE  \A i \in 1..Len(turn) : i = 1
<1> SUFFICES ASSUME NEW i \in 1..Len(turn) PROVE i = 1
  OBVIOUS
<1>1. turn \in Seq(Continuations) /\ InTurn /\ OwnSession
  BY DEF RouteInv, RouteTypes, Advice
<1>2. turn[i].client \in Clients /\ turn[1].client \in Clients /\ 1 \in 1..Len(turn)
  BY <1>1, TurnClients, TurnHead
<1>3. holds[turn[i].client] = holds[turn[1].client] /\ holds[turn[1].client] \in Sessions
  BY <1>1, <1>2 DEF InTurn, RouteInv, Inserting
<1>4. turn[i].client = turn[1].client
  BY <1>1, <1>2, <1>3, MarkersAssumption DEF OwnSession
<1> QED
  BY <1>1, <1>2, <1>4 DEF InTurn

\* A client that inserts with a session itself goes on, or releases it: then what the
\* session was recommended stays unread (BaseSessionPool.ts:303-333, 605-631).
LEMMA DirectKeeps ==
    ASSUME RouteInv, NEW c \in Clients, c \in direct, pc[c] = "using",
           \/ GiveBack(c)
           \/ UNCHANGED <<vars, direct, unread>>,
           \/ /\ turn # <<>> /\ c = Head(turn).client /\ turn' = Tail(turn)
              /\ device' = [device EXCEPT ![c] = NoDevice]
           \/ turn = <<>> /\ UNCHANGED <<turn, device>>,
           NoteSharing, UNCHANGED <<sessionAt, lastRedirect, askedFor, foreign>>
    PROVE  RouteTypes' /\ Inserting' /\ InTurn' /\ Advice'
<1>t. /\ pc \in [Clients -> RouteStates] /\ holds \in [Clients -> Sessions \cup {NoSession}]
      /\ conn \in [Sessions -> ConnState] /\ RouteTypes /\ PoolInv /\ Inserting /\ InTurn /\ Advice
      /\ holds[c] \in Sessions
  BY DEF RouteInv, RouteTypes, PoolInv, PoolTypes, Inserting
<1>s. NoSession \notin Sessions
  BY MarkersAssumption
<1>1. /\ \A d \in Clients : d # c =>
             \/ pc'[d] = pc[d] /\ holds'[d] = holds[d]
             \/ pc[d] = "waiting" /\ pc'[d] = "using" /\ holds'[d] = holds[c]
      /\ \/ pc'[c] = "out" /\ holds'[c] = NoSession /\ direct' = direct \ {c}
            /\ unread' = unread \cup {s \in {holds[c]} : lastRedirect[s] # NoEndpoint}
         \/ UNCHANGED <<pc, holds, direct, unread>>
      /\ conn' = conn
  <2>1. CASE GiveBack(c)
    <3>1. /\ Release(c) /\ direct' = direct \ {c}
          /\ unread' = unread \cup {s \in {holds[c]} : lastRedirect[s] # NoEndpoint}
      BY <2>1 DEF GiveBack
    <3> QED
      BY <3>1, <1>t, Releases
  <2>2. CASE UNCHANGED <<vars, direct, unread>>
    BY <2>2 DEF vars
  <2> QED
    BY <2>1, <2>2
<1>2. turn' \in Seq(Continuations) /\ InTurn'
  <2>1. CASE turn # <<>> /\ c = Head(turn).client /\ turn' = Tail(turn)
    BY <2>1, <1>1, NextTurn
  <2>2. CASE turn = <<>> /\ UNCHANGED turn
    BY <2>2, <1>t, EmptySeq DEF InTurn, RouteTypes
  <2> QED
    BY <2>1, <2>2
<1>3. /\ device' \in [Clients -> Devices \cup {NoDevice}]
      /\ \A d \in Clients : d # c => device'[d] = device[d]
  BY <1>t DEF RouteTypes
<1>4. RouteTypes'
  BY <1>1, <1>2, <1>3, <1>t DEF RouteTypes
<1>5. Inserting'
  BY <1>1, <1>3, <1>t, <1>s DEF Inserting
<1>6. ASSUME ~ shared' PROVE foreign' = {} /\ OwnSession' /\ PendingAdvice'
  <2>1. ~ shared /\ OwnSession'
    BY <1>6 DEF NoteSharing, OwnSession
  <2>2. foreign = {} /\ PendingAdvice
    BY <2>1, <1>t DEF Advice
  <2>3. ASSUME NEW r \in Sessions, lastRedirect[r] # NoEndpoint PROVE Overlooked(r)'
    <3>1. Overlooked(r) \/ r = holds[c]
      <4>1. ASSUME NEW i \in 1..Len(turn), holds[turn[i].client] = r PROVE r = holds[c]
        <5>1. turn # <<>>
          BY <4>1, EmptySeq
        <5>2. i = 1 /\ Head(turn) = turn[1] /\ c = Head(turn).client
          BY <4>1, <5>1, <2>1, OneInTurn, TurnHead, <1>t DEF RouteTypes
        <5> QED
          BY <4>1, <5>2
      <4> QED
        BY <4>1, <2>2, <2>3 DEF PendingAdvice
    <3>2. CASE r = holds[c]
      BY <3>2, <1>1, <2>3, <1>t DEF Overlooked
    <3>3. CASE r \in unread
      BY <3>3, <1>1 DEF Overlooked
    <3>4. ASSUME NEW d \in direct, pc[d] = "using", holds[d] = r, d # c PROVE Overlooked(r)'
      <4>1. d \in Clients /\ d \in direct' /\ pc'[d] = "using" /\ holds'[d] = r
        BY <3>4, <1>1, <1>t DEF RouteTypes
      <4> QED
        BY <4>1 DEF Overlooked
    <3> QED
      BY <3>1, <3>2, <3>3, <3>4 DEF Overlooked
  <2> QED
    BY <2>1, <2>2, <2>3, <1>1 DEF PendingAdvice
<1> QED
  BY <1>2, <1>4, <1>5, <1>6 DEF Advice

\* Every operation of the insert keeps the invariant (BaseSessionPool.ts:192-226,
\* 411-451).
LEMMA RouteNext == ASSUME RouteInv, [RedirectNext]_redirectVars PROVE RouteInv'
<1> SUFFICES RouteTypes' /\ Inserting' /\ InTurn' /\ Advice'
  BY PoolKept, CacheStep DEF RouteInv, RouteTypes
<1>t. /\ pc \in [Clients -> RouteStates] /\ holds \in [Clients -> Sessions \cup {NoSession}]
      /\ conn \in [Sessions -> ConnState]
      /\ device \in [Clients -> Devices \cup {NoDevice}] /\ direct \subseteq Clients
      /\ lastRedirect \in [Sessions -> Here]
      /\ askedFor \in [Sessions -> Devices \cup {NoDevice}]
      /\ sessionAt \in [Endpoints -> Sessions \cup {NoSession}]
      /\ turn \in Seq(Continuations)
      /\ PoolInv /\ Inserting /\ InTurn /\ Advice
  BY DEF RouteInv, RouteTypes, PoolInv, PoolTypes
<1>s. NoSession \notin Sessions
  BY MarkersAssumption
<1>1. CASE InitStep
  <2>1. UNCHANGED <<pc, holds, device, direct, lastRedirect, turn, history, sessionAt>>
    BY <1>1 DEF InitStep, InitCreated, InitFails
  <2>2. \A s \in Sessions : conn[s] # "none" => conn'[s] # "none"
    BY <1>1, <1>t DEF InitStep, InitCreated, InitFails
  <2> QED
    BY <2>1, <2>2, <1>t, RouteQuiet
<1>2. CASE EntryAges
  BY <1>2, <1>t, RouteQuiet DEF EntryAges, vars
<1>3. CASE Maintenance
  <2>1. UNCHANGED <<pc, holds, device, direct, lastRedirect, turn, history, sessionAt>>
    BY <1>3 DEF Maintenance, Lose, CleanupTick, Cleaned
  <2>2. \A s \in Sessions : conn[s] # "none" => conn'[s] # "none"
    BY <1>3, <1>t DEF Maintenance, Lose, CleanupTick, Cleaned, CloseReturns
  <2> QED
    BY <2>1, <2>2, <1>t, RouteQuiet
<1>4. CASE Closing
  <2>1. UNCHANGED <<pc, holds, device, direct, lastRedirect, turn, history>>
    BY <1>4 DEF Closing, CloseStart, CloseSession
  <2>2. sessionAt' \in [Endpoints -> Sessions \cup {NoSession}]
    BY <1>4, <1>t DEF Closing
  <2>3. \A s \in Sessions : conn[s] # "none" => conn'[s] # "none"
    BY <1>4, <1>t DEF Closing, CloseStart, CloseSession, CloseReturns
  <2> QED
    BY <2>1, <2>2, <2>3, RouteQuiet
<1>5. ASSUME NEW c \in Clients, turn = <<>>,
             \/ \E d \in Devices : InsertAnywhere(c, d)
             \/ TakeSession(c)
             \/ Connected(c)
      PROVE  RouteTypes' /\ Inserting' /\ InTurn' /\ Advice'
  <2>1. Reuse(c) \/ Enqueue(c) \/ CreateNew(c) \/ CreateDone(c) \/ CreateFails(c)
    BY <1>5 DEF InsertAnywhere, TakeSession, GetSession, Connected
  <2>2. /\ \A d \in Clients : d # c => pc'[d] = pc[d] /\ holds'[d] = holds[d]
        /\ \/ pc'[c] = "using" /\ holds'[c] \in Sessions
           \/ pc'[c] # "using" /\ holds'[c] = holds[c]
        /\ holds'[c] \in Sessions => conn'[holds'[c]] # "none"
        /\ \A s \in Sessions : conn[s] # "none" => conn'[s] # "none"
        /\ CreateFails(c) => pc'[c] = "out"
    BY <2>1, <1>t, Acquires
  <2>3. UNCHANGED <<sessionAt, lastRedirect, turn, askedFor, foreign, unread>> /\ NoteSharing
    BY <1>5 DEF InsertAnywhere, TakeSession, GetSession, Connected
  <2>4. ~ shared' => ~ shared /\ OwnSession'
    BY <2>3 DEF NoteSharing, OwnSession
  <2>5. /\ device' \in [Clients -> Devices \cup {NoDevice}] /\ direct' \subseteq Clients
        /\ \A d \in Clients : d # c => device'[d] = device[d] /\ (d \in direct' <=> d \in direct)
        /\ pc'[c] # "out" => device'[c] \in Devices \/ c \in direct'
    <3>1. ASSUME NEW d \in Devices, InsertAnywhere(c, d)
          PROVE  device' = [device EXCEPT ![c] = d] /\ direct' = direct
      BY <3>1 DEF InsertAnywhere
    <3>2. ASSUME Connected(c)
          PROVE  \/ device' = device /\ direct' = direct /\ pc[c] # "out"
                 \/ /\ device' = [device EXCEPT ![c] = NoDevice] /\ direct' = direct \ {c}
                    /\ CreateFails(c)
      BY <3>2, <1>t DEF Connected, CreateDone, GivesUp
    <3>3. CASE Connected(c)
      BY <3>2, <3>3, <2>2, <1>t DEF Inserting
    <3>4. ASSUME TakeSession(c) PROVE device' = device /\ direct' = direct \cup {c}
      BY <3>4 DEF TakeSession
    <3> QED
      BY <3>1, <3>3, <3>4, <1>5, <1>t
  <2>6. RouteTypes'
    BY <2>3, <2>5, <1>t DEF RouteTypes
  <2>7. pc[c] # "using"
    BY <2>1 DEF Reuse, Enqueue, CreateNew, CreateDone, CreateFails, MayCall
  <2> QED
    BY <1>5, <2>2, <2>3, <2>4, <2>5, <2>6, <2>7, RouteOwnTurn
<1>6. ASSUME NEW c \in Clients, NEW d \in Devices, turn = <<>>, InsertThere(c, d)
      PROVE  RouteTypes' /\ Inserting' /\ InTurn' /\ Advice'
  <2> DEFINE s == sessionAt[Found(d)]
  <2>1. s \in Sessions /\ conn[s] = "open"
    BY <1>6, <1>t, FoundType DEF InsertThere, Reusable, Here, IsOpen, RouteInv
  <2>2. /\ pc' = [pc EXCEPT ![c] = "using"] /\ holds' = [holds EXCEPT ![c] = s]
        /\ device' = [device EXCEPT ![c] = d] /\ NoteSharing /\ pc[c] = "out"
        /\ UNCHANGED <<conn, sessionAt, direct, lastRedirect, turn, askedFor, foreign, unread>>
    BY <1>6 DEF InsertThere, MayCall
  <2> HIDE DEF s
  <2>3. ~ shared' => ~ shared /\ OwnSession'
    BY <2>2 DEF NoteSharing, OwnSession
  <2>4. RouteTypes'
    BY <2>2, <1>t DEF RouteTypes
  <2> QED
    BY <1>6, <2>1, <2>2, <2>3, <2>4, <1>t, RouteOwnTurn
<1>7. ASSUME NEW c \in Clients, NEW d \in Devices, turn = <<>>, InsertOpens(c, d)
      PROVE  RouteTypes' /\ Inserting' /\ InTurn' /\ Advice'
  <2>1. /\ pc' = [pc EXCEPT ![c] = "opening"] /\ device' = [device EXCEPT ![c] = d]
        /\ UNCHANGED <<holds, conn, sessionAt, direct, lastRedirect, turn, askedFor, foreign, unread,
                       shared>>
        /\ pc[c] = "out"
    BY <1>7 DEF InsertOpens, history, MayCall
  <2>2. ~ shared' => ~ shared /\ OwnSession'
    BY <2>1, <1>t DEF Advice, OwnSession
  <2>3. RouteTypes'
    BY <2>1, <1>t DEF RouteTypes
  <2>4. holds'[c] \in Sessions => conn'[holds'[c]] # "none"
    BY <2>1, <1>t DEF Inserting
  <2> QED
    BY <1>7, <2>1, <2>2, <2>3, <2>4, <1>t, RouteOwnTurn
<1>8. ASSUME NEW c \in Clients, turn = <<>>, InsertOpened(c)
      PROVE  RouteTypes' /\ Inserting' /\ InTurn' /\ Advice'
  <2>1. /\ UNCHANGED <<direct, lastRedirect, turn, askedFor, foreign, unread, shared>>
        /\ pc[c] = "opening"
    BY <1>8 DEF InsertOpened
  <2>2. CASE \E s \in Sessions :
                 /\ Fresh(s) /\ conn' = [conn EXCEPT ![s] = "open"]
                 /\ sessionAt' = [sessionAt EXCEPT ![target[c]] = s]
                 /\ holds' = [holds EXCEPT ![c] = s]
                 /\ pc' = [pc EXCEPT ![c] = "using"] /\ UNCHANGED device
    <3>1. PICK s \in Sessions :
                 /\ conn[s] = "none" /\ conn' = [conn EXCEPT ![s] = "open"]
                 /\ sessionAt' = [sessionAt EXCEPT ![target[c]] = s]
                 /\ holds' = [holds EXCEPT ![c] = s]
                 /\ pc' = [pc EXCEPT ![c] = "using"] /\ UNCHANGED device
      BY <2>2 DEF Fresh
    <3>2. \A d \in Clients : holds[d] # s
      BY <3>1, <1>t DEF Inserting
    <3>3. ~ shared' => ~ shared /\ OwnSession'
      BY <2>1, <3>1, <3>2, <1>t DEF Advice, OwnSession
    <3>4. RouteTypes'
      BY <2>1, <3>1, <1>t DEF RouteTypes
    <3>5. device'[c] \in Devices \/ c \in direct'
      BY <2>1, <3>1, <1>t DEF Inserting
    <3> QED
      BY <1>8, <2>1, <3>1, <3>3, <3>4, <3>5, <1>t, RouteOwnTurn
  <2>3. CASE /\ pc' = [pc EXCEPT ![c] = "out"]
             /\ device' = [device EXCEPT ![c] = NoDevice]
             /\ UNCHANGED <<conn, sessionAt, holds>>
    <3>1. ~ shared' => ~ shared /\ OwnSession'
      BY <2>1, <2>3, <1>t DEF Advice, OwnSession
    <3>2. RouteTypes'
      BY <2>1, <2>3, <1>t DEF RouteTypes
    <3>3. holds'[c] \in Sessions => conn'[holds'[c]] # "none"
      BY <2>3, <1>t DEF Inserting
    <3> QED
      BY <1>8, <2>1, <2>3, <3>1, <3>2, <3>3, <1>t, RouteOwnTurn
  <2> QED
    BY <1>8, <2>2, <2>3 DEF InsertOpened
<1>9. ASSUME NEW c \in Clients, turn = <<>>, TimedOut(c)
      PROVE  RouteTypes' /\ Inserting' /\ InTurn' /\ Advice'
  <2>1. /\ pc' = [pc EXCEPT ![c] = "out"] /\ device' = [device EXCEPT ![c] = NoDevice]
        /\ direct' = direct \ {c} /\ pc[c] = "waiting"
        /\ UNCHANGED <<holds, conn, sessionAt, lastRedirect, turn, askedFor, foreign, unread, shared>>
    BY <1>9 DEF TimedOut, Timeout, TimerArmed, GivesUp, history
  <2>2. ~ shared' => ~ shared /\ OwnSession'
    BY <2>1, <1>t DEF Advice, OwnSession
  <2>3. RouteTypes'
    BY <2>1, <1>t DEF RouteTypes
  <2>4. holds'[c] \in Sessions => conn'[holds'[c]] # "none"
    BY <2>1, <1>t DEF Inserting
  <2> QED
    BY <1>9, <2>1, <2>2, <2>3, <2>4, <1>t, RouteOwnTurn
<1>10. ASSUME NEW c \in Clients, Reply(c)
       PROVE  RouteTypes' /\ Inserting' /\ InTurn' /\ Advice'
  <2> DEFINE s == holds[c]
  <2>1. PICK ok \in BOOLEAN : turn' = Append(turn, [client |-> c, ok |-> ok])
    BY <1>10 DEF Reply
  <2> DEFINE e == [client |-> c, ok |-> ok]
  <2>2. /\ pc[c] = "using" /\ DOMAIN turn = 1..Len(turn) /\ Len(turn) \in Nat
        /\ \A i \in 1..Len(turn) : turn[i].client # c /\ holds[turn[i].client] = s
        /\ UNCHANGED <<pc, holds, conn, device, direct, sessionAt, foreign, shared>>
    BY <1>10, <1>t, LenProperties DEF Reply, SameChunk, vars
  <2>3. s \in Sessions
    BY <2>2, <1>t DEF Inserting
  <2>4. /\ turn' \in Seq(Continuations) /\ Len(turn') = Len(turn) + 1
        /\ \A i \in 1..Len(turn) : turn'[i] = turn[i]
        /\ turn'[Len(turn) + 1] = e
    <3>1. e \in Continuations
      BY DEF Continuations
    <3> QED
      BY <2>1, <3>1, <1>t, AppendProperties
  <2>5. e.client = c
    OBVIOUS
  <2>6. \/ UNCHANGED <<lastRedirect, askedFor, unread>>
        \/ \E n \in Endpoints : /\ turn' = Append(turn, [client |-> c, ok |-> TRUE])
                               /\ lastRedirect' = [lastRedirect EXCEPT ![s] = n]
                               /\ askedFor' = [askedFor EXCEPT ![s] = device[c]]
                               /\ unread' = unread \ {s}
    BY <1>10 DEF Reply
  <2> HIDE DEF e
  <2>7. RouteTypes'
    BY <2>2, <2>3, <2>4, <2>6, <1>t DEF RouteTypes, Here
  <2>8. Inserting'
    BY <2>2, <1>t DEF Inserting
  <2>9. InTurn'
    <3>1. \A i \in 1..Len(turn') : i \in 1..Len(turn) \/ i = Len(turn) + 1
      BY <2>2, <2>4
    <3>2. \A i \in 1..Len(turn') : /\ pc[turn'[i].client] = "using"
                                  /\ holds[turn'[i].client] = s
      BY <2>2, <2>4, <2>5, <3>1, <1>t DEF InTurn
    <3>3. 1 \in 1..Len(turn')
      BY <2>2, <2>4
    <3>4. \A i, j \in 1..Len(turn') : turn'[i].client = turn'[j].client => i = j
      BY <2>2, <2>4, <2>5, <3>1, <1>t DEF InTurn
    <3> QED
      BY <2>2, <3>2, <3>3, <3>4 DEF InTurn
  <2>10. ASSUME ~ shared' PROVE foreign' = {} /\ OwnSession' /\ PendingAdvice'
    <3>1. ~ shared /\ foreign = {} /\ OwnSession /\ PendingAdvice
      BY <2>2, <2>10, <1>t DEF Advice
    <3>2. foreign' = {} /\ OwnSession'
      BY <2>2, <3>1 DEF OwnSession
    \* No other reply runs in this turn: it would be over the same session.
    <3>3. Len(turn) = 0
      <4>1. ASSUME 1 \in 1..Len(turn) PROVE FALSE
        <5>1. turn[1].client \in Clients
          BY <4>1, <1>t, TurnClients
        <5> QED
          BY <4>1, <5>1, <2>2, <2>3, <3>1, <1>s DEF OwnSession
      <4> QED
        BY <4>1, <2>2
    <3>4. \A r \in Sessions : lastRedirect[r] # NoEndpoint => Overlooked(r)
      BY <3>1, <3>3 DEF PendingAdvice
    <3>5. CASE UNCHANGED <<lastRedirect, askedFor, unread>>
      BY <3>2, <3>4, <3>5, <2>2 DEF PendingAdvice, Overlooked
    <3>6. CASE \E n \in Endpoints : /\ turn' = Append(turn, [client |-> c, ok |-> TRUE])
                                   /\ lastRedirect' = [lastRedirect EXCEPT ![s] = n]
                                   /\ askedFor' = [askedFor EXCEPT ![s] = device[c]]
                                   /\ unread' = unread \ {s}
      <4>1. PICK n \in Endpoints : /\ turn' = Append(turn, [client |-> c, ok |-> TRUE])
                                   /\ lastRedirect' = [lastRedirect EXCEPT ![s] = n]
                                   /\ askedFor' = [askedFor EXCEPT ![s] = device[c]]
                                   /\ unread' = unread \ {s}
        BY <3>6
      <4>2. turn'[1] = [client |-> c, ok |-> TRUE]
        <5>1. [client |-> c, ok |-> TRUE] \in Continuations
          BY DEF Continuations
        <5>2. turn'[Len(turn) + 1] = [client |-> c, ok |-> TRUE]
          BY <4>1, <5>1, <1>t, AppendProperties
        <5> QED
          BY <5>2, <3>3
      <4>3. \A r \in Sessions : lastRedirect'[r] # NoEndpoint => r = s \/ Overlooked(r)'
        BY <3>4, <4>1, <2>2, <1>t DEF Overlooked
      <4>4. 1 \in 1..Len(turn') /\ turn'[1].ok /\ turn'[1].client = c
        BY <2>4, <3>3, <4>2
      <4>5. holds'[c] = s /\ device'[c] = device[c]
        BY <2>2
      <4>6. askedFor'[s] = device[c]
        BY <2>3, <4>1, <1>t
      <4> QED
        BY <3>2, <4>3, <4>4, <4>5, <4>6 DEF PendingAdvice
    <3> QED
      BY <2>6, <3>5, <3>6
  <2> QED
    BY <2>7, <2>8, <2>9, <2>10 DEF Advice
<1>11. CASE Continue
  <2> DEFINE c == Head(turn).client
             s == holds[c]
             advised == Head(turn).ok /\ lastRedirect[s] # NoEndpoint
  <2>1. /\ c \in Clients /\ c = turn[1].client /\ pc[c] = "using"
        /\ s \in Sessions /\ device[c] \in Devices /\ Release(c)
    BY <1>11, Continues
  <2>2. /\ turn # <<>> /\ turn' = Tail(turn) /\ NoteSharing /\ c \notin direct
        /\ device' = [device EXCEPT ![c] = NoDevice] /\ UNCHANGED <<sessionAt, direct>>
        /\ foreign' = foreign \cup
              {x \in {s} : advised /\ askedFor[s] # device[c] /\ s \notin unread}
        /\ \/ /\ advised /\ lastRedirect' = [lastRedirect EXCEPT ![s] = NoEndpoint]
              /\ unread' = unread \ {s}
           \/ ~ advised /\ UNCHANGED <<lastRedirect, unread>>
        /\ askedFor' = [askedFor EXCEPT ![s] = IF lastRedirect'[s] = NoEndpoint
                                                 THEN NoDevice ELSE @]
    BY <1>11 DEF Continue, Cleared
  <2>3. /\ pc'[c] = "out" /\ holds'[c] = NoSession
        /\ \A d \in Clients : d # c =>
               \/ pc'[d] = pc[d] /\ holds'[d] = holds[d]
               \/ pc[d] = "waiting" /\ pc'[d] = "using" /\ holds'[d] = holds[c]
        /\ conn' = conn
    BY <2>1, <1>t, Releases
  <2>4. Head(turn) = turn[1] /\ 1 \in 1..Len(turn)
    BY <2>2, <1>t, TurnHead
  <2>5. turn' \in Seq(Continuations) /\ InTurn'
    BY <2>2, <2>3, NextTurn
  <2> HIDE DEF c, s
  <2>6. RouteTypes'
    BY <2>1, <2>2, <2>5, <1>t DEF RouteTypes, Here
  <2>7. Inserting'
    BY <2>1, <2>2, <2>3, <1>t, <1>s DEF Inserting
  <2>9. ASSUME ~ shared' PROVE foreign' = {} /\ OwnSession' /\ PendingAdvice'
    <3>1. ~ shared /\ OwnSession'
      BY <2>2, <2>9 DEF NoteSharing, OwnSession
    <3>2. foreign = {} /\ OwnSession /\ PendingAdvice
      BY <3>1, <1>t DEF Advice
    \* It was the only one in this turn, and the only client with this session.
    <3>3. \A i \in 1..Len(turn) : i = 1
      BY <2>2, <3>1, OneInTurn
    <3>4. ASSUME NEW r \in Sessions, lastRedirect[r] # NoEndpoint
          PROVE  Overlooked(r) \/ (Head(turn).ok /\ s = r /\ askedFor[r] = device[c])
      BY <3>2, <3>3, <3>4, <2>1, <2>4 DEF PendingAdvice, s
    <3>5. ASSUME NEW r \in Sessions, Overlooked(r)
          PROVE  (lastRedirect'[r] # NoEndpoint => Overlooked(r)') /\ (r = s => r \in unread)
      <4>1. CASE r \in unread
        BY <4>1, <2>1, <2>2, <1>t DEF Overlooked
      <4>2. ASSUME NEW d \in direct, pc[d] = "using", holds[d] = r
            PROVE  Overlooked(r)' /\ r # s
        <5>1. d \in Clients /\ d # c
          BY <2>2, <1>t
        <5>2. r # s
          BY <4>2, <5>1, <2>1, <3>2, <1>s DEF OwnSession, s
        <5>3. d \in direct' /\ pc'[d] = "using" /\ holds'[d] = r
          BY <4>2, <5>1, <2>2, <2>3
        <5> QED
          BY <5>2, <5>3 DEF Overlooked
      <4> QED
        BY <3>5, <4>1, <4>2 DEF Overlooked
    <3>6. foreign' = {}
      BY <2>1, <2>2, <3>2, <3>4, <3>5
    <3>7. \A r \in Sessions : lastRedirect'[r] # NoEndpoint => Overlooked(r)'
      BY <2>1, <2>2, <3>4, <3>5, <1>t
    <3> QED
      BY <3>1, <3>6, <3>7 DEF PendingAdvice
  <2> QED
    BY <2>5, <2>6, <2>7, <2>9 DEF Advice
<1>12. ASSUME NEW c \in Clients, NEW d \in Devices, turn = <<>>, DirectInsert(c, d)
       PROVE  RouteTypes' /\ Inserting' /\ InTurn' /\ Advice'
  <2>1. /\ c \in direct /\ device' = [device EXCEPT ![c] = d]
        /\ UNCHANGED <<pc, holds, conn, sessionAt, direct, lastRedirect, turn, askedFor, foreign,
                       unread, shared>>
    BY <1>12 DEF DirectInsert, vars, history
  <2>2. Len(turn) = 0
    BY <1>12, EmptySeq
  <2>3. RouteTypes'
    BY <2>1, <1>t DEF RouteTypes
  <2>4. Inserting'
    BY <2>1, <1>t DEF Inserting
  <2>5. InTurn' /\ Advice'
    BY <2>1, <2>2, <1>t DEF InTurn, Advice, OwnSession, PendingAdvice, Overlooked
  <2> QED
    BY <2>3, <2>4, <2>5
<1>13. CASE DirectContinue
  <2> DEFINE c == Head(turn).client
  <2>1. /\ turn # <<>> /\ c \in direct /\ turn' = Tail(turn) /\ NoteSharing
        /\ device' = [device EXCEPT ![c] = NoDevice]
        /\ GiveBack(c) \/ UNCHANGED <<vars, direct, unread>>
        /\ UNCHANGED <<sessionAt, lastRedirect, askedFor, foreign>>
    BY <1>13 DEF DirectContinue
  <2>2. c \in Clients /\ Head(turn) = turn[1] /\ 1 \in 1..Len(turn)
    BY <2>1, <1>t, TurnHead
  <2>3. pc[c] = "using"
    BY <2>2, <1>t DEF InTurn
  <2> HIDE DEF c
  <2> QED
    BY <2>1, <2>2, <2>3, DirectKeeps DEF c
<1>14. ASSUME NEW c \in Clients, turn = <<>>, DirectRelease(c)
       PROVE  RouteTypes' /\ Inserting' /\ InTurn' /\ Advice'
  <2>1. /\ c \in direct /\ NoteSharing /\ GiveBack(c)
        /\ UNCHANGED <<turn, device, sessionAt, lastRedirect, askedFor, foreign>>
    BY <1>14 DEF DirectRelease
  <2>2. pc[c] = "using"
    BY <2>1 DEF GiveBack, Release, ReleaseForeign, ReleaseToIdle, ReleaseToWaiter
  <2> QED
    BY <1>14, <2>1, <2>2, DirectKeeps
<1>15. CASE UNCHANGED redirectVars
  BY <1>15, <1>t, RouteQuiet DEF redirectVars, routeVars, vars
<1> QED
  BY <1>1, <1>2, <1>3, <1>4, <1>5, <1>6, <1>7, <1>8, <1>9, <1>10, <1>11, <1>12, <1>13, <1>14, <1>15
     DEF RedirectNext

\* The insert starts from the invariant.
LEMMA RouteStart == RedirectInit => RouteInv
<1> SUFFICES ASSUME RedirectInit PROVE RouteInv
  OBVIOUS
<1>1. PoolInv
  <2>1. TypeOK /\ WaitersWait /\ PooledInv
    BY TypeInit, UpInit DEF RedirectInit, Init, UpInv, PooledInv, OpenIsPooled, IsOpen
  <2> QED
    BY <2>1 DEF PoolInv, TypeOK, PoolTypes, RouteStates
<1>2. CacheInv
  BY CacheStart DEF RedirectInit
<1>3. Len(turn) = 0 /\ turn \in Seq(Continuations)
  BY EmptySeq DEF RedirectInit
<1>4. RouteTypes
  BY <1>3 DEF RedirectInit, RouteTypes, Here
<1>5. Inserting
  BY MarkersAssumption DEF RedirectInit, Init, Inserting
<1>6. InTurn /\ Advice
  BY <1>3 DEF RedirectInit, Init, InTurn, Advice, OwnSession, PendingAdvice
<1> QED
  BY <1>1, <1>2, <1>4, <1>5, <1>6 DEF RouteInv

\* It holds in every state.
LEMMA RouteAlways == RedirectSpec => []RouteInv
  BY RouteStart, RouteNext, PTL DEF RedirectSpec

\* The cache of the pool does not outgrow maxSize unless an id is empty, has one
\* entry of a device and evicts the one set longest ago (BaseSessionPool.ts:411-451, RedirectCache.ts:46-91).
THEOREM RoutedCache == RedirectSpec => []CacheSound
<1>1. RouteInv => CacheSound
  BY CacheImplies DEF RouteInv
<1> QED
  BY <1>1, RouteAlways, PTL

\* Sessions opened for an endpoint are in the pool as long as they are open and
\* close() has not begun, like the others (BaseSessionPool.ts:217-218).
THEOREM RedirectKeepsPooled == RedirectSpec => []RedirectPooled
<1>1. RouteInv => RedirectPooled
  BY DEF RouteInv, PoolInv, PooledInv, RedirectPooled
<1> QED
  BY <1>1, RouteAlways, PTL

\* As long as no two clients have had one session at once, a device is given the
\* endpoint recommended for another one only from a session that a client who had
\* inserted with it himself released with that recommendation unread (Session.ts:243-247, 462-468, 558-564, 1462-1468,
\* BaseSessionPool.ts:441-449, 611).
THEOREM AdviceIsOwn == RedirectSpec => []OwnAdvice
<1>1. RouteInv => OwnAdvice
  BY DEF RouteInv, Advice, OwnAdvice
<1> QED
  BY <1>1, RouteAlways, PTL

-----------------------------------------------------------------------------
(* The nodes that are connected to *)

\* The last part of the inductive invariant: who opens a session for an endpoint,
\* and what is being connected to.
Dialing ==
    /\ endPointIndex \in 1..Len(NodeUrls)
    /\ initDialing \in Seq(Endpoints) /\ Len(initDialing) = initPending
    /\ dialing \in [Clients -> Here] /\ target \in [Clients -> Here]
    /\ peer \in [Sessions -> Here]
    /\ detoursLeft \in 0..MaxDetours
    /\ \A s \in Sessions : (peer[s] = NoEndpoint) <=> Fresh(s)
    /\ \A c \in Clients : pc[c] = "opening" <=> target[c] # NoEndpoint
    /\ \A c \in Clients : pc[c] \in {"creating", "opening"} => dialing[c] \in Endpoints

\* Sessions that are yet to be created are nowhere in the pool, nor being closed.
Created ==
    /\ \A s \in pool : conn[s] # "none"
    /\ \A s \in closing : conn[s] # "none"
    /\ \A i \in 1..Len(idle) : conn[idle[i]] # "none"
    /\ \A s \in Sessions : cleaning[s] > 0 => conn[s] # "none"

\* Connections only go from none to open to closed.
LEMMA NeverUncreated ==
    ASSUME conn \in [Sessions -> ConnState], [Next]_vars
    PROVE  \A s \in Sessions : conn[s] # "none" => conn'[s] # "none"
<1>1. ASSUME InitCreated \/ \E c \in Clients : CreateDone(c)
      PROVE  \E s \in Sessions : conn' = [conn EXCEPT ![s] = "open"]
  BY <1>1 DEF InitCreated, CreateDone
<1>2. ASSUME NEW s \in Sessions, Lose(s) \/ Cleaned(s) \/ CloseSession(s)
      PROVE  conn' = [conn EXCEPT ![s] = "closed"]
  BY <1>2 DEF Lose, Cleaned, CloseSession, CloseReturns
<1>3. ASSUME NEW c \in Clients,
             \/ Reuse(c) \/ CreateNew(c) \/ Enqueue(c) \/ CreateFails(c) \/ Timeout(c)
             \/ Release(c)
      PROVE  conn' = conn
  BY <1>3 DEF Reuse, CreateNew, Enqueue, CreateFails, Timeout, Release, ReleaseForeign,
              ReleaseToIdle, ReleaseToWaiter
<1>4. ASSUME InitFails \/ CleanupTick \/ CloseStart \/ UNCHANGED vars PROVE conn' = conn
  BY <1>4 DEF InitFails, CleanupTick, CloseStart, vars
<1> QED
  BY <1>1, <1>2, <1>3, <1>4 DEF Next, Release

\* Every step of the pool keeps it.
LEMMA CreatedNext ==
    ASSUME PoolTypes(RouteStates), Created, [Next]_vars PROVE Created'
<1>t. /\ conn \in [Sessions -> ConnState] /\ idle \in Seq(Sessions)
      /\ cleaning \in [Sessions -> Nat] /\ pool \in SUBSET Sessions
      /\ closing \in SUBSET Sessions
      /\ \A i \in 1..Len(idle) : idle[i] \in Sessions
      /\ Len(idle) \in Nat /\ DOMAIN idle = 1..Len(idle)
      /\ \A s \in Sessions : conn[s] # "none" => conn'[s] # "none"
  BY ElementOfSeq, LenProperties, NeverUncreated DEF PoolTypes
\* A step that brings nothing new into the pool, or only a session that is created.
<1>k. ASSUME \A s \in pool' : s \in pool \/ (s \in Sessions /\ conn'[s] # "none"),
             closing' \subseteq closing \/ closing' = pool,
             \A i \in 1..Len(idle') : \/ \E j \in 1..Len(idle) : idle'[i] = idle[j]
                                      \/ idle'[i] \in pool
                                      \/ conn'[idle'[i]] # "none",
             \A s \in Sessions : cleaning'[s] > 0 => cleaning[s] > 0 \/ conn'[s] # "none"
      PROVE  Created'
  <2>1. \A s \in pool' : conn'[s] # "none"
    BY <1>k, <1>t DEF Created
  <2>2. \A s \in closing' : conn'[s] # "none"
    BY <1>k, <1>t DEF Created
  <2>3. \A i \in 1..Len(idle') : conn'[idle'[i]] # "none"
    BY <1>k, <1>t DEF Created
  <2>4. \A s \in Sessions : cleaning'[s] > 0 => conn'[s] # "none"
    BY <1>k, <1>t DEF Created
  <2> QED
    BY <2>1, <2>2, <2>3, <2>4 DEF Created
<1>i. Tail(idle) = idle \/ idle # <<>> =>
        \A i \in 1..Len(Tail(idle)) : \E j \in 1..Len(idle) : Tail(idle)[i] = idle[j]
  <2>1. CASE idle # <<>>
    <3>1. /\ Len(Tail(idle)) = Len(idle) - 1
          /\ \A i \in 1..Len(Tail(idle)) : Tail(idle)[i] = idle[i + 1]
      BY <2>1, <1>t, HeadTailProperties
    <3>2. \A i \in 1..Len(Tail(idle)) : i + 1 \in 1..Len(idle)
      BY <3>1, <1>t
    <3> QED
      BY <3>1, <3>2
  <2>2. CASE Tail(idle) = idle
    BY <2>2
  <2> QED
    BY <2>1, <2>2
<1>1. ASSUME NEW s \in Sessions, conn' = [conn EXCEPT ![s] = "open"], pool' = pool \cup {s},
             idle' = Append(idle, s) \/ idle' = Tail(Append(idle, s)),
             UNCHANGED <<cleaning, closing>>
      PROVE  Created'
  <2>1. conn'[s] = "open"
    BY <1>1, <1>t
  <2>2. \A i \in 1..Len(idle') : idle'[i] = s \/ \E j \in 1..Len(idle) : idle'[i] = idle[j]
    <3>1. CASE idle' = Append(idle, s)
      <4>1. /\ Len(idle') = Len(idle) + 1 /\ \A i \in 1..Len(idle) : idle'[i] = idle[i]
            /\ idle'[Len(idle) + 1] = s
        BY <3>1, <1>t, AppendProperties
      <4>2. \A i \in 1..Len(idle') : i \in 1..Len(idle) \/ i = Len(idle) + 1
        BY <4>1, <1>t
      <4> QED
        BY <4>1, <4>2
    <3>2. CASE idle' = Tail(Append(idle, s))
      BY <3>2, <1>t, AppendShift
    <3> QED
      BY <1>1, <3>1, <3>2
  <2> QED
    BY <1>1, <1>k, <2>1, <2>2
<1>2. ASSUME InitCreated \/ \E c \in Clients : CreateDone(c) PROVE Created'
  BY <1>1, <1>2 DEF InitCreated, CreateDone, AfterCreate
<1>3. ASSUME NEW c \in Clients, Reuse(c) \/ CreateNew(c) \/ Enqueue(c) PROVE Created'
  <2>1. /\ pool' \subseteq pool
        /\ idle' = idle \/ (idle # <<>> /\ idle' = Tail(idle))
        /\ UNCHANGED <<cleaning, closing>>
    BY <1>3 DEF Reuse, CreateNew, Enqueue, IdleRest, IdleLeft, PoolLeft, StaleHead
  <2>2. \A i \in 1..Len(idle') : \E j \in 1..Len(idle) : idle'[i] = idle[j]
    BY <2>1, <1>i
  <2> QED
    BY <2>1, <2>2, <1>k
<1>4. ASSUME NEW c \in Clients, ReleaseToIdle(c) PROVE Created'
  <2> DEFINE s == holds[c]
  <2>1. s \in pool /\ idle' = Append(idle, s) /\ UNCHANGED <<pool, cleaning, closing>>
    BY <1>4 DEF ReleaseToIdle
  <2> HIDE DEF s
  <2>2. /\ Len(idle') = Len(idle) + 1 /\ \A i \in 1..Len(idle) : idle'[i] = idle[i]
        /\ idle'[Len(idle) + 1] = s
    BY <2>1, <1>t, AppendProperties
  <2>3. \A i \in 1..Len(idle') : i \in 1..Len(idle) \/ i = Len(idle) + 1
    BY <2>2, <1>t
  <2> QED
    BY <2>1, <2>2, <2>3, <1>k
<1>5. ASSUME NEW s \in Sessions, Cleaned(s) PROVE Created'
  <2>1. pool' \subseteq pool /\ closing' = closing /\ cleaning' = [cleaning EXCEPT ![s] = @ - 1]
        /\ cleaning[s] > 0
    BY <1>5 DEF Cleaned
  <2>2. \A i \in 1..Len(idle') : \E j \in 1..Len(idle) : idle'[i] = idle[j]
    BY <1>5, <1>t, RemoveAtType DEF Cleaned
  <2>3. \A r \in Sessions : cleaning'[r] > 0 => cleaning[r] > 0
    BY <2>1, <1>t
  <2> QED
    BY <2>1, <2>2, <2>3, <1>k
<1>6. CASE CleanupTick
  <2>1. PICK R \in SUBSET ToSet(idle) :
            \A s \in Sessions : s \notin R => cleaning'[s] = 0
    BY <1>6 DEF CleanupTick
  <2>2. UNCHANGED <<pool, idle, conn, closing>>
    BY <1>6 DEF CleanupTick, poolVars
  <2>3. \A s \in R : conn'[s] # "none"
    BY <2>1, <2>2, <1>t DEF ToSet, Created
  <2>4. \A s \in Sessions : cleaning'[s] > 0 => conn'[s] # "none"
    BY <2>1, <2>3
  <2> QED
    BY <2>2, <2>4, <1>k
<1>7. ASSUME CloseStart \/ \E s \in Sessions : CloseSession(s) PROVE Created'
  <2>1. /\ UNCHANGED <<pool, idle>> \/ (pool' = {} /\ idle' = <<>>)
        /\ cleaning' = cleaning
        /\ closing' \subseteq closing \/ closing' = pool
    BY <1>7 DEF CloseStart, CloseSession, ClearPool, poolVars
  <2>2. \A i \in 1..Len(idle') : \E j \in 1..Len(idle) : idle'[i] = idle[j]
    BY <2>1, EmptySeq
  <2>3. pool' \subseteq pool
    BY <2>1
  <2> QED
    BY <2>1, <2>2, <2>3, <1>k
<1>8. ASSUME NEW c \in Clients,
             \/ CreateFails(c) \/ Timeout(c) \/ ReleaseForeign(c) \/ ReleaseToWaiter(c)
      PROVE  Created'
  <2>1. UNCHANGED <<pool, idle, cleaning, closing>>
    BY <1>8 DEF CreateFails, Timeout, ReleaseForeign, ReleaseToWaiter, poolVars
  <2> QED
    BY <2>1, <1>k
<1>9. ASSUME InitFails \/ UNCHANGED vars \/ \E s \in Sessions : Lose(s) PROVE Created'
  <2>1. UNCHANGED <<pool, idle, cleaning, closing>>
    BY <1>9 DEF InitFails, Lose, vars, poolVars
  <2> QED
    BY <2>1, <1>k
<1> QED
  BY <1>2, <1>3, <1>4, <1>5, <1>6, <1>7, <1>8, <1>9 DEF Next

\* The nodes are taken in turn, and there is always a next one (the modulo of
\* BaseSessionPool.ts:183-190).
LEMMA NodesInTurn ==
    /\ Len(NodeUrls) \in Nat \ {0}
    /\ DOMAIN NodeUrls = 1..Len(NodeUrls)
    /\ \A n \in Nat : (n % Len(NodeUrls)) + 1 \in 1..Len(NodeUrls)
    /\ \A i \in 1..Len(NodeUrls) : NodeUrls[i] \in Endpoints
<1>1. Len(NodeUrls) \in Nat \ {0} /\ DOMAIN NodeUrls = 1..Len(NodeUrls)
  BY NodeUrlsAssumption, LenProperties, EmptySeq
<1>2. \A i \in 1..Len(NodeUrls) : NodeUrls[i] \in Endpoints
  BY NodeUrlsAssumption, ElementOfSeq
<1>3. ASSUME NEW n \in Nat PROVE (n % Len(NodeUrls)) + 1 \in 1..Len(NodeUrls)
  <2> DEFINE k == Len(NodeUrls)
  <2>1. k \in Nat \ {0}
    BY <1>1
  <2> HIDE DEF k
  <2>2. n % k \in 0..(k - 1)
    BY <2>1
  <2>3. (n % k) + 1 \in 1..k
    BY <2>1, <2>2
  <2> QED
    BY <2>3 DEF k
<1> QED
  BY <1>1, <1>2, <1>3

\* getSession opens no session for an endpoint, and connects to a node when it
\* creates one.
LEMMA AcquiresNode ==
    ASSUME PoolInv, NEW c \in Clients,
           Reuse(c) \/ Enqueue(c) \/ CreateNew(c) \/ CreateDone(c) \/ CreateFails(c)
    PROVE  /\ pc[c] # "opening" /\ pc'[c] # "opening"
           /\ pc'[c] = "creating" => CreateNew(c)
           /\ initPending' = initPending
<1>1. pc \in [Clients -> RouteStates]
  BY DEF PoolInv, PoolTypes
<1> QED
  BY <1>1 DEF Reuse, Enqueue, CreateNew, CreateDone, CreateFails, MayCall

\* Every operation keeps it (BaseSessionPool.ts:129-190, 192-226).
LEMMA DialingNext ==
    ASSUME RouteInv, Created, Dialing, [RedirectNext]_redirectVars PROVE Dialing'
<1>t. /\ pc \in [Clients -> RouteStates] /\ conn \in [Sessions -> ConnState]
      /\ initPending \in Nat /\ MinPoolSize \in Nat /\ MaxDetours \in Nat
      /\ detoursLeft \in 0..MaxDetours
      /\ endPointIndex \in 1..Len(NodeUrls)
      /\ initDialing \in Seq(Endpoints) /\ Len(initDialing) = initPending
      /\ dialing \in [Clients -> Here] /\ target \in [Clients -> Here]
      /\ peer \in [Sessions -> Here]
      /\ NoEndpoint \notin Endpoints
      /\ PoolInv /\ Inserting
  BY SizesAssumption, BoundsAssumption, NothingAssumption
  DEF Dialing, RouteInv, PoolInv, PoolTypes
<1>n. NextEndPoint \in Endpoints
      /\ (Advance => endPointIndex' \in 1..Len(NodeUrls))
  <2>1. endPointIndex \in Nat
    BY <1>t, NodesInTurn
  <2> QED
    BY <1>t, <2>1, NodesInTurn DEF NextEndPoint, Advance
\* A step that changes neither clients nor the bookkeeping of connections.
<1>q. ASSUME UNCHANGED <<endPointIndex, initDialing, initPending, dialing, target, peer, pc>>,
             detoursLeft' \in 0..MaxDetours,
             \A s \in Sessions : Fresh(s)' <=> Fresh(s)
      PROVE  Dialing'
  <2>1. \A s \in Sessions : (peer'[s] = NoEndpoint) <=> Fresh(s)'
    BY <1>q DEF Dialing
  <2>2. \A c \in Clients : pc'[c] = "opening" <=> target'[c] # NoEndpoint
    BY <1>q DEF Dialing
  <2>3. \A c \in Clients : pc'[c] \in {"creating", "opening"} => dialing'[c] \in Endpoints
    BY <1>q DEF Dialing
  <2> QED
    BY <1>q, <2>1, <2>2, <2>3 DEF Dialing
<1>1. CASE InitStep
  <2>1. PICK i \in DOMAIN initDialing :
            /\ initDialing' = RemoveAt(initDialing, i)
            /\ peer' = [s \in Sessions |->
                           IF conn[s] = "none" /\ conn'[s] = "open" THEN initDialing[i] ELSE peer[s]]
    BY <1>1 DEF InitStep
  <2>2. i \in 1..Len(initDialing)
    BY <1>t, LenProperties
  <2>3. initDialing[i] \in Endpoints
    BY <2>2, <1>t, ElementOfSeq
  <2>4. initDialing' \in Seq(Endpoints) /\ Len(initDialing') = Len(initDialing) - 1
    BY <2>1, <2>2, <1>t, RemoveAtType
  <2>5. /\ initPending' = initPending - 1
        /\ UNCHANGED <<endPointIndex, dialing, target, detoursLeft, pc>>
        /\ \/ conn' = conn
           \/ \E s \in Sessions : conn[s] = "none" /\ conn' = [conn EXCEPT ![s] = "open"]
    BY <1>1 DEF InitStep, InitCreated, InitFails, Fresh
  <2>6. peer' \in [Sessions -> Here]
    BY <2>1, <2>3, <1>t DEF Here
  <2>7. \A s \in Sessions : (peer'[s] = NoEndpoint) <=> Fresh(s)'
    BY <2>1, <2>3, <2>5, <1>t DEF Dialing, Fresh
  <2> QED
    BY <2>4, <2>5, <2>6, <2>7, <1>t DEF Dialing
<1>2. CASE \/ EntryAges
           \/ \E c \in Clients : Reply(c) \/ \E d \in Devices : DirectInsert(c, d)
  BY <1>2, <1>q, <1>t DEF EntryAges, Reply, DirectInsert, vars, dialVars, Fresh
<1>3. CASE Maintenance
  <2>1. UNCHANGED <<endPointIndex, initDialing, initPending, dialing, target, peer, pc>>
    BY <1>3 DEF Maintenance, Lose, CleanupTick, Cleaned, dialVars
  <2>2. detoursLeft' \in 0..MaxDetours
    BY <1>3, <1>t DEF Maintenance, Detour
  <2>3. \A s \in Sessions : Fresh(s)' <=> Fresh(s)
    <3>1. \/ conn' = conn
          \/ \E s \in Sessions : conn[s] # "none" /\ conn' = [conn EXCEPT ![s] = "closed"]
      BY <1>3 DEF Maintenance, Lose, IsOpen, CleanupTick, Cleaned, CloseReturns, Created
    <3> QED
      BY <3>1, <1>t DEF Fresh
  <2> QED
    BY <2>1, <2>2, <2>3, <1>q
<1>4. CASE Closing
  <2>1. UNCHANGED <<endPointIndex, initDialing, initPending, dialing, target, peer, pc>>
    BY <1>4 DEF Closing, CloseStart, CloseSession, dialVars
  <2>2. detoursLeft' \in 0..MaxDetours
    BY <1>4, <1>t DEF Closing, Detour
  <2>3. \A s \in Sessions : Fresh(s)' <=> Fresh(s)
    <3>1. \/ conn' = conn
          \/ \E s \in Sessions : conn[s] # "none" /\ conn' = [conn EXCEPT ![s] = "closed"]
      BY <1>4 DEF Closing, CloseStart, CloseSession, CloseReturns, Created
    <3> QED
      BY <3>1, <1>t DEF Fresh
  <2> QED
    BY <2>1, <2>2, <2>3, <1>q
<1>5. ASSUME NEW c \in Clients,
             TakeSession(c) \/ \E d \in Devices : InsertAnywhere(c, d)
      PROVE  Dialing'
  <2>0. GetSession(c) /\ detoursLeft' \in 0..MaxDetours
    BY <1>5, <1>t DEF TakeSession, InsertAnywhere, Detour
  <2>1. Reuse(c) \/ Enqueue(c) \/ CreateNew(c)
    BY <2>0 DEF GetSession
  <2>2. /\ \A b \in Clients : b # c => pc'[b] = pc[b]
        /\ pc[c] # "opening" /\ pc'[c] # "opening"
        /\ pc'[c] = "creating" => CreateNew(c)
        /\ initPending' = initPending
    BY <2>1, <1>t, Acquires, AcquiresNode
  <2>3. /\ UNCHANGED <<initDialing, target, peer, conn>>
        /\ \/ pc'[c] # "creating" /\ UNCHANGED <<endPointIndex, dialing>>
           \/ dialing' = [dialing EXCEPT ![c] = NextEndPoint] /\ Advance
    <3>1. UNCHANGED <<initDialing, target, peer>>
      BY <2>0 DEF GetSession
    <3>2. conn' = conn
      BY <2>1 DEF Reuse, Enqueue, CreateNew
    <3>3. ~ CreateNew(c) => pc'[c] # "creating"
      BY <2>2
    <3>4. Reuse(c) \/ Enqueue(c) => pc'[c] # "creating"
      BY <1>t DEF Reuse, Enqueue
    <3> QED
      BY <2>0, <3>1, <3>2, <3>4 DEF GetSession
  <2>4. \A b \in Clients : pc'[b] = "opening" <=> target'[b] # NoEndpoint
    BY <2>2, <2>3 DEF Dialing
  <2>5. \A b \in Clients : pc'[b] \in {"creating", "opening"} => dialing'[b] \in Endpoints
    BY <2>2, <2>3, <1>n, <1>t DEF Dialing
  <2>6. endPointIndex' \in 1..Len(NodeUrls) /\ dialing' \in [Clients -> Here]
    BY <2>3, <1>n, <1>t DEF Here
  <2>7. \A s \in Sessions : (peer'[s] = NoEndpoint) <=> Fresh(s)'
    BY <2>3 DEF Dialing, Fresh
  <2> QED
    BY <2>0, <2>2, <2>3, <2>4, <2>5, <2>6, <2>7, <1>t DEF Dialing
<1>6. ASSUME NEW c \in Clients, Connected(c) PROVE Dialing'
  <2>1. /\ pc[c] = "creating" /\ dialing' = [dialing EXCEPT ![c] = NoEndpoint]
        /\ pc' = [pc EXCEPT ![c] = "using"] \/ pc' = [pc EXCEPT ![c] = "out"]
        /\ UNCHANGED <<endPointIndex, initDialing, initPending, target, detoursLeft>>
    BY <1>6 DEF Connected, CreateDone, CreateFails
  <2>2. \/ UNCHANGED <<conn, peer>>
        \/ \E s \in Sessions : /\ conn' = [conn EXCEPT ![s] = "open"]
                              /\ peer' = [peer EXCEPT ![s] = dialing[c]]
    <3>1. ASSUME CreateDone(c)
          PROVE  \E s \in Sessions : conn' = [conn EXCEPT ![s] = "open"] /\ holds'[c] = s
      BY <3>1, <1>t DEF CreateDone, PoolInv, PoolTypes
    <3>2. CreateFails(c) => conn' = conn
      BY DEF CreateFails
    <3> QED
      BY <1>6, <3>1, <3>2 DEF Connected
  <2>3. dialing[c] \in Endpoints
    BY <2>1 DEF Dialing
  <2>4. peer' \in [Sessions -> Here]
    BY <2>2, <2>3, <1>t DEF Here
  <2>5. \A s \in Sessions : (peer'[s] = NoEndpoint) <=> Fresh(s)'
    BY <2>2, <2>3, <1>t DEF Dialing, Fresh
  <2>6. \A b \in Clients : pc'[b] = "opening" <=> target'[b] # NoEndpoint
    BY <2>1, <1>t DEF Dialing
  <2>7. \A b \in Clients : pc'[b] \in {"creating", "opening"} => dialing'[b] \in Endpoints
    BY <2>1, <1>t DEF Dialing
  <2> QED
    BY <2>1, <2>4, <2>5, <2>6, <2>7, <1>t DEF Dialing, Here
<1>7. ASSUME NEW c \in Clients, NEW d \in Devices, InsertThere(c, d) PROVE Dialing'
  <2>1. /\ pc[c] = "out" /\ pc' = [pc EXCEPT ![c] = "using"]
        /\ UNCHANGED <<endPointIndex, initDialing, initPending, dialing, target, peer, detoursLeft,
                       conn>>
    BY <1>7 DEF InsertThere, MayCall, dialVars
  <2> QED
    BY <2>1, <1>t DEF Dialing, Fresh
<1>8. ASSUME NEW c \in Clients, NEW d \in Devices, InsertOpens(c, d) PROVE Dialing'
  <2>1. /\ pc' = [pc EXCEPT ![c] = "opening"]
        /\ target' = [target EXCEPT ![c] = Found(d)] /\ Found(d) \in Endpoints
        /\ dialing' = [dialing EXCEPT ![c] = NextEndPoint] /\ Advance
        /\ UNCHANGED <<initDialing, initPending, peer, detoursLeft, conn>>
    BY <1>8, FoundType DEF InsertOpens, RouteInv, Here
  <2> QED
    BY <2>1, <1>n, <1>t DEF Dialing, Fresh, Here
<1>9. ASSUME NEW c \in Clients, InsertOpened(c) PROVE Dialing'
  <2>1. /\ pc[c] = "opening" /\ dialing' = [dialing EXCEPT ![c] = NoEndpoint]
        /\ target' = [target EXCEPT ![c] = NoEndpoint]
        /\ pc' = [pc EXCEPT ![c] = "using"] \/ pc' = [pc EXCEPT ![c] = "out"]
        /\ UNCHANGED <<endPointIndex, initDialing, initPending, detoursLeft>>
    BY <1>9 DEF InsertOpened
  <2>2. \/ UNCHANGED <<conn, peer>>
        \/ \E s \in Sessions : /\ conn' = [conn EXCEPT ![s] = "open"]
                              /\ peer' = [peer EXCEPT ![s] = dialing[c]]
    BY <1>9 DEF InsertOpened
  <2>3. dialing[c] \in Endpoints
    BY <2>1 DEF Dialing
  <2>4. peer' \in [Sessions -> Here]
    BY <2>2, <2>3, <1>t DEF Here
  <2>5. \A s \in Sessions : (peer'[s] = NoEndpoint) <=> Fresh(s)'
    BY <2>2, <2>3, <1>t DEF Dialing, Fresh
  <2>6. \A b \in Clients : pc'[b] = "opening" <=> target'[b] # NoEndpoint
    BY <2>1, <1>t DEF Dialing
  <2>7. \A b \in Clients : pc'[b] \in {"creating", "opening"} => dialing'[b] \in Endpoints
    BY <2>1, <1>t DEF Dialing
  <2> QED
    BY <2>1, <2>4, <2>5, <2>6, <2>7, <1>t DEF Dialing, Here
<1>10. ASSUME NEW c \in Clients, TimedOut(c) PROVE Dialing'
  <2>1. /\ pc[c] = "waiting" /\ pc' = [pc EXCEPT ![c] = "out"] /\ Detour
        /\ UNCHANGED <<endPointIndex, initDialing, initPending, dialing, target, peer, conn>>
    BY <1>10 DEF TimedOut, Timeout, TimerArmed, dialVars
  <2> QED
    BY <2>1, <1>t DEF Dialing, Fresh, Detour
\* A release.
<1>r. ASSUME NEW c \in Clients, Release(c),
             UNCHANGED <<endPointIndex, initDialing, dialing, target, peer, detoursLeft>>
      PROVE  Dialing'
  <2>1. pc[c] = "using" /\ initPending' = initPending
    BY <1>r DEF Release, ReleaseForeign, ReleaseToIdle, ReleaseToWaiter
  <2>2. /\ pc'[c] = "out"
        /\ \A b \in Clients : b # c => pc'[b] = pc[b] \/ (pc[b] = "waiting" /\ pc'[b] = "using")
        /\ conn' = conn
    BY <1>r, <1>t, Releases
  <2>3. \A b \in Clients : pc'[b] = "opening" <=> target'[b] # NoEndpoint
    BY <1>r, <2>1, <2>2 DEF Dialing
  <2>4. \A b \in Clients : pc'[b] \in {"creating", "opening"} => dialing'[b] \in Endpoints
    BY <1>r, <2>1, <2>2 DEF Dialing
  <2> QED
    BY <1>r, <2>1, <2>2, <2>3, <2>4, <1>t DEF Dialing, Fresh
<1>11. CASE Continue \/ DirectContinue
  <2> DEFINE c == Head(turn).client
  <2>1. c \in Clients
    BY <1>11, TurnHead DEF Continue, DirectContinue, RouteInv, RouteTypes
  <2>2. UNCHANGED <<endPointIndex, initDialing, dialing, target, peer, detoursLeft>>
    BY <1>11 DEF Continue, DirectContinue, dialVars
  <2>3. Release(c) \/ UNCHANGED vars
    BY <1>11 DEF Continue, DirectContinue, GiveBack
  <2> HIDE DEF c
  <2>4. CASE Release(c)
    BY <2>1, <2>2, <2>4, <1>r
  <2>5. CASE UNCHANGED vars
    BY <2>2, <2>5, <1>q, <1>t DEF vars, Fresh
  <2> QED
    BY <2>3, <2>4, <2>5
<1>13. ASSUME NEW c \in Clients, DirectRelease(c) PROVE Dialing'
  BY <1>13, <1>r DEF DirectRelease, GiveBack, dialVars
<1>12. CASE UNCHANGED redirectVars
  BY <1>12, <1>q, <1>t DEF redirectVars, routeVars, vars, dialVars, Fresh
<1> QED
  BY <1>1, <1>2, <1>3, <1>4, <1>5, <1>6, <1>7, <1>8, <1>9, <1>10, <1>11, <1>12, <1>13
  DEF RedirectNext

\* So does every insert: what it takes or opens has been created.
LEMMA CreatedKept ==
    ASSUME RouteInv, Created, [RedirectNext]_redirectVars PROVE Created'
<1>t. /\ conn \in [Sessions -> ConnState] /\ sessionAt \in [Endpoints -> Sessions \cup {NoSession}]
      /\ idle \in Seq(Sessions) /\ \A i \in 1..Len(idle) : idle[i] \in Sessions
      /\ pool \in SUBSET Sessions /\ closing \in SUBSET Sessions
  BY ElementOfSeq DEF RouteInv, RouteTypes, PoolInv, PoolTypes
<1>1. ASSUME [Next]_vars PROVE Created'
  BY <1>1, CreatedNext DEF RouteInv, PoolInv
<1>2. ASSUME NEW c \in Clients, NEW d \in Devices, InsertThere(c, d) \/ InsertOpens(c, d)
      PROVE  Created'
  <2>1. UNCHANGED <<pool, idle, conn, cleaning, closing>>
    BY <1>2 DEF InsertThere, InsertOpens, poolVars
  <2> QED
    BY <2>1 DEF Created
<1>3. ASSUME NEW c \in Clients, InsertOpened(c) PROVE Created'
  <2>1. UNCHANGED <<idle, cleaning, closing>>
    BY <1>3 DEF InsertOpened
  <2>2. \/ UNCHANGED <<conn, pool>>
        \/ \E s \in Sessions : conn' = [conn EXCEPT ![s] = "open"] /\ pool' = pool \cup {s}
    BY <1>3 DEF InsertOpened, Opened
  <2> QED
    BY <2>1, <2>2, <1>t DEF Created
<1> QED
  BY <1>1, <1>2, <1>3, PoolStep DEF RouteInv, RouteTypes

\* init() begins to connect to the nodes in turn (BaseSessionPool.ts:129-134).
LEMMA DialingStart == RedirectInit => Created /\ Dialing
<1> SUFFICES ASSUME RedirectInit PROVE Created /\ Dialing
  OBVIOUS
<1>1. Created
  BY EmptySeq DEF RedirectInit, Init, Created
<1>2. MinPoolSize \in Nat /\ MaxDetours \in Nat
  BY SizesAssumption, BoundsAssumption
<1>3. \A i \in 1..MinPoolSize : NodeUrls[((i - 1) % Len(NodeUrls)) + 1] \in Endpoints
  <2> SUFFICES ASSUME NEW i \in 1..MinPoolSize
               PROVE  NodeUrls[((i - 1) % Len(NodeUrls)) + 1] \in Endpoints
    OBVIOUS
  <2>1. i - 1 \in Nat
    BY <1>2
  <2> QED
    BY <2>1, NodesInTurn
<1>4. initDialing \in Seq(Endpoints) /\ Len(initDialing) = initPending
  <2>1. initDialing \in [1..MinPoolSize -> Endpoints]
    BY <1>3 DEF RedirectInit
  <2>2. initDialing \in Seq(Endpoints)
    BY <1>2, <2>1, SeqDef
  <2> QED
    BY <1>2, <2>1, <2>2, LenProperties DEF RedirectInit, Init, InitCalls
<1>5. endPointIndex \in 1..Len(NodeUrls)
  BY <1>2, NodesInTurn DEF RedirectInit
<1>6. Dialing
  BY <1>2, <1>4, <1>5, NothingAssumption DEF RedirectInit, Init, Dialing, Here, Fresh
<1> QED
  BY <1>1, <1>6

\* The variables of the insert always have their types, a session has a node as
\* soon as it is created, and a client opens a session for an endpoint exactly
\* when it is known for which (BaseSessionPool.ts:50-60, 183-226).
THEOREM RedirectTypes == RedirectSpec => []RedirectTypeOK
<1>1. RedirectInit => RouteInv /\ Created /\ Dialing
  BY RouteStart, DialingStart
<1>2. /\ RouteInv /\ Created /\ Dialing /\ [RedirectNext]_redirectVars
      => (RouteInv /\ Created /\ Dialing)'
  BY RouteNext, CreatedKept, DialingNext
<1>3. RouteInv /\ Dialing => RedirectTypeOK
  BY NodesInTurn
  DEF RouteInv, RouteTypes, PoolInv, PoolTypes, CacheInv, Orderly, Dialing, RedirectTypeOK,
      Continuations
<1> QED
  BY <1>1, <1>2, <1>3, PTL DEF RedirectSpec

-----------------------------------------------------------------------------
(* Sharing in a pool that does not grow by itself *)

\* Sessions not opened for an endpoint stand in one place, in idle or with a client,
\* and none of them is kept for an endpoint.
Alone ==
    /\ \A i, j \in 1..Len(idle) : idle[i] = idle[j] => i = j \/ idle[i] \in redirected
    /\ \A i \in 1..Len(idle), c \in Clients : holds[c] = idle[i] => idle[i] \in redirected
    /\ \A c, d \in Clients : holds[c] = holds[d] /\ holds[c] # NoSession
                               => c = d \/ holds[c] \in redirected
    /\ \A e \in Endpoints : sessionAt[e] # NoSession => sessionAt[e] \in redirected

\* The inductive invariant, until the pool is disturbed: it is full as well, so that
\* getSession never creates, whatever is opened besides.
Confined == Undisturbed => FullPool /\ Alone
ConfinedInv == RouteInv /\ Created /\ Confined

\* The types of the pool and what is idle, as an undisturbed pool has it.
LEMMA ConfinedTypes ==
    ASSUME ConfinedInv, Undisturbed
    PROVE  /\ pc \in [Clients -> RouteStates]
           /\ holds \in [Clients -> Sessions \cup {NoSession}]
           /\ conn \in [Sessions -> ConnState] /\ pool \in SUBSET Sessions
           /\ idle \in Seq(Sessions) /\ Len(idle) \in Nat
           /\ \A i \in 1..Len(idle) : idle[i] \in Sessions /\ conn[idle[i]] = "open"
           /\ initPending \in Nat /\ IsFiniteSet(pool) /\ Cardinality(pool) \in Nat
           /\ MaxPoolSize \in Nat \ {0}
           /\ \A s \in pool : ~ Fresh(s)
           /\ \A c \in Clients : holds[c] \in Sessions => ~ Fresh(holds[c])
           /\ ~ StaleHead /\ IdleLeft = idle /\ PoolLeft = pool
<1>1. /\ pc \in [Clients -> RouteStates]
      /\ holds \in [Clients -> Sessions \cup {NoSession}]
      /\ conn \in [Sessions -> ConnState] /\ pool \in SUBSET Sessions
      /\ idle \in Seq(Sessions) /\ Len(idle) \in Nat
      /\ initPending \in Nat /\ MaxPoolSize \in Nat \ {0}
  BY SizesAssumption, LenProperties DEF ConfinedInv, RouteInv, PoolInv, PoolTypes
<1>2. \A i \in 1..Len(idle) : idle[i] \in Sessions
  BY <1>1, ElementOfSeq
<1>3. \A i \in 1..Len(idle) : conn[idle[i]] = "open"
  BY <1>1, <1>2 DEF ConfinedInv, Created, Undisturbed, ConnState
<1>4. IsFiniteSet(pool) /\ Cardinality(pool) \in Nat
  BY <1>1, SessionsAssumption, FS_Subset, FS_CardinalityType
<1>5. \A c \in Clients : holds[c] \in Sessions => ~ Fresh(holds[c])
  BY DEF ConfinedInv, RouteInv, Inserting, Fresh
<1>6. \A s \in pool : ~ Fresh(s)
  BY DEF ConfinedInv, Created, Fresh
<1>7. ~ StaleHead
  <2>1. idle # <<>> => 1 \in 1..Len(idle) /\ Head(idle) = idle[1]
    BY <1>1, HeadTailProperties, EmptySeq
  <2> QED
    BY <2>1, <1>3 DEF StaleHead, IsOpen
<1> QED
  BY <1>1, <1>2, <1>3, <1>4, <1>5, <1>6, <1>7 DEF IdleLeft, PoolLeft

\* A pool that only gets larger stays full.
LEMMA StaysFull ==
    ASSUME ConfinedInv, Undisturbed, FullPool, phase = "ready", phase' = phase,
           pool \subseteq pool', pool' \in SUBSET Sessions,
           \A c \in Clients : pc'[c] # "creating"
    PROVE  FullPool'
<1>1. IsFiniteSet(pool') /\ Cardinality(pool') \in Nat /\ Cardinality(pool) <= Cardinality(pool')
  BY SessionsAssumption, FS_Subset, FS_CardinalityType
<1> QED
  BY <1>1, ConfinedTypes DEF FullPool, HasRoom

\* The steps of the pool keep sessions apart that were not opened for an endpoint
\* (BaseSessionPool.ts:235-246, 293-298, 303-333).
LEMMA ConfinedPool ==
    ASSUME MinPoolSize = MaxPoolSize, ConfinedInv, Undisturbed, Undisturbed', [Next]_vars,
           UNCHANGED <<sessionAt, redirected>>
    PROVE  FullPool' /\ Alone'
<1> USE ConfinedTypes
<1>t. FullPool /\ Alone
  BY DEF ConfinedInv, Confined
<1>1. CASE InitCreated
  <2>1. PICK s \in Sessions : /\ Fresh(s) /\ pool' = pool \cup {s} /\ idle' = Append(idle, s)
                              /\ initPending > 0 /\ initPending' = initPending - 1
                              /\ phase' = IF phase = "initializing" /\ initPending = 1
                                            THEN "ready" ELSE phase
                              /\ UNCHANGED <<pc, holds>>
    BY <1>1 DEF InitCreated
  <2>2. s \notin pool /\ Cardinality(pool') = Cardinality(pool) + 1
    BY <2>1, FS_AddElement
  <2>3. FullPool'
    BY <2>1, <2>2, <1>t DEF FullPool, HasRoom
  <2>4. /\ Len(idle') = Len(idle) + 1
        /\ \A i \in 1..Len(idle) : idle'[i] = idle[i] /\ idle[i] # s
        /\ idle'[Len(idle) + 1] = s
    BY <2>1, AppendProperties DEF Fresh
  <2>5. \A c \in Clients : holds[c] # s
    BY <2>1
  <2>6. \A i \in 1..Len(idle') : i \in 1..Len(idle) \/ i = Len(idle) + 1
    BY <2>4
  <2>7. \A i, j \in 1..Len(idle') : idle'[i] = idle'[j] => i = j \/ idle'[i] \in redirected'
    BY <2>4, <2>6, <1>t DEF Alone
  <2>8. \A i \in 1..Len(idle'), c \in Clients : holds'[c] = idle'[i] => idle'[i] \in redirected'
    BY <2>1, <2>4, <2>5, <2>6, <1>t DEF Alone
  <2> QED
    BY <2>1, <2>3, <2>7, <2>8, <1>t DEF Alone
<1>2. CASE InitFails
  BY <1>2, <1>t DEF InitFails, poolVars, FullPool, Alone, HasRoom
<1>3. ASSUME NEW c \in Clients, Reuse(c) PROVE FullPool' /\ Alone'
  <2>1. /\ idle # <<>> /\ idle' = Tail(idle) /\ phase = "ready"
        /\ pc' = [pc EXCEPT ![c] = "using"] /\ holds' = [holds EXCEPT ![c] = Head(idle)]
        /\ UNCHANGED <<phase, initPending, pool>>
    BY <1>3, <1>t DEF Reuse, MayCall, IdleRest, FullPool
  <2>2. /\ Len(idle') = Len(idle) - 1
        /\ \A i \in 1..Len(idle') : idle'[i] = idle[i + 1]
        /\ Head(idle) = idle[1] /\ 1 \in 1..Len(idle)
    BY <2>1, HeadTailProperties, EmptySeq
  <2>3. \A i \in 1..Len(idle') : i + 1 \in 1..Len(idle) /\ i + 1 # 1
    BY <2>2
  <2>4. \A d \in Clients : holds'[d] = IF d = c THEN idle[1] ELSE holds[d]
    BY <2>1, <2>2
  <2>5. \A i, j \in 1..Len(idle') : idle'[i] = idle'[j] => i = j \/ idle'[i] \in redirected'
    BY <2>2, <2>3, <1>t DEF Alone
  <2>6. \A i \in 1..Len(idle'), d \in Clients : holds'[d] = idle'[i] => idle'[i] \in redirected'
    BY <2>2, <2>3, <2>4, <1>t DEF Alone
  <2>7. \A d, e \in Clients : holds'[d] = holds'[e] /\ holds'[d] # NoSession
                                => d = e \/ holds'[d] \in redirected'
    BY <2>2, <2>4, <1>t DEF Alone
  <2>8. FullPool'
    BY <2>1, <1>t, StaysFull DEF FullPool
  <2> QED
    BY <2>5, <2>6, <2>7, <2>8, <1>t DEF Alone
<1>4. ASSUME NEW c \in Clients, CreateNew(c) \/ CreateDone(c) \/ CreateFails(c) PROVE FALSE
  BY <1>4, <1>t DEF CreateNew, MayCall, CreateDone, CreateFails, FullPool
<1>5. ASSUME NEW c \in Clients, Enqueue(c) \/ Timeout(c) PROVE FullPool' /\ Alone'
  <2>1. /\ pc[c] # "creating" /\ \E x \in {"waiting", "out"} : pc' = [pc EXCEPT ![c] = x]
        /\ UNCHANGED <<phase, initPending, pool, idle, holds>>
        /\ phase = "ready"
    BY <1>5, <1>t DEF Enqueue, Timeout, TimerArmed, MayCall, FullPool
  <2>2. FullPool'
    BY <2>1, <1>t, StaysFull DEF FullPool
  <2> QED
    BY <2>1, <2>2, <1>t DEF Alone
<1>6. ASSUME NEW c \in Clients, ReleaseForeign(c) PROVE FullPool' /\ Alone'
  <2>1. /\ pc[c] = "using" /\ pc' = [pc EXCEPT ![c] = "out"]
        /\ holds' = [holds EXCEPT ![c] = NoSession]
        /\ UNCHANGED <<phase, initPending, pool, idle>>
        /\ phase = "ready"
    BY <1>6, <1>t DEF ReleaseForeign, poolVars, FullPool
  <2>2. FullPool'
    BY <2>1, <1>t, StaysFull DEF FullPool
  <2>3. \A d \in Clients : holds'[d] = IF d = c THEN NoSession ELSE holds[d]
    BY <2>1
  <2>4. \A i \in 1..Len(idle) : idle[i] # NoSession
    BY MarkersAssumption
  <2> QED
    BY <2>1, <2>2, <2>3, <2>4, <1>t DEF Alone
<1>7. ASSUME NEW c \in Clients, ReleaseToIdle(c) PROVE FullPool' /\ Alone'
  <2> DEFINE s == holds[c]
  <2>1. /\ pc[c] = "using" /\ pc' = [pc EXCEPT ![c] = "out"] /\ s \in pool
        /\ idle' = Append(idle, s) /\ holds' = [holds EXCEPT ![c] = NoSession]
        /\ UNCHANGED <<phase, initPending, pool>>
        /\ phase = "ready"
    BY <1>7, <1>t DEF ReleaseToIdle, FullPool
  <2>2. FullPool'
    BY <2>1, <1>t, StaysFull DEF FullPool
  <2>3. \A d \in Clients : holds'[d] = IF d = c THEN NoSession ELSE holds[d]
    BY <2>1
  <2>4. /\ \A i \in 1..Len(idle) : idle[i] = s => s \in redirected
        /\ \A d \in Clients : d # c /\ holds[d] = s => s \in redirected
        /\ s # NoSession
    BY <2>1, <1>t, MarkersAssumption DEF Alone
  <2> HIDE DEF s
  <2>5. /\ Len(idle') = Len(idle) + 1
        /\ \A i \in 1..Len(idle) : idle'[i] = idle[i]
        /\ idle'[Len(idle) + 1] = s
    BY <2>1, AppendProperties
  <2>6. \A i \in 1..Len(idle') : i \in 1..Len(idle) \/ i = Len(idle) + 1
    BY <2>5
  <2>7. \A i, j \in 1..Len(idle') : idle'[i] = idle'[j] => i = j \/ idle'[i] \in redirected'
    BY <2>4, <2>5, <2>6, <1>t DEF Alone
  <2>8. \A i \in 1..Len(idle'), d \in Clients : holds'[d] = idle'[i] => idle'[i] \in redirected'
    <3>1. \A i \in 1..Len(idle) : idle[i] # NoSession
      BY MarkersAssumption
    <3> QED
      BY <2>3, <2>4, <2>5, <2>6, <3>1, <1>t DEF Alone
  <2> QED
    BY <2>2, <2>3, <2>7, <2>8, <1>t DEF Alone
<1>8. ASSUME NEW c \in Clients, ReleaseToWaiter(c) PROVE FullPool' /\ Alone'
  <2> DEFINE s == holds[c]
             d == Head(waitQueue)
  <2>1. /\ pc[c] = "using" /\ s \in pool
        /\ UNCHANGED <<phase, initPending, pool, idle>>
        /\ phase = "ready"
        /\ \/ /\ pc' = [pc EXCEPT ![c] = "out", ![d] = "using"]
              /\ holds' = [holds EXCEPT ![c] = NoSession, ![d] = s]
              /\ d # Expired
           \/ /\ pc' = [pc EXCEPT ![c] = "out"] /\ holds' = [holds EXCEPT ![c] = NoSession]
    BY <1>8, <1>t DEF ReleaseToWaiter, FullPool
  <2>2. d # Expired => d \in Clients
    BY <1>8, HeadTailProperties DEF ReleaseToWaiter, NobodyWaits, ConfinedInv, RouteInv, PoolInv,
                                    PoolTypes
  <2> HIDE DEF d
  <2>3. \A e \in Clients : /\ holds'[e] \in {holds[e], NoSession, s}
                           /\ holds'[e] = s => e = d \/ (e # c /\ holds[e] = s)
                           /\ e # d => holds'[e] \in {holds[e], NoSession}
    BY <2>1, <2>2, MarkersAssumption
  <2>4. \A e \in Clients : pc'[e] # "creating"
    BY <2>1, <2>2, <1>t DEF FullPool
  <2>5. FullPool'
    BY <2>1, <2>4, <1>t, StaysFull
  <2>6. /\ \A i \in 1..Len(idle) : idle[i] = s => s \in redirected
        /\ \A e \in Clients : e # c /\ holds[e] = s => s \in redirected
        /\ \A i \in 1..Len(idle) : idle[i] # NoSession
        /\ s # NoSession
    BY <2>1, <1>t, MarkersAssumption DEF Alone
  <2> HIDE DEF s
  <2>7. \A i \in 1..Len(idle), e \in Clients : holds'[e] = idle[i] => idle[i] \in redirected
    BY <2>3, <2>6, <1>t DEF Alone
  <2>8. ASSUME NEW e \in Clients, NEW f \in Clients,
               holds'[e] = holds'[f], holds'[e] # NoSession, e # f
        PROVE  holds'[e] \in redirected
    <3>1. CASE holds'[e] = s
      <4>1. \E g \in {e, f} : g # c /\ holds[g] = s
        BY <2>3, <2>8, <3>1
      <4> QED
        BY <2>6, <3>1, <4>1
    <3>2. CASE holds'[e] # s
      BY <2>3, <2>8, <3>2, <1>t DEF Alone
    <3> QED
      BY <3>1, <3>2
  <2> QED
    BY <2>1, <2>5, <2>7, <2>8, <1>t DEF Alone
<1>9. ASSUME NEW s \in Sessions, Lose(s) \/ Cleaned(s) \/ CloseSession(s) PROVE FALSE
  BY <1>9 DEF Lose, Cleaned, CloseSession, CloseReturns, Undisturbed
<1>10. CASE CleanupTick
  BY <1>10, TickDisturbs
<1>11. CASE CloseStart
  BY <1>11 DEF CloseStart, ClearPool, Undisturbed
<1>12. CASE UNCHANGED vars
  BY <1>12, <1>t DEF vars, poolVars, FullPool, Alone, HasRoom
<1> QED
  BY <1>1, <1>2, <1>3, <1>4, <1>5, <1>6, <1>7, <1>8, <1>9, <1>10, <1>11, <1>12 DEF Next

\* The steps of redirection share only what they have opened, and leave the pool as
\* full as it was (BaseSessionPool.ts:196-224).
LEMMA ConfinedRedirects ==
    ASSUME ConfinedInv, Undisturbed, NEW c \in Clients,
           InsertOpened(c) \/ \E d \in Devices : InsertThere(c, d) \/ InsertOpens(c, d)
    PROVE  FullPool' /\ Alone'
<1> USE ConfinedTypes
<1>t. FullPool /\ Alone
  BY DEF ConfinedInv, Confined
<1>1. ASSUME NEW d \in Devices, InsertThere(c, d) PROVE FullPool' /\ Alone'
  <2> DEFINE s == sessionAt[Found(d)]
  <2>1. Found(d) \in Endpoints
    BY <1>1, FoundType DEF InsertThere, Here, ConfinedInv, RouteInv
  <2>2. s # NoSession /\ s \in redirected
    BY <1>1, <2>1, <1>t DEF InsertThere, Reusable, Alone
  <2>3. /\ pc' = [pc EXCEPT ![c] = "using"] /\ holds' = [holds EXCEPT ![c] = s]
        /\ UNCHANGED <<phase, initPending, pool, idle, sessionAt, redirected>>
        /\ phase = "ready"
    BY <1>1, <1>t DEF InsertThere, MayCall, FullPool
  <2> HIDE DEF s
  <2>4. FullPool'
    BY <2>3, <1>t, StaysFull DEF FullPool
  <2>5. \A e \in Clients : holds'[e] = IF e = c THEN s ELSE holds[e]
    BY <2>3
  <2> QED
    BY <2>2, <2>3, <2>4, <2>5, <1>t DEF Alone
<1>2. ASSUME NEW d \in Devices, InsertOpens(c, d) PROVE FullPool' /\ Alone'
  <2>1. /\ pc' = [pc EXCEPT ![c] = "opening"]
        /\ UNCHANGED <<phase, initPending, pool, idle, holds, sessionAt, redirected>>
        /\ phase = "ready"
    BY <1>2, <1>t DEF InsertOpens, MayCall, poolVars, history, FullPool
  <2>2. FullPool'
    BY <2>1, <1>t, StaysFull DEF FullPool
  <2> QED
    BY <2>1, <2>2, <1>t DEF Alone
<1>3. CASE InsertOpened(c)
  <2>1. /\ pc[c] = "opening" /\ UNCHANGED <<phase, initPending, idle>> /\ phase = "ready"
    BY <1>3, <1>t DEF InsertOpened, FullPool
  <2>2. CASE /\ pc' = [pc EXCEPT ![c] = "out"]
             /\ UNCHANGED <<conn, peer, sessionAt, redirected, pool, inUse, holds>>
    <3>1. FullPool'
      BY <2>1, <2>2, <1>t, StaysFull DEF FullPool
    <3> QED
      BY <2>1, <2>2, <3>1, <1>t DEF Alone
  <2>3. ASSUME NEW s \in Sessions, Fresh(s), sessionAt' = [sessionAt EXCEPT ![target[c]] = s],
               redirected' = redirected \cup {s}, pool' = pool \cup {s},
               holds' = [holds EXCEPT ![c] = s], pc' = [pc EXCEPT ![c] = "using"]
        PROVE  FullPool' /\ Alone'
    <3>1. FullPool'
      BY <2>1, <2>3, <1>t, StaysFull DEF FullPool
    <3>2. \A e \in Clients : holds'[e] = IF e = c THEN s ELSE holds[e]
      BY <2>3
    <3>3. \A e \in Endpoints : sessionAt'[e] \in {sessionAt[e], s}
      BY <2>3 DEF ConfinedInv, RouteInv, RouteTypes
    <3> QED
      BY <2>1, <2>3, <3>1, <3>2, <3>3, <1>t DEF Alone
  <2> QED
    BY <1>3, <2>2, <2>3 DEF InsertOpened, Opened
<1> QED
  BY <1>1, <1>2, <1>3

\* Every step keeps sharing where it is, until the pool is disturbed; and nothing
\* undoes a disturbance.
LEMMA ConfinedNext ==
    ASSUME MinPoolSize = MaxPoolSize, ConfinedInv, [RedirectNext]_redirectVars
    PROVE  ConfinedInv'
<1>1. RouteInv' /\ Created'
  BY RouteNext, CreatedKept DEF ConfinedInv
<1>2. turn \in Seq(Continuations) /\ PoolTypes(RouteStates)
  BY DEF ConfinedInv, RouteInv, RouteTypes, PoolInv
<1>3. ASSUME NEW c \in Clients, Undisturbed',
             InsertOpened(c) \/ \E d \in Devices : InsertThere(c, d) \/ InsertOpens(c, d)
      PROVE  Undisturbed
  <2>1. /\ UNCHANGED <<phase, cleaning>>
        /\ conn' = conn \/ \E s \in Sessions : Fresh(s) /\ conn' = [conn EXCEPT ![s] = "open"]
    BY <1>3 DEF InsertOpened, InsertThere, InsertOpens
  <2> QED
    BY <2>1, <1>2, <1>3 DEF Undisturbed, PoolTypes, Fresh
<1>4. ASSUME Undisturbed', [Next]_vars PROVE Undisturbed
  BY <1>2, <1>4, NeverUndone
<1>5. ASSUME Undisturbed',
             ~ \E c \in Clients : \/ InsertOpened(c)
                                  \/ \E d \in Devices : InsertThere(c, d) \/ InsertOpens(c, d)
      PROVE  UNCHANGED <<sessionAt, redirected>>
  <2>1. CASE Closing
    <3>1. phase' # "closed"
      BY <1>5 DEF Undisturbed
    <3> QED
      BY <2>1, <3>1 DEF Closing, history
  <2>2. CASE UNCHANGED redirectVars
    BY <2>2 DEF redirectVars, routeVars, history
  <2>3. ASSUME NEW c \in Clients,
               \/ Reply(c) \/ Connected(c) \/ TimedOut(c) \/ TakeSession(c) \/ DirectRelease(c)
               \/ \E d \in Devices : InsertAnywhere(c, d) \/ DirectInsert(c, d)
        PROVE  UNCHANGED <<sessionAt, redirected>>
    BY <2>3 DEF Reply, Connected, TimedOut, TakeSession, DirectRelease, InsertAnywhere, DirectInsert,
                GetSession, history
  <2>4. CASE InitStep \/ EntryAges \/ Maintenance \/ Continue \/ DirectContinue
    BY <2>4 DEF InitStep, EntryAges, Maintenance, Continue, DirectContinue, history
  <2> QED
    BY <1>5, <2>1, <2>2, <2>3, <2>4 DEF RedirectNext
<1>6. ASSUME Undisturbed' PROVE FullPool' /\ Alone'
  <2>1. CASE \E c \in Clients : \/ InsertOpened(c)
                                \/ \E d \in Devices : InsertThere(c, d) \/ InsertOpens(c, d)
    BY <1>3, <1>6, <2>1, ConfinedRedirects
  <2>2. CASE ~ \E c \in Clients : \/ InsertOpened(c)
                                  \/ \E d \in Devices : InsertThere(c, d) \/ InsertOpens(c, d)
    <3>1. [Next]_vars
      BY <1>2, <2>2, PoolStep
    <3> QED
      BY <1>4, <1>5, <1>6, <2>2, <3>1, ConfinedPool
  <2> QED
    BY <2>1, <2>2
<1> QED
  BY <1>1, <1>6 DEF ConfinedInv, Confined

\* A session that stands in one place counts once.
LEMMA ConfinedImplies == ConfinedInv => SharingConfined
<1> SUFFICES ASSUME ConfinedInv, Undisturbed, NEW s \in Sessions \ redirected
             PROVE  Cardinality({i \in DOMAIN idle : idle[i] = s})
                        + Cardinality({c \in Clients : holds[c] = s}) <= 1
  BY DEF SharingConfined
<1> DEFINE places  == {i \in DOMAIN idle : idle[i] = s}
           holders == {c \in Clients : holds[c] = s}
<1>1. Alone /\ DOMAIN idle = 1..Len(idle) /\ s # NoSession
  BY ConfinedTypes, LenProperties, MarkersAssumption DEF ConfinedInv, Confined
<1>2. \A i, j \in places : i = j
  BY <1>1 DEF Alone
<1>3. \A c, d \in holders : c = d
  BY <1>1 DEF Alone
<1>4. places = {} \/ holders = {}
  BY <1>1 DEF Alone
<1>5. ASSUME NEW S, \A x, y \in S : x = y, S # {} PROVE \E x : S = {x}
  <2>1. PICK x \in S : TRUE
    BY <1>5
  <2>2. S = {x}
    BY <1>5, <2>1
  <2> QED
    BY <2>2
<1> HIDE DEF places, holders
<1>6. /\ Cardinality({}) = 0
      /\ \A x : Cardinality({x}) = 1
  BY FS_EmptySet, FS_Singleton
<1>7. Cardinality(places) = 0 \/ Cardinality(places) = 1
  <2>1. places # {} => \E x : places = {x}
    BY <1>2, <1>5
  <2> QED
    BY <1>6, <2>1
<1>8. Cardinality(holders) = 0 \/ Cardinality(holders) = 1
  <2>1. holders # {} => \E x : holders = {x}
    BY <1>3, <1>5
  <2> QED
    BY <1>6, <2>1
<1>9. Cardinality(places) + Cardinality(holders) <= 1
  BY <1>4, <1>6, <1>7, <1>8
<1> QED
  BY <1>9 DEF places, holders

\* In a pool that does not grow by itself, until a connection is lost, cleaned up or
\* closed, only sessions opened for an endpoint are ever with two clients or twice
\* in idle (BaseSessionPool.ts:201-205, 303-333).
THEOREM SharingStaysConfined ==
    ASSUME MinPoolSize = MaxPoolSize
    PROVE  RedirectSpec => []SharingConfined
<1>1. RedirectInit => ConfinedInv
  <2> SUFFICES ASSUME RedirectInit PROVE FullPool /\ Alone
    BY RouteStart, DialingStart DEF ConfinedInv, Confined
  <2>1. FullPool
    BY FixedInit DEF RedirectInit, FixedInv
  <2>2. Len(idle) = 0 /\ \A c \in Clients : holds[c] = NoSession
    BY EmptySeq DEF RedirectInit, Init
  <2>3. \A e \in Endpoints : sessionAt[e] = NoSession
    BY DEF RedirectInit
  <2> QED
    BY <2>1, <2>2, <2>3 DEF Alone
<1>2. ConfinedInv /\ [RedirectNext]_redirectVars => ConfinedInv'
  BY ConfinedNext
<1> QED
  BY <1>1, <1>2, ConfinedImplies, PTL DEF RedirectSpec
=============================================================================

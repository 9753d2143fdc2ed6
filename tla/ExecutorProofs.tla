---------------------------- MODULE ExecutorProofs ----------------------------
(***************************************************************************)
(* Theorems about concurrent work: the workers of ConcurrentExecutor, for  *)
(* any numbers of items and workers and any size of the batches;           *)
(* Semaphore, for any tasks and any limit; and ParallelPool, for any       *)
(* calls, items, widths and sessions.                                      *)
(***************************************************************************)
EXTENDS ConcurrentExecutor, Semaphore, ParallelPool, TLAPS, FiniteSetTheorems,
        SequenceTheorems

-----------------------------------------------------------------------------
(* Lemmas about numbers and batches *)

\* What Math.min returns.
LEMMA MinOfTwo ==
    ASSUME NEW a \in Int, NEW b \in Int
    PROVE  Min({a, b}) = IF a <= b THEN a ELSE b
<1> DEFINE m == IF a <= b THEN a ELSE b
<1>1. m \in {a, b} /\ \A y \in {a, b} : m <= y
  OBVIOUS
<1>2. \A x \in {a, b} : (\A y \in {a, b} : x <= y) => x = m
  OBVIOUS
<1> HIDE DEF m
<1>3. Min({a, b}) = m
  BY <1>1, <1>2 DEF Min
<1> QED
  BY <1>3 DEF m

\* A batch has an item at least, and a worker for its first one
\* (ConcurrentExecutor.ts:110, 213).
LEMMA Sizes ==
    ASSUME NEW f \in 1..N
    PROVE  /\ LastOf(f) \in f..N
           /\ LastOf(f) = N \/ LastOf(f) = f + BatchSize - 1
           /\ Started(f) \in 1..Concurrency
           /\ f + Started(f) - 1 <= LastOf(f)
<1>1. LastOf(f) = IF f + BatchSize - 1 <= N THEN f + BatchSize - 1 ELSE N
  BY MinOfTwo, SizesAssumption DEF LastOf
<1>2. LastOf(f) \in f..N
  BY <1>1, SizesAssumption
<1>3. Started(f) = IF Concurrency <= LastOf(f) - f + 1 THEN Concurrency ELSE LastOf(f) - f + 1
  BY <1>2, MinOfTwo, SizesAssumption DEF Started
<1> QED
  BY <1>1, <1>2, <1>3, SizesAssumption

\* The workers of a batch begin with its first items, one each.
LEMMA Starting ==
    ASSUME NEW f \in 1..N
    PROVE  LET ws == StartWorkers(f)
           IN  /\ ws \in [Workers -> 0..N]
               /\ ws[1] = f /\ 1 \in Workers
               /\ \A w \in Workers : ws[w] # 0 => ws[w] \in f..(f + Started(f) - 1)
               /\ \A v, w \in Workers : ws[v] = ws[w] /\ v # w => ws[v] = 0
               /\ {ws[w] : w \in Workers} \ {0} = f..(f + Started(f) - 1)
<1> DEFINE ws == StartWorkers(f)
<1>1. /\ LastOf(f) \in f..N /\ Started(f) \in 1..Concurrency
      /\ f + Started(f) - 1 <= LastOf(f)
  BY Sizes
<1>2. ws = [w \in Workers |-> IF w <= Started(f) THEN f + w - 1 ELSE 0]
  BY DEF StartWorkers
<1>3. Workers = 1..Concurrency
  BY DEF Workers
<1> HIDE DEF ws
<1>4. \A w \in Workers : ws[w] = IF w <= Started(f) THEN f + w - 1 ELSE 0
  BY <1>2
<1>5. ws \in [Workers -> 0..N]
  <2>1. \A w \in Workers : ws[w] \in 0..N
    <3> TAKE w \in Workers
    <3>1. w <= Started(f) => f + w - 1 \in 0..N
      BY <1>1, <1>3, SizesAssumption
    <3> QED
      BY <1>4, <3>1, SizesAssumption
  <2> QED
    BY <1>2, <2>1
<1>6. ws[1] = f /\ 1 \in Workers
  BY <1>1, <1>3, <1>4, SizesAssumption
<1>7. \A w \in Workers : ws[w] # 0 => ws[w] \in f..(f + Started(f) - 1)
  BY <1>1, <1>3, <1>4, SizesAssumption
<1>8. \A v, w \in Workers : ws[v] = ws[w] /\ v # w => ws[v] = 0
  BY <1>1, <1>3, <1>4, SizesAssumption
<1>9. ASSUME NEW i \in f..(f + Started(f) - 1)
      PROVE  i - f + 1 \in Workers /\ ws[i - f + 1] = i /\ i # 0
  BY <1>1, <1>3, <1>4, SizesAssumption
<1>10. {ws[w] : w \in Workers} \ {0} = f..(f + Started(f) - 1)
  BY <1>7, <1>9
<1> QED
  BY <1>5, <1>6, <1>7, <1>8, <1>10 DEF ws

\* The size of two sets without a common element.
LEMMA DisjointCount ==
    ASSUME NEW S, NEW T, IsFiniteSet(S), IsFiniteSet(T), S \cap T = {}
    PROVE  /\ IsFiniteSet(S \cup T)
           /\ Cardinality(S \cup T) = Cardinality(S) + Cardinality(T)
           /\ Cardinality(S) \in Nat /\ Cardinality(T) \in Nat
<1>1. Cardinality(S) \in Nat /\ Cardinality(T) \in Nat /\ Cardinality({}) = 0
  BY FS_CardinalityType, FS_EmptySet
<1>2. IsFiniteSet(S \cup T) /\ Cardinality(S \cup T) = Cardinality(S) + Cardinality(T) - Cardinality({})
  BY FS_Union
<1> QED
  BY <1>1, <1>2

\* What the finished batches report, with one batch more.
LEMMA BatchCount ==
    ASSUME NEW f \in 1..N, NEW l \in f..N,
           NEW D \in SUBSET Items, NEW F \in SUBSET Items, D \cap F = {}, f..l \subseteq D \cup F
    PROVE  Cardinality(D \cap (1..(f - 1))) + (Cardinality(f..l) - Cardinality(F \cap (f..l)))
               = Cardinality(D \cap (1..l))
<1> DEFINE A == D \cap (1..(f - 1))
           B == D \cap (f..l)
           C == F \cap (f..l)
<1>1. IsFiniteSet(f..l) /\ IsFiniteSet(1..(f - 1))
  <2>1. f \in Int /\ l \in Int /\ 1 \in Int /\ f - 1 \in Int
    BY SizesAssumption
  <2> QED
    BY <2>1, FS_Interval
<1>2. IsFiniteSet(A) /\ IsFiniteSet(B) /\ IsFiniteSet(C)
  BY <1>1, FS_Intersection
<1>3. A \cap B = {} /\ A \cup B = D \cap (1..l)
  BY SizesAssumption
<1>4. B \cap C = {} /\ B \cup C = f..l
  OBVIOUS
<1> HIDE DEF A, B, C
<1>5. /\ Cardinality(A) \in Nat /\ Cardinality(B) \in Nat /\ Cardinality(C) \in Nat
      /\ Cardinality({}) = 0
  BY <1>2, FS_CardinalityType, FS_EmptySet
<1>6. Cardinality(A \cup B) = Cardinality(A) + Cardinality(B)
  BY <1>2, <1>3, DisjointCount
<1>7. Cardinality(B \cup C) = Cardinality(B) + Cardinality(C)
  BY <1>2, <1>4, DisjointCount
<1>8. Cardinality(f..l) = Cardinality(B) + Cardinality(C)
  BY <1>4, <1>7
<1>9. Cardinality(D \cap (1..l)) = Cardinality(A) + Cardinality(B)
  BY <1>3, <1>6
<1>10. Cardinality(A) + (Cardinality(f..l) - Cardinality(C)) = Cardinality(D \cap (1..l))
  BY <1>5, <1>8, <1>9
<1> QED
  BY <1>10 DEF A, C

-----------------------------------------------------------------------------
(* The inductive invariant of the workers *)

\* The items of the current batch up to itemIndex have been handed out.
HandedOut ==
    /\ first \in 1..N /\ itemIndex \in first..LastOf(first)
    /\ \A w \in Workers : working[w] # 0 => working[w] \in first..itemIndex

\* A batch starts when all earlier ones have settled.
EarlierSettled == 1..(first - 1) \subseteq done \cup failed

\* The flag is the failure of an item of the current batch under stopOnError, and
\* with stopOnError no batch follows one that failed.
StopFlag ==
    /\ shouldStop => stopOnError /\ failed \cap Batch # {}
    /\ stopOnError /\ failed # {} => shouldStop

\* The workers end when there is nothing left to take.
AllTaken == Ended => itemIndex = LastOf(first) \/ shouldStop

\* Until the return the report counts the batches before the current one.
Counted ==
    /\ ~ returned => reported = Cardinality(done \cap (1..(first - 1)))
    /\ returned => Ended

ExecInv ==
    /\ TypeOK /\ HandedOut /\ EachItemOnce /\ EarlierSettled
    /\ StopFlag /\ AllTaken /\ Counted /\ FullReport

\* What one round of a worker's loop does to the items in flight
\* (ConcurrentExecutor.ts:125-130).
LEMMA LoopOnce ==
    ASSUME TypeOK, HandedOut, EachItemOnce, UNCHANGED first,
           NEW w \in Workers, NEW stop \in BOOLEAN, working[w] # 0, Loop(w, stop)
    PROVE  /\ working' \in [Workers -> 0..N]
           /\ itemIndex' \in {itemIndex, itemIndex + 1}
           /\ HandedOut'
           /\ InFlight' = (InFlight \ {working[w]}) \cup ((itemIndex + 1)..itemIndex')
           /\ \A u, v \in Workers : working'[u] = working'[v] /\ u # v => working'[u] = 0
           /\ Ended' => stop \/ itemIndex' = LastOf(first)
           /\ stop => itemIndex' = itemIndex
<1>1. /\ working \in [Workers -> 0..N] /\ itemIndex \in Nat /\ first \in 1..N
      /\ LastOf(first) \in first..N
      /\ itemIndex \in first..LastOf(first)
      /\ \A v \in Workers : working[v] # 0 => working[v] \in first..itemIndex
      /\ \A u, v \in Workers : working[u] = working[v] /\ u # v => working[u] = 0
  BY Sizes, SizesAssumption DEF TypeOK, HandedOut, EachItemOnce
<1>2. CASE More(stop) /\ Loop(w, stop) /\ itemIndex' = itemIndex + 1
           /\ working' = [working EXCEPT ![w] = NextItem]
  <2>1. itemIndex < LastOf(first) /\ ~ stop /\ NextItem = itemIndex + 1 /\ NextItem \in 1..N
    BY <1>1, <1>2, SizesAssumption DEF More, NextItem
  <2>2. working' = [working EXCEPT ![w] = itemIndex + 1]
    BY <1>2, <2>1
  <2>3. \A v \in Workers : working'[v] = IF v = w THEN itemIndex + 1 ELSE working[v]
    BY <1>1, <2>2
  <2>4. working' \in [Workers -> 0..N]
    BY <1>1, <2>1, <2>2
  <2>5. /\ itemIndex' \in first..LastOf(first)
        /\ \A v \in Workers : working'[v] # 0 => working'[v] \in first..itemIndex'
    BY <1>1, <1>2, <2>1, <2>3
  <2>6. \A u, v \in Workers : working'[u] = working'[v] /\ u # v => working'[u] = 0
    BY <1>1, <2>1, <2>3
  <2>7. (itemIndex + 1)..itemIndex' = {itemIndex + 1}
    BY <1>1, <1>2
  <2>8. InFlight' = (InFlight \ {working[w]}) \cup {itemIndex + 1}
    <3>1. ASSUME NEW i \in InFlight' PROVE i \in (InFlight \ {working[w]}) \cup {itemIndex + 1}
      BY <1>1, <2>3, <3>1 DEF InFlight
    <3>2. itemIndex + 1 \in InFlight'
      BY <1>1, <2>3 DEF InFlight
    <3>3. ASSUME NEW i \in InFlight, i # working[w] PROVE i \in InFlight'
      BY <1>1, <2>3, <3>3 DEF InFlight
    <3> QED
      BY <3>1, <3>2, <3>3
  <2>9. ~ Ended'
    BY <1>1, <2>3 DEF Ended
  <2> QED
    BY <1>1, <1>2, <2>1, <2>4, <2>5, <2>6, <2>7, <2>8, <2>9 DEF HandedOut, LastOf
<1>3. CASE ~ More(stop) /\ UNCHANGED itemIndex /\ working' = [working EXCEPT ![w] = 0]
  <2>1. stop \/ itemIndex = LastOf(first)
    BY <1>1, <1>3 DEF More
  <2>2. \A v \in Workers : working'[v] = IF v = w THEN 0 ELSE working[v]
    BY <1>1, <1>3
  <2>3. working' \in [Workers -> 0..N]
    BY <1>1, <1>3, SizesAssumption
  <2>4. HandedOut'
    BY <1>1, <1>3, <2>2 DEF HandedOut, LastOf
  <2>5. \A u, v \in Workers : working'[u] = working'[v] /\ u # v => working'[u] = 0
    BY <1>1, <2>2
  <2>6. (itemIndex + 1)..itemIndex' = {}
    BY <1>1, <1>3
  <2>7. InFlight' = InFlight \ {working[w]}
    <3>1. ASSUME NEW i \in InFlight' PROVE i \in InFlight \ {working[w]}
      BY <1>1, <2>2, <3>1 DEF InFlight
    <3>2. ASSUME NEW i \in InFlight, i # working[w] PROVE i \in InFlight'
      BY <1>1, <2>2, <3>2 DEF InFlight
    <3> QED
      BY <3>1, <3>2
  <2> QED
    BY <1>3, <2>1, <2>3, <2>4, <2>5, <2>6, <2>7
<1> QED
  BY <1>2, <1>3 DEF Loop

\* The call starts the workers of the first batch (ConcurrentExecutor.ts:110, 150-155).
LEMMA ExecInvInit == Init => ExecInv
<1> SUFFICES ASSUME Init PROVE ExecInv
  OBVIOUS
<1>1. 1 \in 1..N /\ first = 1 /\ 1..(first - 1) = {}
  BY SizesAssumption DEF Init
<1>2. /\ LastOf(1) \in 1..N /\ Started(1) \in 1..Concurrency /\ Started(1) <= LastOf(1)
  <2>1. 1 + Started(1) - 1 <= LastOf(1) /\ Started(1) \in 1..Concurrency /\ LastOf(1) \in 1..N
    BY <1>1, Sizes
  <2> QED
    BY <2>1, SizesAssumption
<1>3. /\ working \in [Workers -> 0..N] /\ working[1] = 1 /\ 1 \in Workers
      /\ \A w \in Workers : working[w] # 0 => working[w] \in 1..itemIndex
      /\ \A v, w \in Workers : working[v] = working[w] /\ v # w => working[v] = 0
      /\ InFlight = 1..itemIndex
  <2>1. 1 + Started(1) - 1 = Started(1) /\ working = StartWorkers(1) /\ itemIndex = Started(1)
    BY <1>2 DEF Init
  <2>2. /\ working \in [Workers -> 0..N] /\ working[1] = 1 /\ 1 \in Workers
        /\ \A w \in Workers : working[w] # 0 => working[w] \in 1..(1 + Started(1) - 1)
        /\ \A v, w \in Workers : working[v] = working[w] /\ v # w => working[v] = 0
        /\ {working[w] : w \in Workers} \ {0} = 1..(1 + Started(1) - 1)
    BY <1>1, <2>1, Starting
  <2> QED
    BY <2>1, <2>2 DEF InFlight
<1>4. TypeOK
  <2>1. itemIndex \in 0..N /\ first \in 1..(N + BatchSize) /\ 0 \in 0..N
    BY <1>1, <1>2, SizesAssumption DEF Init
  <2> QED
    BY <1>3, <2>1 DEF Init, TypeOK
<1>5. HandedOut
  BY <1>1, <1>2, <1>3 DEF Init, HandedOut
<1>6. EachItemOnce
  BY <1>3 DEF Init, EachItemOnce
<1>7. EarlierSettled /\ StopFlag
  BY <1>1 DEF Init, EarlierSettled, StopFlag
<1>8. AllTaken /\ FullReport
  BY <1>3 DEF Init, AllTaken, Ended, FullReport
<1>9. Counted
  <2>1. done \cap (1..(first - 1)) = {} /\ Cardinality({}) = 0
    BY <1>1, FS_EmptySet
  <2> QED
    BY <2>1 DEF Init, Counted
<1> QED
  BY <1>4, <1>5, <1>6, <1>7, <1>8, <1>9 DEF ExecInv

\* The settling of an operation keeps it, whichever way the operation ends
\* (ConcurrentExecutor.ts:125-148).
LEMMA SettlesKeeps ==
    ASSUME ExecInv, NEW w \in Workers, Succeed(w) \/ Fail(w)
    PROVE  ExecInv' /\ (shouldStop' => itemIndex' = itemIndex)
<1>1. PICK stop \in BOOLEAN : Loop(w, stop) /\ stop = shouldStop'
  <2>1. CASE Succeed(w)
    BY <2>1 DEF Succeed, ExecInv, TypeOK
  <2>2. CASE Fail(w)
    BY <2>2 DEF Fail, ExecInv, TypeOK
  <2> QED
    BY <2>1, <2>2
<1>2. /\ working[w] # 0 /\ UNCHANGED <<stopOnError, first, reported, returned>>
      /\ ~ returned
  <2>1. working[w] # 0 /\ UNCHANGED <<stopOnError, first, reported, returned>>
    BY DEF Succeed, Fail
  <2> QED
    BY <2>1 DEF ExecInv, Counted, Ended
<1>3. /\ working' \in [Workers -> 0..N]
      /\ itemIndex' \in {itemIndex, itemIndex + 1}
      /\ HandedOut'
      /\ InFlight' = (InFlight \ {working[w]}) \cup ((itemIndex + 1)..itemIndex')
      /\ \A u, v \in Workers : working'[u] = working'[v] /\ u # v => working'[u] = 0
      /\ Ended' => stop \/ itemIndex' = LastOf(first)
      /\ stop => itemIndex' = itemIndex
  BY <1>1, <1>2, LoopOnce DEF ExecInv
<1>4. /\ done' \cup failed' = done \cup failed \cup {working[w]}
      /\ done \subseteq done' /\ done' \subseteq done \cup {working[w]}
      /\ failed' \subseteq failed \cup {working[w]} /\ failed \subseteq failed'
      /\ done' \cap {working[w]} = {} \/ failed' \cap {working[w]} = {}
  <2>1. working[w] \in InFlight
    BY <1>2 DEF InFlight
  <2>2. working[w] \notin done \cup failed
    BY <2>1 DEF ExecInv, EachItemOnce
  <2> QED
    BY <2>2 DEF Succeed, Fail
<1>5. /\ working[w] \in Items /\ working[w] \in InFlight
      /\ itemIndex \in Nat /\ itemIndex' \in first..LastOf(first) /\ LastOf(first) \in first..N
      /\ first \in 1..N /\ itemIndex \in first..LastOf(first) /\ working[w] \in first..itemIndex
  BY <1>2, <1>3, Sizes, SizesAssumption DEF ExecInv, TypeOK, HandedOut, Items, InFlight, LastOf
<1>6. TypeOK'
  <2>1. done' \subseteq Items /\ failed' \subseteq Items
    BY <1>4, <1>5 DEF ExecInv, TypeOK
  <2>2. itemIndex' \in 0..N
    <3>1. N \in Nat
      BY SizesAssumption
    <3> QED
      BY <1>5, <3>1
  <2>3. shouldStop' \in BOOLEAN
    BY <1>1
  <2> QED
    BY <1>2, <1>3, <2>1, <2>2, <2>3 DEF ExecInv, TypeOK
<1>7. EachItemOnce'
  <2>1. done \cup failed \cup InFlight = 1..itemIndex
    BY DEF ExecInv, EachItemOnce
  <2>2. 1..itemIndex' = (1..itemIndex) \cup ((itemIndex + 1)..itemIndex')
    BY <1>3, <1>5
  <2>3. done' \cup failed' \cup InFlight' = 1..itemIndex'
    BY <1>3, <1>4, <1>5, <2>1, <2>2
  <2>4. done' \cap failed' = {}
    BY <1>4 DEF ExecInv, EachItemOnce
  <2>5. ASSUME NEW i \in done' \cup failed', i \in InFlight' PROVE FALSE
    <3>1. i \in 1..itemIndex
      BY <1>4, <1>5, <2>1, <2>5
    <3>2. i \notin (itemIndex + 1)..itemIndex'
      BY <1>5, <3>1
    <3>3. i \in InFlight \ {working[w]}
      BY <1>3, <2>5, <3>2
    <3> QED
      BY <1>4, <2>5, <3>3 DEF ExecInv, EachItemOnce
  <2> QED
    BY <1>3, <2>3, <2>4, <2>5 DEF EachItemOnce
<1>8. EarlierSettled'
  BY <1>2, <1>4 DEF ExecInv, EarlierSettled
<1>9. StopFlag'
  <2>1. working[w] \in Batch /\ Batch' = Batch
    BY <1>2, <1>5 DEF Batch, LastOf
  <2>2. failed \cap Batch # {} => failed' \cap Batch' # {}
    BY <1>4, <2>1
  <2>3. CASE Succeed(w)
    <3>1. UNCHANGED <<shouldStop, failed, stopOnError>>
      BY <2>3 DEF Succeed
    <3> QED
      BY <2>2, <3>1 DEF ExecInv, StopFlag
  <2>4. CASE Fail(w)
    <3>1. /\ failed' = failed \cup {working[w]} /\ UNCHANGED stopOnError
          /\ shouldStop' = (shouldStop \/ stopOnError)
      BY <2>4 DEF Fail
    <3>2. failed' \cap Batch' # {} /\ stopOnError \in BOOLEAN
      BY <2>1, <3>1 DEF ExecInv, TypeOK
    <3>3. shouldStop => stopOnError
      BY DEF ExecInv, StopFlag
    <3> QED
      BY <3>1, <3>2, <3>3 DEF StopFlag
  <2> QED
    BY <2>3, <2>4
<1>10. AllTaken'
  BY <1>1, <1>2, <1>3 DEF AllTaken, LastOf
<1>11. Counted'
  <2>1. done' \cap (1..(first - 1)) = done \cap (1..(first - 1))
    BY <1>4, <1>5
  <2> QED
    BY <1>2, <2>1 DEF ExecInv, Counted
<1>12. FullReport'
  BY <1>2 DEF FullReport
<1> QED
  BY <1>1, <1>3, <1>6, <1>7, <1>8, <1>9, <1>10, <1>11, <1>12 DEF ExecInv

\* When the workers of a batch that need not break off have ended, all its items
\* are settled, and the report counts them (ConcurrentExecutor.ts:155-163, 225).
LEMMA BatchDone ==
    ASSUME ExecInv, Ended, ~ returned
    PROVE  /\ ~ Broken => /\ itemIndex = LastOf(first) /\ ~ shouldStop
                          /\ done \cup failed = 1..LastOf(first)
                          /\ reported + BatchSuccess = Cardinality(done \cap (1..LastOf(first)))
           /\ reported + BatchSuccess \in 0..N
<1>1. /\ first \in 1..N /\ LastOf(first) \in first..N /\ done \subseteq Items /\ failed \subseteq Items
      /\ done \cap failed = {}
  BY Sizes DEF ExecInv, TypeOK, HandedOut, EachItemOnce
<1>2. reported = Cardinality(done \cap (1..(first - 1)))
  BY DEF ExecInv, Counted
<1>3. ASSUME ~ Broken
      PROVE  /\ itemIndex = LastOf(first) /\ ~ shouldStop
             /\ done \cup failed = 1..LastOf(first)
             /\ reported + BatchSuccess = Cardinality(done \cap (1..LastOf(first)))
  <2>1. ~ shouldStop /\ itemIndex = LastOf(first)
    BY <1>3 DEF ExecInv, StopFlag, AllTaken, Broken
  <2>2. InFlight = {}
    BY DEF Ended, InFlight
  <2>3. done \cup failed = 1..LastOf(first)
    BY <2>1, <2>2 DEF ExecInv, EachItemOnce
  <2>4. first..LastOf(first) \subseteq done \cup failed
    BY <1>1, <2>3, SizesAssumption
  <2>5. reported + BatchSuccess = Cardinality(done \cap (1..LastOf(first)))
    BY <1>1, <1>2, <2>4, BatchCount DEF BatchSuccess, Batch
  <2> QED
    BY <2>1, <2>3, <2>5
<1>4. reported + BatchSuccess \in 0..N
  <2>1. first \in Int /\ LastOf(first) \in Int /\ first - 1 \in Int /\ 1 \in Int /\ N \in Nat
    BY <1>1, SizesAssumption
  <2>2. /\ IsFiniteSet(1..(first - 1)) /\ IsFiniteSet(Batch)
        /\ Cardinality(1..(first - 1)) = first - 1
        /\ Cardinality(Batch) = LastOf(first) - first + 1
    <3>1. IsFiniteSet(1..(first - 1)) /\ IsFiniteSet(first..LastOf(first))
      BY <2>1, FS_Interval
    <3>2. Cardinality(1..(first - 1)) = IF 1 > first - 1 THEN 0 ELSE first - 1 - 1 + 1
      BY <2>1, FS_Interval
    <3>3. Cardinality(first..LastOf(first)) = IF first > LastOf(first) THEN 0 ELSE LastOf(first) - first + 1
      BY <2>1, FS_Interval
    <3> QED
      BY <1>1, <2>1, <3>1, <3>2, <3>3 DEF Batch
  <2>3. reported \in Nat /\ reported <= first - 1
    <3>1. done \cap (1..(first - 1)) \in SUBSET (1..(first - 1))
      OBVIOUS
    <3>2. /\ IsFiniteSet(done \cap (1..(first - 1)))
          /\ Cardinality(done \cap (1..(first - 1))) <= Cardinality(1..(first - 1))
      BY <2>2, <3>1, FS_Subset
    <3>3. Cardinality(done \cap (1..(first - 1))) \in Nat
      BY <3>2, FS_CardinalityType
    <3> QED
      BY <1>2, <2>2, <3>2, <3>3
  <2>4. Cardinality(failed \cap Batch) \in Nat /\ Cardinality(failed \cap Batch) <= Cardinality(Batch)
    <3>1. failed \cap Batch \in SUBSET Batch
      OBVIOUS
    <3>2. IsFiniteSet(failed \cap Batch) /\ Cardinality(failed \cap Batch) <= Cardinality(Batch)
      BY <2>2, <3>1, FS_Subset
    <3> QED
      BY <3>2, FS_CardinalityType
  <2> QED
    BY <1>1, <2>1, <2>2, <2>3, <2>4 DEF BatchSuccess
<1> QED
  BY <1>3, <1>4

\* The next batch starts from there (ConcurrentExecutor.ts:210-246).
LEMMA NextBatchKeeps == ASSUME ExecInv, NextBatch PROVE ExecInv'
<1> DEFINE f == first + BatchSize
<1>1. /\ Ended /\ ~ returned /\ LastOf(first) # N /\ ~ Broken
      /\ first' = f /\ working' = StartWorkers(f) /\ itemIndex' = itemIndex + Started(f)
      /\ shouldStop' = FALSE /\ reported' = reported + BatchSuccess
      /\ UNCHANGED <<stopOnError, done, failed, returned>>
  BY DEF NextBatch, LastBatch
<1>2. /\ itemIndex = LastOf(first) /\ done \cup failed = 1..LastOf(first) /\ ~ shouldStop
      /\ reported' = Cardinality(done \cap (1..LastOf(first))) /\ reported' \in 0..N
  BY <1>1, BatchDone
<1>3. first \in 1..N /\ LastOf(first) = f - 1 /\ f \in 1..N
  BY <1>1, Sizes, SizesAssumption DEF ExecInv, HandedOut
<1> HIDE DEF f
<1>4. /\ LastOf(f) \in f..N /\ Started(f) \in 1..Concurrency /\ itemIndex' = f + Started(f) - 1
      /\ itemIndex' \in f..LastOf(f)
  <2>1. /\ LastOf(f) \in f..N /\ Started(f) \in 1..Concurrency
        /\ f + Started(f) - 1 <= LastOf(f)
    BY <1>3, Sizes
  <2> QED
    BY <1>1, <1>2, <1>3, <2>1, SizesAssumption
<1>5. /\ working' \in [Workers -> 0..N] /\ working'[1] = f /\ 1 \in Workers
      /\ \A w \in Workers : working'[w] # 0 => working'[w] \in f..itemIndex'
      /\ \A v, w \in Workers : working'[v] = working'[w] /\ v # w => working'[v] = 0
      /\ {working'[w] : w \in Workers} \ {0} = f..itemIndex'
  BY <1>1, <1>3, <1>4, Starting
<1>6. TypeOK'
  <2>1. N \in Nat /\ BatchSize \in Nat
    BY SizesAssumption
  <2>2. itemIndex' \in 0..N /\ first' \in 1..(N + BatchSize)
    BY <1>1, <1>3, <1>4, <2>1
  <2> QED
    BY <1>1, <1>2, <1>5, <2>2 DEF ExecInv, TypeOK
<1>7. HandedOut'
  BY <1>1, <1>3, <1>4, <1>5 DEF HandedOut, LastOf
<1>8. EachItemOnce'
  <2>1. InFlight' = f..itemIndex'
    BY <1>5 DEF InFlight
  <2>2. done' \cup failed' = 1..(f - 1) /\ done' \cap failed' = {}
    BY <1>1, <1>2, <1>3 DEF ExecInv, EachItemOnce
  <2>3. (1..(f - 1)) \cup (f..itemIndex') = 1..itemIndex' /\ (1..(f - 1)) \cap (f..itemIndex') = {}
    BY <1>3, <1>4, SizesAssumption
  <2> QED
    BY <1>5, <2>1, <2>2, <2>3 DEF EachItemOnce
<1>9. EarlierSettled'
  BY <1>1, <1>2, <1>3 DEF EarlierSettled
<1>10. StopFlag'
  BY <1>1, <1>2 DEF ExecInv, StopFlag
<1>11. AllTaken'
  <2>1. f # 0
    BY <1>3
  <2> QED
    BY <1>5, <2>1 DEF AllTaken, Ended
<1>12. Counted' /\ FullReport'
  BY <1>1, <1>2, <1>3 DEF Counted, FullReport
<1> QED
  BY <1>6, <1>7, <1>8, <1>9, <1>10, <1>11, <1>12 DEF ExecInv

\* The return adds the last batch to the report (ConcurrentExecutor.ts:225, 242-250).
LEMMA ReturnKeeps == ASSUME ExecInv, Return PROVE ExecInv'
<1>1. /\ returned' = TRUE /\ reported' = reported + BatchSuccess
      /\ UNCHANGED <<stopOnError, first, itemIndex, working, done, failed, shouldStop>>
  BY DEF Return, LastBatch
<1>2. /\ Ended /\ ~ returned
      /\ LastOf(first) = N \/ Broken
  BY DEF Return, LastBatch
<1>3. reported' \in 0..N
  BY <1>1, <1>2, BatchDone
<1>4. TypeOK'
  BY <1>1, <1>3 DEF ExecInv, TypeOK
<1>5. HandedOut' /\ EachItemOnce' /\ EarlierSettled' /\ StopFlag' /\ AllTaken' /\ Counted'
  BY <1>1, <1>2 DEF ExecInv, HandedOut, EachItemOnce, InFlight, EarlierSettled, StopFlag,
                    Batch, LastOf, AllTaken, Ended, Counted
<1>6. FullReport'
  <2> SUFFICES ASSUME stopOnError => failed = {}
               PROVE  done \cup failed = Items /\ reported' = Cardinality(done)
    BY <1>1 DEF FullReport
  <2>1. ~ Broken
    BY DEF Broken
  <2>2. done \cup failed = 1..N /\ reported' = Cardinality(done \cap (1..N))
    BY <1>1, <1>2, <2>1, BatchDone
  <2>3. done \cap (1..N) = done
    BY DEF ExecInv, TypeOK, Items
  <2> QED
    BY <2>2, <2>3 DEF Items
<1> QED
  BY <1>4, <1>5, <1>6 DEF ExecInv

LEMMA ExecInvNext == ExecInv /\ [Next]_vars => ExecInv'
<1> SUFFICES ASSUME ExecInv, [Next]_vars PROVE ExecInv'
  OBVIOUS
<1>1. ASSUME NEW w \in Workers, Succeed(w) \/ Fail(w) PROVE ExecInv'
  BY <1>1, SettlesKeeps
<1>2. CASE NextBatch
  BY <1>2, NextBatchKeeps
<1>3. CASE Return
  BY <1>3, ReturnKeeps
<1>4. CASE UNCHANGED vars
  <2>1. UNCHANGED <<stopOnError, first, itemIndex, working, done, failed, shouldStop, reported, returned>>
    BY <1>4 DEF vars
  <2>2. TypeOK' /\ HandedOut' /\ EachItemOnce'
    BY <2>1 DEF ExecInv, TypeOK, HandedOut, LastOf, EachItemOnce, InFlight
  <2>3. EarlierSettled' /\ StopFlag' /\ AllTaken'
    BY <2>1 DEF ExecInv, EarlierSettled, StopFlag, Batch, LastOf, AllTaken, Ended
  <2>4. Counted' /\ FullReport'
    BY <2>1 DEF ExecInv, Counted, Ended, FullReport
  <2> QED
    BY <2>2, <2>3, <2>4 DEF ExecInv
<1> QED
  BY <1>1, <1>2, <1>3, <1>4 DEF Next

LEMMA ExecAlways == Spec => []ExecInv
BY ExecInvInit, ExecInvNext, PTL DEF Spec

\* The types.
THEOREM ExecutorTypes == Spec => []TypeOK
<1>1. ExecInv => TypeOK
  BY DEF ExecInv
<1> QED
  BY <1>1, ExecAlways, PTL

\* Every item is handed to one worker, whatever the order in which the operations
\* settle (ConcurrentExecutor.ts:116-130, 143).
THEOREM ItemsHandedOnce == Spec => []EachItemOnce
<1>1. ExecInv => EachItemOnce
  BY DEF ExecInv
<1> QED
  BY <1>1, ExecAlways, PTL

\* No operation runs while one of an earlier batch is in flight
\* (ConcurrentExecutor.ts:155, 213-221).
THEOREM BatchesInOrder == Spec => []BatchOrder
<1>1. ExecInv => BatchOrder
  BY DEF ExecInv, EarlierSettled, BatchOrder
<1> QED
  BY <1>1, ExecAlways, PTL

\* The report of a call that was not stopped is complete
\* (ConcurrentExecutor.ts:162, 225, 243).
THEOREM ReportsAll == Spec => []FullReport
<1>1. ExecInv => FullReport
  BY DEF ExecInv
<1> QED
  BY <1>1, ExecAlways, PTL

\* After a failure under stopOnError nothing new is started
\* (ConcurrentExecutor.ts:125, 144-147, 242-244).
THEOREM NothingAfterFailure == Spec => StopsStarting
<1>1. ASSUME ExecInv, [Next]_vars, stopOnError /\ failed' # {} PROVE itemIndex' = itemIndex
  <2>1. ExecInv'
    BY <1>1, ExecInvNext
  <2>2. ASSUME NEW w \in Workers, Succeed(w) \/ Fail(w) PROVE itemIndex' = itemIndex
    <3>1. stopOnError' = stopOnError
      BY <2>2 DEF Succeed, Fail
    <3>2. shouldStop'
      BY <1>1, <2>1, <3>1 DEF ExecInv, StopFlag
    <3> QED
      BY <1>1, <2>2, <3>2, SettlesKeeps
  <2>3. ~ NextBatch
    <3> SUFFICES ASSUME NextBatch PROVE FALSE
      OBVIOUS
    <3>1. failed # {} /\ Ended /\ ~ returned /\ ~ Broken
      BY <1>1 DEF NextBatch
    <3>2. ~ shouldStop
      BY <1>1, <3>1, BatchDone
    <3> QED
      BY <1>1, <3>1, <3>2 DEF ExecInv, StopFlag
  <2>4. Return => itemIndex' = itemIndex
    BY DEF Return
  <2>5. UNCHANGED vars => itemIndex' = itemIndex
    BY DEF vars
  <2> QED
    BY <1>1, <2>2, <2>3, <2>4, <2>5 DEF Next
<1>2. ExecInv /\ [Next]_vars => [stopOnError /\ failed' # {} => itemIndex' = itemIndex]_vars
  BY <1>1
<1> QED
  BY <1>2, ExecAlways, PTL DEF Spec, StopsStarting

-----------------------------------------------------------------------------
(* The semaphore *)

\* What shift() leaves of a queue.
LEMMA ShiftIsTail ==
    ASSUME NEW S, NEW q \in Seq(S), q # <<>>
    PROVE  RemoveAt(q, 1) = Tail(q)
<1>1. SubSeq(q, 1, 1 - 1) = <<>>
  BY SubSeqEmpty
<1>2. SubSeq(q, 1 + 1, Len(q)) = Tail(q) /\ Tail(q) \in Seq(S)
  BY TailIsSubSeq, HeadTailProperties
<1>3. <<>> \o Tail(q) = Tail(q)
  BY <1>2, ConcatEmptySeq
<1> QED
  BY <1>1, <1>2, <1>3 DEF RemoveAt

\* A task waits once, and not while it is inside.
QueueWell ==
    /\ waiters \in Seq(Tasks)
    /\ \A i, j \in DOMAIN waiters : waiters[i] = waiters[j] => i = j
    /\ \A i \in DOMAIN waiters : waiters[i] \notin inside

SemInv == inside \subseteq Tasks /\ running \in Nat /\ QueueWell /\ SemaphoreExact

\* Tasks that enter or leave, one at a time, change the count by one.
LEMMA OneMore ==
    ASSUME inside \subseteq Tasks, NEW t \in Tasks
    PROVE  /\ IsFiniteSet(inside) /\ Cardinality(inside) \in Nat
           /\ t \notin inside => Cardinality(inside \cup {t}) = Cardinality(inside) + 1
           /\ t \in inside => /\ Cardinality(inside \ {t}) = Cardinality(inside) - 1
                              /\ Cardinality(inside) >= 1
<1>1. IsFiniteSet(inside)
  BY TasksAssumption, FS_Subset
<1>2. Cardinality(inside) \in Nat
  BY <1>1, FS_CardinalityType
<1>3. ASSUME t \notin inside PROVE Cardinality(inside \cup {t}) = Cardinality(inside) + 1
  BY <1>1, <1>3, FS_AddElement
<1>4. ASSUME t \in inside
      PROVE  Cardinality(inside \ {t}) = Cardinality(inside) - 1 /\ Cardinality(inside) >= 1
  <2>1. IsFiniteSet(inside \ {t}) /\ Cardinality(inside \ {t}) = Cardinality(inside) - 1
    BY <1>1, <1>4, FS_RemoveElement
  <2>2. Cardinality(inside \ {t}) \in Nat
    BY <2>1, FS_CardinalityType
  <2> QED
    BY <1>2, <2>1, <2>2
<1> QED
  BY <1>1, <1>2, <1>3, <1>4

LEMMA SemInvInit == SemaphoreInit => SemInv
<1> SUFFICES ASSUME SemaphoreInit PROVE SemInv
  OBVIOUS
<1>1. Cardinality({}) = 0
  BY FS_EmptySet
<1>2. <<>> \in Seq(Tasks) /\ DOMAIN <<>> = {}
  OBVIOUS
<1>3. QueueWell
  BY <1>2 DEF SemaphoreInit, QueueWell
<1> QED
  BY <1>1, <1>3, LimitAssumption DEF SemaphoreInit, SemInv, SemaphoreExact

\* acquire() takes a slot or queues (ConcurrentExecutor.ts:305-313).
LEMMA AcquireKeeps == ASSUME SemInv, NEW t \in Tasks, Acquire(t) PROVE SemInv'
<1>1. t \notin inside /\ \A i \in DOMAIN waiters : waiters[i] # t
  BY DEF Acquire, Waits
<1>2. CASE /\ running < Limit /\ running' = running + 1 /\ inside' = inside \cup {t}
           /\ UNCHANGED waiters
  <2>1. waiters = <<>>
    BY <1>2, LimitAssumption DEF SemInv, SemaphoreExact
  <2>2. Cardinality(inside') = running + 1
    BY <1>1, <1>2, OneMore DEF SemInv, SemaphoreExact
  <2>3. running' \in Nat /\ running' <= Limit
    BY <1>2, LimitAssumption DEF SemInv
  <2>4. QueueWell'
    BY <1>1, <1>2 DEF SemInv, QueueWell
  <2> QED
    BY <1>2, <2>1, <2>2, <2>3, <2>4 DEF SemInv, SemaphoreExact
<1>3. CASE running >= Limit /\ waiters' = Append(waiters, t) /\ UNCHANGED <<running, inside>>
  <2>1. running = Limit
    BY <1>3, LimitAssumption DEF SemInv, SemaphoreExact
  <2>2. /\ waiters' \in Seq(Tasks) /\ Len(waiters') = Len(waiters) + 1
        /\ \A i \in 1..Len(waiters) : waiters'[i] = waiters[i]
        /\ waiters'[Len(waiters) + 1] = t
    BY <1>3, AppendProperties DEF SemInv, QueueWell
  <2>3. DOMAIN waiters = 1..Len(waiters) /\ DOMAIN waiters' = 1..(Len(waiters) + 1) /\ Len(waiters) \in Nat
    BY <2>2, LenProperties DEF SemInv, QueueWell
  <2>4. ASSUME NEW i \in DOMAIN waiters', NEW j \in DOMAIN waiters', waiters'[i] = waiters'[j]
        PROVE  i = j
    BY <1>1, <2>2, <2>3, <2>4 DEF SemInv, QueueWell
  <2>5. ASSUME NEW i \in DOMAIN waiters' PROVE waiters'[i] \notin inside'
    BY <1>1, <1>3, <2>2, <2>3 DEF SemInv, QueueWell
  <2> QED
    BY <1>3, <2>1, <2>2, <2>4, <2>5 DEF SemInv, SemaphoreExact, QueueWell
<1> QED
  BY <1>2, <1>3 DEF Acquire

\* release() gives the slot back or passes it on (ConcurrentExecutor.ts:315-326).
LEMMA ReleaseKeeps == ASSUME SemInv, NEW t \in Tasks, Release(t) PROVE SemInv'
<1>1. t \in inside
  BY DEF Release
<1>2. /\ Cardinality(inside) = running /\ Cardinality(inside \ {t}) = running - 1
      /\ running \in Nat /\ running >= 1 /\ running <= Limit
  BY <1>1, OneMore DEF SemInv, SemaphoreExact
<1>3. CASE waiters = <<>> /\ inside' = inside \ {t} /\ UNCHANGED waiters
  <2>1. running' = running - 1
    BY <1>3 DEF Release, AfterRelease
  <2>2. QueueWell'
    BY <1>3 DEF SemInv, QueueWell
  <2>3. running' \in Nat /\ running' <= Limit
    BY <1>2, <2>1, LimitAssumption
  <2> QED
    BY <1>2, <1>3, <2>1, <2>2, <2>3 DEF SemInv, SemaphoreExact
<1>4. CASE /\ waiters # <<>> /\ inside' = (inside \ {t}) \cup {waiters[Longest]}
           /\ waiters' = RemoveAt(waiters, Longest)
  <2>1. running' = running
    BY <1>4 DEF Release, AfterRelease
  <2>2. /\ waiters' = Tail(waiters) /\ waiters' \in Seq(Tasks) /\ Len(waiters') = Len(waiters) - 1
        /\ \A i \in 1..Len(waiters') : waiters'[i] = waiters[i + 1]
    BY <1>4, ShiftIsTail, HeadTailProperties DEF Longest, SemInv, QueueWell
  <2>3. /\ DOMAIN waiters = 1..Len(waiters) /\ DOMAIN waiters' = 1..Len(waiters')
        /\ Len(waiters) \in Nat /\ Len(waiters) >= 1
    <3>1. DOMAIN waiters = 1..Len(waiters) /\ DOMAIN waiters' = 1..Len(waiters') /\ Len(waiters) \in Nat
      BY <2>2, LenProperties DEF SemInv, QueueWell
    <3>2. Len(waiters) # 0
      BY <1>4, EmptySeq DEF SemInv, QueueWell
    <3> QED
      BY <3>1, <3>2
  <2>4. waiters[1] \in Tasks /\ waiters[1] \notin inside
    BY <2>3, ElementOfSeq DEF SemInv, QueueWell
  <2>5. /\ inside' = (inside \ {t}) \cup {waiters[1]} /\ inside' \subseteq Tasks
        /\ Cardinality(inside') = running
    <3>1. inside' = (inside \ {t}) \cup {waiters[1]} /\ inside' \subseteq Tasks
      BY <1>4, <2>4 DEF Longest, SemInv
    <3>2. IsFiniteSet(inside \ {t})
      BY TasksAssumption, FS_Subset DEF SemInv
    <3>3. Cardinality((inside \ {t}) \cup {waiters[1]}) = Cardinality(inside \ {t}) + 1
      BY <2>4, <3>2, FS_AddElement
    <3> QED
      BY <1>2, <3>1, <3>3
  <2>6. ASSUME NEW i \in DOMAIN waiters', NEW j \in DOMAIN waiters', waiters'[i] = waiters'[j]
        PROVE  i = j
    <3>1. /\ i + 1 \in DOMAIN waiters /\ j + 1 \in DOMAIN waiters /\ i \in Int /\ j \in Int
          /\ waiters[i + 1] = waiters[j + 1]
      BY <2>2, <2>3, <2>6
    <3>2. i + 1 = j + 1
      BY <3>1 DEF SemInv, QueueWell
    <3> QED
      BY <3>1, <3>2
  <2>7. ASSUME NEW i \in DOMAIN waiters' PROVE waiters'[i] \notin inside'
    <3>1. /\ i + 1 \in DOMAIN waiters /\ 1 \in DOMAIN waiters /\ i + 1 # 1
          /\ waiters'[i] = waiters[i + 1]
      BY <2>2, <2>3
    <3>2. waiters[i + 1] # waiters[1] /\ waiters[i + 1] \notin inside
      BY <3>1 DEF SemInv, QueueWell
    <3> QED
      BY <2>5, <3>1, <3>2
  <2> QED
    BY <1>2, <1>4, <2>1, <2>2, <2>5, <2>6, <2>7 DEF SemInv, SemaphoreExact, QueueWell
<1> QED
  BY <1>3, <1>4 DEF Release

\* Passing a slot on loses and duplicates none, in whatever order the tasks come
\* and go (ConcurrentExecutor.ts:305-326).
THEOREM SlotsExact == SemaphoreSpec => []SemaphoreExact
<1>1. SemInv /\ [SemaphoreNext]_semaphoreVars => SemInv'
  <2> SUFFICES ASSUME SemInv, [SemaphoreNext]_semaphoreVars PROVE SemInv'
    OBVIOUS
  <2>1. ASSUME NEW t \in Tasks, Acquire(t) \/ Release(t) PROVE SemInv'
    BY <2>1, AcquireKeeps, ReleaseKeeps
  <2>2. CASE UNCHANGED semaphoreVars
    BY <2>2 DEF semaphoreVars, SemInv, QueueWell, SemaphoreExact
  <2> QED
    BY <2>1, <2>2 DEF SemaphoreNext
<1>2. SemInv => SemaphoreExact
  BY DEF SemInv
<1> QED
  BY <1>1, <1>2, SemInvInit, PTL DEF SemaphoreSpec

-----------------------------------------------------------------------------
(* Calls that work in parallel with the sessions of a pool: the workers of *)
(* a call do each item once, and the calls give all sessions back, except  *)
(* those that entries of calls that gave up swallow                        *)

Stages == {"acquiring", "waiting", "working", "gaveup", "threw", "returned"}

CallTypes ==
    /\ kind \in [Calls -> Kinds] /\ stage \in [Calls -> Stages]
    /\ held \in [Calls -> Nat] /\ free \in Nat
    /\ entries \in Seq(Calls \cup {GaveUp})
    /\ taken \in [Calls -> Nat]
    /\ busy \in [Calls -> SUBSET Nat] /\ settled \in [Calls -> SUBSET Nat]
    /\ errors \in [Calls -> SUBSET Nat] /\ halted \in [Calls -> BOOLEAN]

\* The entries that have not given up are those of the calls that wait, once each.
LiveWait(q) ==
    /\ \A i \in DOMAIN q : q[i] # GaveUp => stage[q[i]] = "waiting"
    /\ \A i, j \in DOMAIN q : q[i] = q[j] /\ q[i] # GaveUp => i = j
WaitersQueue ==
    /\ LiveWait(entries)
    /\ \A k \in Calls : stage[k] = "waiting" => \E i \in DOMAIN entries : entries[i] = k

\* Workers in all stages of their call.
WorkOf(k) ==
    /\ settled[k] \cup busy[k] = 1..taken[k] /\ settled[k] \cap busy[k] = {}
    /\ stage[k] \in {"acquiring", "waiting", "gaveup"} => taken[k] = 0 /\ ~ halted[k]
    /\ stage[k] = "working" =>
        /\ taken[k] <= ItemCount[k]
        /\ Cardinality(busy[k]) <= held[k]
        /\ halted[k] => Cardinality(busy[k]) < held[k]
        /\ busy[k] = {} => halted[k] \/ taken[k] = ItemCount[k]
    /\ stage[k] \in {"threw", "returned"} =>
        busy[k] = {} /\ (halted[k] \/ taken[k] = ItemCount[k])

\* The sessions that calls hold, those that gave up, and their entries.
Slots(h) == {x \in Calls \X (Nat \ {0}) : x[2] <= h[x[1]]}
Quitters == {k \in Calls : stage[k] = "gaveup"}
DeadIn(q) == {i \in DOMAIN q : q[i] = GaveUp}

\* No session is given back twice; a session is lost only to an entry of a call
\* that gave up, and each such call has had one entry.
SessionCount ==
    /\ \A k \in Calls : Over(k) => held[k] = 0
    /\ IsFiniteSet(Slots(held))
    /\ free + Cardinality(Slots(held)) <= Permits
    /\ free + Cardinality(Slots(held)) + Cardinality(Quitters)
           >= Permits + Cardinality(DeadIn(entries))

ParallelInv == CallTypes /\ WaitersQueue /\ (\A k \in Calls : WorkOf(k)) /\ SessionCount

-----------------------------------------------------------------------------
(* Counting *)

\* Sets in bijection have the same size.
LEMMA SameSize ==
    ASSUME NEW S, NEW T, IsFiniteSet(S), NEW g \in [S -> T],
           \A x, y \in S : g[x] = g[y] => x = y, \A t \in T : \E x \in S : g[x] = t
    PROVE  IsFiniteSet(T) /\ Cardinality(T) = Cardinality(S)
<1>1. g \in Bijection(S, T)
  BY DEF Bijection, Injection, Surjection, IsInjective
<1> QED
  BY <1>1, FS_Bijection DEF ExistsBijection

\* The size of two sets without a common element.
LEMMA DisjointSize ==
    ASSUME NEW S, NEW T, IsFiniteSet(S), IsFiniteSet(T), S \cap T = {}
    PROVE  /\ IsFiniteSet(S \cup T)
           /\ Cardinality(S \cup T) = Cardinality(S) + Cardinality(T)
           /\ Cardinality(S) \in Nat /\ Cardinality(T) \in Nat
<1>1. Cardinality(S) \in Nat /\ Cardinality(T) \in Nat /\ Cardinality({}) = 0
  BY FS_CardinalityType, FS_EmptySet
<1>2. IsFiniteSet(S \cup T) /\ Cardinality(S \cup T) = Cardinality(S) + Cardinality(T) - Cardinality({})
  BY FS_Union
<1> QED
  BY <1>1, <1>2

\* The positions of a queue are finitely many.
LEMMA Positions ==
    ASSUME NEW S, NEW q \in Seq(S)
    PROVE  /\ Len(q) \in Nat /\ DOMAIN q = 1..Len(q)
           /\ IsFiniteSet(DeadIn(q)) /\ Cardinality(DeadIn(q)) \in Nat
<1>1. Len(q) \in Nat /\ DOMAIN q = 1..Len(q)
  BY LenProperties
<1>2. IsFiniteSet(1..Len(q)) /\ DeadIn(q) \in SUBSET (1..Len(q))
  BY <1>1, FS_Interval DEF DeadIn
<1> QED
  BY <1>1, <1>2, FS_Subset, FS_CardinalityType

LEMMA RestOf ==
    ASSUME NEW S, NEW q \in Seq(S), NEW m \in 1..(Len(q) + 1)
    PROVE  /\ SubSeq(q, m, Len(q)) \in Seq(S)
           /\ Len(SubSeq(q, m, Len(q))) = Len(q) - m + 1
           /\ \A i \in 1..(Len(q) - m + 1) : SubSeq(q, m, Len(q))[i] = q[m + i - 1]
<1> DEFINE l == Len(q)
<1>1. l \in Nat /\ m \in Int /\ \A i \in m..l : q[i] \in S
  BY Positions, ElementOfSeq
<1>2. l \in Int
  BY <1>1
<1> HIDE DEF l
<1>3. /\ SubSeq(q, m, l) \in Seq(S)
      /\ Len(SubSeq(q, m, l)) = IF m <= l THEN l - m + 1 ELSE 0
      /\ \A i \in 1..(l - m + 1) : SubSeq(q, m, l)[i] = q[m + i - 1]
  BY <1>1, <1>2, SubSeqProperties
<1>4. (IF m <= l THEN l - m + 1 ELSE 0) = l - m + 1
  BY <1>1 DEF l
<1> QED
  BY <1>3, <1>4 DEF l

\* Taking n entries from the front of the queue takes the entries of calls that
\* gave up among them, and leaves the others in their order.
LEMMA ServeFront ==
    ASSUME NEW S, NEW q \in Seq(S), NEW n \in 0..Len(q)
    PROVE  LET rest == SubSeq(q, n + 1, Len(q))
               dead == {i \in 1..n : q[i] = GaveUp}
               live == {i \in 1..n : q[i] # GaveUp}
           IN  /\ rest \in Seq(S) /\ Len(rest) = Len(q) - n
               /\ \A i \in 1..(Len(q) - n) : rest[i] = q[n + i]
               /\ IsFiniteSet(dead) /\ IsFiniteSet(live)
               /\ Cardinality(dead) \in Nat /\ Cardinality(live) \in Nat
               /\ Cardinality(dead) + Cardinality(live) = n
               /\ Cardinality(DeadIn(q)) = Cardinality(dead) + Cardinality(DeadIn(rest))
<1> DEFINE rest == SubSeq(q, n + 1, Len(q))
           dead == {i \in 1..n : q[i] = GaveUp}
           live == {i \in 1..n : q[i] # GaveUp}
           later == {i \in (n + 1)..Len(q) : q[i] = GaveUp}
<1>1. Len(q) \in Nat /\ DOMAIN q = 1..Len(q) /\ n \in Nat /\ n <= Len(q) /\ IsFiniteSet(DeadIn(q))
  BY Positions
<1>2. rest \in Seq(S) /\ Len(rest) = Len(q) - n /\ \A i \in 1..(Len(q) - n) : rest[i] = q[n + i]
  <2> DEFINE m == n + 1
  <2>1. m \in 1..(Len(q) + 1)
    BY <1>1
  <2> HIDE DEF m
  <2>2. /\ SubSeq(q, m, Len(q)) \in Seq(S) /\ Len(SubSeq(q, m, Len(q))) = Len(q) - m + 1
        /\ \A i \in 1..(Len(q) - m + 1) : SubSeq(q, m, Len(q))[i] = q[m + i - 1]
    BY <2>1, RestOf
  <2>3. rest = SubSeq(q, m, Len(q)) /\ m = n + 1 /\ Len(q) - m + 1 = Len(q) - n
    BY <1>1 DEF m
  <2> HIDE DEF rest
  <2>4. \A i \in 1..(Len(q) - n) : m + i - 1 = n + i
    BY <1>1, <2>3
  <2> QED
    BY <2>2, <2>3, <2>4
<1> HIDE DEF rest
<1>3. IsFiniteSet(1..n) /\ Cardinality(1..n) = n
  <2>1. Cardinality(1..n) = IF 1 > n THEN 0 ELSE n - 1 + 1
    BY <1>1, FS_Interval
  <2> QED
    BY <1>1, <2>1, FS_Interval
<1>4. IsFiniteSet(dead) /\ IsFiniteSet(live)
  BY <1>3, FS_Subset
<1>5. Cardinality(dead) + Cardinality(live) = n
  <2>1. dead \cup live = 1..n /\ dead \cap live = {}
    OBVIOUS
  <2> HIDE DEF dead, live
  <2>2. Cardinality(dead \cup live) = Cardinality(dead) + Cardinality(live)
    BY <1>4, <2>1, DisjointSize
  <2> QED
    BY <1>3, <2>1, <2>2
<1>6. IsFiniteSet(later)
  <2>1. later \in SUBSET DeadIn(q)
    BY <1>1 DEF DeadIn
  <2> QED
    BY <1>1, <2>1, FS_Subset
<1>7. Cardinality(DeadIn(q)) = Cardinality(dead) + Cardinality(later)
  <2>1. dead \cup later = DeadIn(q) /\ dead \cap later = {}
    BY <1>1 DEF DeadIn
  <2> HIDE DEF dead, later
  <2>2. Cardinality(dead \cup later) = Cardinality(dead) + Cardinality(later)
    BY <1>4, <1>6, <2>1, DisjointSize
  <2> QED
    BY <2>1, <2>2
<1>8. Cardinality(DeadIn(rest)) = Cardinality(later)
  <2> DEFINE g == [i \in DeadIn(rest) |-> n + i]
  <2>1. DOMAIN rest = 1..(Len(q) - n) /\ IsFiniteSet(DeadIn(rest))
    BY <1>2, Positions
  <2>2. ASSUME NEW i \in DeadIn(rest) PROVE n + i \in later /\ i \in Int
    BY <1>1, <1>2, <2>1 DEF DeadIn
  <2>3. g \in [DeadIn(rest) -> later]
    BY <2>2
  <2>4. \A i, j \in DeadIn(rest) : g[i] = g[j] => i = j
    BY <1>1, <2>2
  <2>5. ASSUME NEW j \in later PROVE \E i \in DeadIn(rest) : g[i] = j
    <3>1. j - n \in 1..(Len(q) - n) /\ n + (j - n) = j /\ q[j] = GaveUp
      BY <1>1
    <3>2. j - n \in DeadIn(rest)
      BY <1>2, <2>1, <3>1 DEF DeadIn
    <3> QED
      BY <3>1, <3>2
  <2> HIDE DEF g, later
  <2> QED
    BY <2>1, <2>3, <2>4, <2>5, SameSize
<1>9. Cardinality(dead) \in Nat /\ Cardinality(live) \in Nat
  BY <1>4, FS_CardinalityType
<1> QED
  BY <1>2, <1>4, <1>5, <1>7, <1>8, <1>9 DEF rest

\* One session more for one call.
LEMMA SlotMore ==
    ASSUME NEW h \in [Calls -> Nat], NEW k \in Calls, IsFiniteSet(Slots(h))
    PROVE  LET h2 == [h EXCEPT ![k] = @ + 1]
           IN  IsFiniteSet(Slots(h2)) /\ Cardinality(Slots(h2)) = Cardinality(Slots(h)) + 1
<1> DEFINE h2 == [h EXCEPT ![k] = @ + 1]
           new == <<k, h[k] + 1>>
<1>1. \A c \in Calls : h2[c] = IF c = k THEN h[c] + 1 ELSE h[c]
  OBVIOUS
<1> HIDE DEF h2
<1>2. new \in Slots(h2) /\ new \notin Slots(h)
  BY <1>1 DEF Slots
<1>3. ASSUME NEW x \in Slots(h2) PROVE x \in Slots(h) \/ x = new
  <2>1. /\ x \in Calls \X (Nat \ {0}) /\ x[1] \in Calls /\ x[2] \in Nat /\ x[2] <= h2[x[1]]
        /\ x = <<x[1], x[2]>> /\ h[x[1]] \in Nat
    BY <1>3 DEF Slots
  <2>2. CASE x[1] = k
    <3>1. x[2] <= h[k] \/ x[2] = h[k] + 1
      BY <1>1, <2>1, <2>2
    <3> QED
      BY <2>1, <2>2, <3>1 DEF Slots
  <2>3. CASE x[1] # k
    BY <1>1, <2>1, <2>3 DEF Slots
  <2> QED
    BY <2>2, <2>3
<1>4. ASSUME NEW x \in Slots(h) PROVE x \in Slots(h2)
  <2>1. /\ x \in Calls \X (Nat \ {0}) /\ x[1] \in Calls /\ x[2] \in Nat /\ x[2] <= h[x[1]]
        /\ h[x[1]] \in Nat
    BY <1>4 DEF Slots
  <2> QED
    BY <1>1, <2>1 DEF Slots
<1>5. Slots(h2) = Slots(h) \cup {new}
  BY <1>2, <1>3, <1>4
<1> HIDE DEF new
<1> QED
  BY <1>2, <1>5, FS_AddElement DEF h2

\* The sessions of one call are as many as it holds.
LEMMA SlotsOf ==
    ASSUME NEW h \in [Calls -> Nat], NEW k \in Calls, IsFiniteSet(Slots(h))
    PROVE  LET mine == {x \in Slots(h) : x[1] = k}
           IN  IsFiniteSet(mine) /\ Cardinality(mine) = h[k]
<1> DEFINE mine == {x \in Slots(h) : x[1] = k}
           g == [i \in 1..h[k] |-> <<k, i>>]
<1>1. h[k] \in Nat /\ IsFiniteSet(1..h[k]) /\ Cardinality(1..h[k]) = h[k]
  <2>1. h[k] \in Nat /\ 1 \in Int /\ h[k] \in Int
    OBVIOUS
  <2>2. /\ IsFiniteSet(1..h[k])
        /\ Cardinality(1..h[k]) = IF 1 > h[k] THEN 0 ELSE h[k] - 1 + 1
    BY <2>1, FS_Interval
  <2> QED
    BY <2>1, <2>2
<1>2. \A i \in 1..h[k] : <<k, i>> \in mine
  BY <1>1 DEF Slots
<1>3. g \in [1..h[k] -> mine]
  BY <1>2
<1>4. \A i, j \in 1..h[k] : g[i] = g[j] => i = j
  OBVIOUS
<1>5. ASSUME NEW x \in mine PROVE \E i \in 1..h[k] : g[i] = x
  <2>1. x \in Calls \X (Nat \ {0}) /\ x = <<x[1], x[2]>> /\ x[1] = k /\ x[2] \in 1..h[k]
    BY <1>1 DEF Slots
  <2>2. g[x[2]] = <<k, x[2]>>
    BY <2>1
  <2> QED
    BY <2>1, <2>2
<1> HIDE DEF g, mine
<1>6. IsFiniteSet(mine) /\ Cardinality(mine) = Cardinality(1..h[k])
  BY <1>1, <1>3, <1>4, <1>5, SameSize
<1> QED
  BY <1>1, <1>6 DEF mine

\* The first n entries of q are served with the sessions of call k: the calls with
\* h sessions have h2 then.
Serves(h, h2, k, n, q) ==
    /\ \A i \in 1..n : q[i] \in Calls \cup {GaveUp} /\ q[i] # k
    /\ \A i, j \in 1..n : q[i] = q[j] /\ q[i] # GaveUp => i = j
    /\ \A c \in Calls : h2[c] = IF \E i \in 1..n : q[i] = c THEN h[c] + 1
                                ELSE IF c = k THEN 0 ELSE h[c]

\* Those of the first n entries that have not given up.
LiveFirst(q, n) == {i \in 1..n : q[i] # GaveUp}

\* Each of them gets one.
LEMMA SlotsServed ==
    ASSUME NEW h \in [Calls -> Nat], NEW h2 \in [Calls -> Nat], NEW k \in Calls,
           NEW n \in Nat, NEW q, IsFiniteSet(Slots(h)), Serves(h, h2, k, n, q)
    PROVE  /\ IsFiniteSet(Slots(h2))
           /\ Cardinality(Slots(h2)) + h[k]
                  = Cardinality(Slots(h)) + Cardinality(LiveFirst(q, n))
<1> USE DEF Serves, LiveFirst
<1> DEFINE live == {i \in 1..n : q[i] # GaveUp}
           mine == {x \in Slots(h) : x[1] = k}
           kept == Slots(h) \ mine
           g == [i \in live |-> <<q[i], h[q[i]] + 1>>]
           given == {g[i] : i \in live}
<1>1. IsFiniteSet(mine) /\ Cardinality(mine) = h[k]
  BY SlotsOf
<1>2. IsFiniteSet(kept) /\ Cardinality(Slots(h)) = Cardinality(kept) + h[k] /\ Cardinality(kept) \in Nat
  <2>1. IsFiniteSet(kept)
    BY FS_Subset
  <2>2. kept \cap mine = {} /\ kept \cup mine = Slots(h)
    OBVIOUS
  <2> HIDE DEF kept, mine
  <2>3. Cardinality(kept \cup mine) = Cardinality(kept) + Cardinality(mine)
    BY <1>1, <2>1, <2>2, DisjointSize
  <2> QED
    BY <1>1, <2>1, <2>2, <2>3, FS_CardinalityType
<1>3. IsFiniteSet(live)
  <2>1. IsFiniteSet(1..n)
    BY FS_Interval
  <2> QED
    BY <2>1, FS_Subset
<1>4. \A i \in live : q[i] \in Calls /\ q[i] # k /\ g[i] = <<q[i], h[q[i]] + 1>> /\ h[q[i]] \in Nat
  OBVIOUS
<1>5. IsFiniteSet(given) /\ Cardinality(given) = Cardinality(live)
  <2>1. g \in [live -> given] /\ \A t \in given : \E i \in live : g[i] = t
    OBVIOUS
  <2>2. \A i, j \in live : g[i] = g[j] => i = j
    BY <1>4
  <2> HIDE DEF g, given, live
  <2> QED
    BY <1>3, <2>1, <2>2, SameSize
<1>6. kept \cap given = {}
  <2>1. ASSUME NEW i \in live PROVE g[i] \notin Slots(h)
    <3>1. g[i] = <<q[i], h[q[i]] + 1>> /\ h[q[i]] \in Nat
      BY <1>4
    <3>2. g[i][1] = q[i] /\ g[i][2] = h[q[i]] + 1
      BY <3>1
    <3> HIDE DEF g
    <3> QED
      BY <3>1, <3>2 DEF Slots
  <2> HIDE DEF g, live, mine
  <2> QED
    BY <2>1
<1>7. Slots(h2) = kept \cup given
  <2>1. ASSUME NEW x \in Slots(h2) PROVE x \in kept \cup given
    <3>1. /\ x \in Calls \X (Nat \ {0}) /\ x[1] \in Calls /\ x[2] \in Nat \ {0} /\ x[2] <= h2[x[1]]
          /\ x = <<x[1], x[2]>> /\ h[x[1]] \in Nat
      BY <2>1 DEF Slots
    <3>2. CASE \E i \in 1..n : q[i] = x[1]
      <4>1. PICK i \in 1..n : q[i] = x[1]
        BY <3>2
      <4>2. i \in live /\ x[1] # k /\ h2[x[1]] = h[x[1]] + 1
        BY <3>1, <4>1, CallsAssumption
      <4>3. x[2] <= h[x[1]] \/ x[2] = h[x[1]] + 1
        BY <3>1, <4>2
      <4>4. x[2] = h[x[1]] + 1 => x = g[i]
        BY <1>4, <3>1, <4>1, <4>2
      <4>5. x[2] <= h[x[1]] => x \in kept
        BY <3>1, <4>2 DEF Slots
      <4> QED
        BY <4>2, <4>3, <4>4, <4>5
    <3>3. CASE ~ \E i \in 1..n : q[i] = x[1]
      <4>1. x[1] # k
        BY <3>1, <3>3
      <4>2. h2[x[1]] = h[x[1]]
        BY <3>1, <3>3, <4>1
      <4> QED
        BY <3>1, <4>1, <4>2 DEF Slots
    <3> QED
      BY <3>2, <3>3
  <2>2. ASSUME NEW x \in kept PROVE x \in Slots(h2)
    <3>1. /\ x \in Calls \X (Nat \ {0}) /\ x[1] \in Calls /\ x[2] \in Nat \ {0} /\ x[2] <= h[x[1]]
          /\ x[1] # k /\ h[x[1]] \in Nat
      BY <2>2 DEF Slots
    <3>2. h2[x[1]] \in Nat /\ h2[x[1]] >= h[x[1]]
      BY <3>1
    <3>3. x[2] <= h2[x[1]]
      BY <3>1, <3>2
    <3> QED
      BY <3>1, <3>3 DEF Slots
  <2>3. ASSUME NEW i \in live PROVE g[i] \in Slots(h2)
    <3>1. h2[q[i]] = h[q[i]] + 1
      BY <1>4
    <3> QED
      BY <1>4, <3>1 DEF Slots
  <2> HIDE DEF g, live, kept
  <2>4. \A x \in given : \E i \in live : x = g[i]
    OBVIOUS
  <2> HIDE DEF given
  <2> QED
    BY <2>1, <2>2, <2>3, <2>4
<1> HIDE DEF kept, given, live
<1>8. /\ IsFiniteSet(kept \cup given)
      /\ Cardinality(kept \cup given) = Cardinality(kept) + Cardinality(given)
      /\ Cardinality(given) \in Nat
  BY <1>2, <1>5, <1>6, DisjointSize
<1>9. Cardinality(Slots(h2)) + h[k] = Cardinality(Slots(h)) + Cardinality(live)
  <2>1. h[k] \in Nat
    OBVIOUS
  <2> QED
    BY <1>2, <1>5, <1>7, <1>8, <2>1
<1> QED
  BY <1>7, <1>8, <1>9 DEF live

-----------------------------------------------------------------------------
(* What a call that gives its sessions back does to the others *)

LEMMA SmallerOfTwo ==
    ASSUME NEW a \in Nat, NEW b \in Nat
    PROVE  Min({a, b}) \in Nat /\ Min({a, b}) <= a /\ Min({a, b}) <= b /\ Min({a, b}) \in {a, b}
<1> DEFINE m == IF a <= b THEN a ELSE b
<1>1. m \in {a, b} /\ \A y \in {a, b} : m <= y
  OBVIOUS
<1>2. Min({a, b}) \in {a, b} /\ \A y \in {a, b} : Min({a, b}) <= y
  <2> HIDE DEF m
  <2>1. \E x \in {a, b} : \A y \in {a, b} : x <= y
    BY <1>1
  <2> QED
    BY <2>1 DEF Min
<1> QED
  BY <1>2

\* releaseSession, n times in one turn (BaseSessionPool.ts:307-337, 593-596, 622-627).
LEMMA Released ==
    ASSUME CallTypes, SessionCount, NEW k \in Calls, NEW outcome \in {"gaveup", "threw", "returned"},
           NEW q \in Seq(Calls \cup {GaveUp}), LiveWait(q), \A i \in DOMAIN q : q[i] # k,
           \A c \in Calls \ {k} : stage[c] = "waiting" => \E i \in DOMAIN q : q[i] = c,
           ReleaseAll(k, held[k], q, outcome)
    PROVE  /\ stage' \in [Calls -> Stages] /\ held' \in [Calls -> Nat] /\ free' \in Nat
           /\ entries' \in Seq(Calls \cup {GaveUp})
           /\ WaitersQueue'
           /\ stage'[k] = outcome /\ held'[k] = 0
           /\ \A c \in Calls \ {k} :
                 \/ stage'[c] = stage[c] /\ held'[c] = held[c]
                 \/ stage[c] = "waiting" /\ stage'[c] = "acquiring"
           /\ IsFiniteSet(Slots(held'))
           /\ free' + Cardinality(Slots(held')) <= free + Cardinality(Slots(held))
           /\ free' + Cardinality(Slots(held')) + Cardinality(DeadIn(q))
                  = free + Cardinality(Slots(held)) + Cardinality(DeadIn(entries'))
<1> DEFINE n == Min({held[k], Len(q)})
           rest == SubSeq(q, n + 1, Len(q))
           dead == {i \in 1..n : q[i] = GaveUp}
           live == {i \in 1..n : q[i] # GaveUp}
           Won(c) == \E i \in 1..n : q[i] = c
<1>1. /\ held[k] \in Nat /\ Len(q) \in Nat /\ DOMAIN q = 1..Len(q)
      /\ n \in Nat /\ n <= held[k] /\ n <= Len(q) /\ n \in 0..Len(q)
  <2>1. held[k] \in Nat /\ Len(q) \in Nat /\ DOMAIN q = 1..Len(q)
    BY Positions DEF CallTypes
  <2>2. n \in Nat /\ n <= held[k] /\ n <= Len(q)
    BY <2>1, SmallerOfTwo
  <2> HIDE DEF n
  <2> QED
    BY <2>1, <2>2
<1>2. /\ entries' = rest /\ free' = free + held[k] - n
      /\ \A c \in Calls : held'[c] = IF Won(c) THEN held[c] + 1 ELSE IF c = k THEN 0 ELSE held[c]
      /\ \A c \in Calls : stage'[c] = IF Won(c) THEN "acquiring" ELSE IF c = k THEN outcome ELSE stage[c]
      /\ held' = [c \in Calls |-> IF Won(c) THEN held[c] + 1 ELSE IF c = k THEN 0 ELSE held[c]]
      /\ stage' = [c \in Calls |-> IF Won(c) THEN "acquiring" ELSE IF c = k THEN outcome ELSE stage[c]]
  <2> DEFINE winners == {q[i] : i \in 1..n} \ {GaveUp}
  <2>1. /\ entries' = rest /\ free' = free + held[k] - n
        /\ held' = [c \in Calls |->
                       IF c \in winners THEN held[c] + 1 ELSE IF c = k THEN 0 ELSE held[c]]
        /\ stage' = [c \in Calls |->
                        IF c \in winners THEN "acquiring" ELSE IF c = k THEN outcome ELSE stage[c]]
    BY DEF ReleaseAll
  <2> HIDE DEF n
  <2>2. \A c \in Calls : c \in winners <=> Won(c)
    BY CallsAssumption
  <2> HIDE DEF winners, Won, rest
  <2> QED
    BY <2>1, <2>2
<1> HIDE DEF n
<1>3. /\ rest \in Seq(Calls \cup {GaveUp}) /\ Len(rest) = Len(q) - n
      /\ \A i \in 1..(Len(q) - n) : rest[i] = q[n + i]
      /\ IsFiniteSet(dead) /\ IsFiniteSet(live)
      /\ Cardinality(dead) \in Nat /\ Cardinality(live) \in Nat
      /\ Cardinality(dead) + Cardinality(live) = n
      /\ Cardinality(DeadIn(q)) = Cardinality(dead) + Cardinality(DeadIn(rest))
  BY <1>1, ServeFront
<1>4. \A i \in 1..Len(q) : q[i] \in Calls \cup {GaveUp} /\ q[i] # k
  BY <1>1, ElementOfSeq
<1>5. /\ \A i \in 1..Len(q) : q[i] # GaveUp => stage[q[i]] = "waiting"
      /\ \A i, j \in 1..Len(q) : q[i] = q[j] /\ q[i] # GaveUp => i = j
  BY <1>1 DEF LiveWait
<1>6. ~ Won(k)
  BY <1>1, <1>4
<1>7. \A c \in Calls : Won(c) => stage[c] = "waiting"
  BY <1>1, <1>5, CallsAssumption
<1>8. held' \in [Calls -> Nat]
  <2> HIDE DEF Won
  <2> QED
    BY <1>2 DEF CallTypes
<1>9. stage' \in [Calls -> Stages]
  <2> HIDE DEF Won
  <2> QED
    BY <1>2 DEF CallTypes, Stages
<1>10. /\ IsFiniteSet(Slots(held'))
       /\ Cardinality(Slots(held')) + held[k] = Cardinality(Slots(held)) + Cardinality(live)
  <2>1. \A i \in 1..n : q[i] \in Calls \cup {GaveUp} /\ q[i] # k
    BY <1>1, <1>4
  <2>2. \A i, j \in 1..n : q[i] = q[j] /\ q[i] # GaveUp => i = j
    BY <1>1, <1>5
  <2>3. held \in [Calls -> Nat] /\ IsFiniteSet(Slots(held))
    BY DEF CallTypes, SessionCount
  <2>4. Serves(held, held', k, n, q)
    BY <1>2, <2>1, <2>2 DEF Serves
  <2>5. \A h2 \in [Calls -> Nat] : Serves(held, h2, k, n, q) =>
            /\ IsFiniteSet(Slots(h2))
            /\ Cardinality(Slots(h2)) + held[k]
                  = Cardinality(Slots(held)) + Cardinality(LiveFirst(q, n))
    BY <1>1, <2>3, SlotsServed
  <2>6. live = LiveFirst(q, n)
    BY DEF LiveFirst
  <2> HIDE DEF live
  <2> QED
    BY <1>8, <2>4, <2>5, <2>6
<1>11. /\ free' \in Nat
       /\ free' + Cardinality(Slots(held')) <= free + Cardinality(Slots(held))
       /\ free' + Cardinality(Slots(held')) + Cardinality(DeadIn(q))
              = free + Cardinality(Slots(held)) + Cardinality(DeadIn(entries'))
  <2>1. /\ Cardinality(DeadIn(q)) \in Nat /\ Cardinality(DeadIn(rest)) \in Nat
        /\ Cardinality(Slots(held)) \in Nat /\ Cardinality(Slots(held')) \in Nat /\ free \in Nat
    BY <1>3, <1>10, Positions, FS_CardinalityType DEF SessionCount, CallTypes
  <2>2. free' = free + held[k] - n /\ entries' = rest
    BY <1>2
  <2>3. /\ Cardinality(dead) \in Nat /\ Cardinality(live) \in Nat
        /\ Cardinality(dead) + Cardinality(live) = n
        /\ Cardinality(DeadIn(q)) = Cardinality(dead) + Cardinality(DeadIn(rest))
    BY <1>3
  <2> HIDE DEF dead, live, rest, Won
  <2>4. free' \in Nat
    BY <1>1, <2>1, <2>2
  <2>5. /\ free' + Cardinality(Slots(held')) <= free + Cardinality(Slots(held))
        /\ free' + Cardinality(Slots(held')) + Cardinality(DeadIn(q))
              = free + Cardinality(Slots(held)) + Cardinality(DeadIn(rest))
    <3> DEFINE mine == held[k]
               idle2 == free'
               before == Cardinality(Slots(held))
               after == Cardinality(Slots(held'))
               gone == Cardinality(dead)
               got == Cardinality(live)
               deadBefore == Cardinality(DeadIn(q))
               deadAfter == Cardinality(DeadIn(rest))
    <3>1. /\ n \in Nat /\ mine \in Nat /\ before \in Nat /\ after \in Nat /\ gone \in Nat
          /\ got \in Nat /\ deadBefore \in Nat /\ deadAfter \in Nat /\ free \in Nat
      BY <1>1, <2>1, <2>3
    <3>2. idle2 = free + mine - n
      BY <2>2
    <3>3. gone + got = n /\ deadBefore = gone + deadAfter
      BY <2>3
    <3>4. after + mine = before + got
      BY <1>10
    <3> HIDE DEF mine, idle2, before, after, gone, got, deadBefore, deadAfter
    <3>5. idle2 + after <= free + before
      BY <3>1, <3>2, <3>3, <3>4
    <3>6. idle2 + after + deadBefore = free + before + deadAfter
      BY <3>1, <3>2, <3>3, <3>4
    <3> QED
      BY <3>5, <3>6 DEF idle2, before, after, deadBefore, deadAfter
  <2> QED
    BY <2>2, <2>4, <2>5
<1>12. WaitersQueue'
  <2>1. /\ entries' = rest /\ DOMAIN rest = 1..(Len(q) - n)
        /\ \A i \in 1..(Len(q) - n) : rest[i] = q[n + i]
    <3> HIDE DEF rest, Won, dead, live
    <3>1. DOMAIN rest = 1..Len(rest)
      BY <1>3, Positions
    <3> QED
      BY <1>2, <1>3, <3>1
  <2>2. \A i \in 1..(Len(q) - n) : n + i \in 1..Len(q) /\ n + i > n
    BY <1>1
  <2>3. \A i \in DOMAIN rest : /\ rest[i] = q[n + i] /\ n + i \in 1..Len(q) /\ n + i > n
                               /\ i \in Int
    <3> HIDE DEF rest
    <3> QED
      BY <1>1, <2>1, <2>2
  <2> HIDE DEF rest
  <2>4. ASSUME NEW i \in DOMAIN rest, rest[i] # GaveUp PROVE stage'[rest[i]] = "waiting"
    <3>1. /\ rest[i] = q[n + i] /\ n + i \in 1..Len(q) /\ n + i > n
      BY <2>3
    <3>2. rest[i] \in Calls /\ rest[i] # k /\ stage[rest[i]] = "waiting"
      BY <1>4, <1>5, <2>4, <3>1
    <3>3. \A j \in 1..n : j \in 1..Len(q) /\ j # n + i
      BY <1>1, <3>1
    <3>4. ~ Won(rest[i])
      BY <1>5, <2>4, <3>1, <3>3
    <3> HIDE DEF Won
    <3> QED
      BY <1>2, <3>2, <3>4
  <2>5. ASSUME NEW i \in DOMAIN rest, NEW j \in DOMAIN rest, rest[i] = rest[j], rest[i] # GaveUp
        PROVE  i = j
    <3>1. /\ n + i \in 1..Len(q) /\ n + j \in 1..Len(q) /\ i \in Int /\ j \in Int
          /\ rest[i] = q[n + i] /\ rest[j] = q[n + j]
      BY <2>3
    <3>2. n + i = n + j
      BY <1>5, <2>5, <3>1
    <3> QED
      BY <1>1, <3>1, <3>2
  <2>6. ASSUME NEW c \in Calls, stage'[c] = "waiting" PROVE \E i \in DOMAIN rest : rest[i] = c
    <3>1. c # k /\ stage[c] = "waiting" /\ ~ Won(c)
      <4> HIDE DEF Won
      <4> QED
        BY <1>2, <1>6, <2>6
    <3>2. PICK j \in 1..Len(q) : q[j] = c
      BY <1>1, <3>1
    <3>3. j > n /\ j - n \in 1..(Len(q) - n) /\ n + (j - n) = j
      BY <1>1, <3>1, <3>2
    <3> QED
      BY <2>1, <3>2, <3>3
  <2> HIDE DEF Won, dead, live
  <2> QED
    BY <2>1, <2>4, <2>5, <2>6 DEF WaitersQueue, LiveWait
<1>13. \A c \in Calls \ {k} : \/ stage'[c] = stage[c] /\ held'[c] = held[c]
                              \/ stage[c] = "waiting" /\ stage'[c] = "acquiring"
  BY <1>2, <1>7
<1>14. stage'[k] = outcome /\ held'[k] = 0
  BY <1>2, <1>6
<1> QED
  BY <1>2, <1>3, <1>8, <1>9, <1>10, <1>11, <1>12, <1>13, <1>14

-----------------------------------------------------------------------------
(* The steps *)

LEMMA ParallelInvInit == ParallelInit => ParallelInv
<1> SUFFICES ASSUME ParallelInit PROVE ParallelInv
  OBVIOUS
<1>1. DOMAIN entries = {} /\ entries \in Seq(Calls \cup {GaveUp})
  BY DEF ParallelInit
<1>2. CallTypes
  BY <1>1, PermitsAssumption DEF ParallelInit, CallTypes, Stages
<1>3. WaitersQueue
  BY <1>1 DEF ParallelInit, WaitersQueue, LiveWait
<1>4. ASSUME NEW k \in Calls PROVE WorkOf(k)
  BY DEF ParallelInit, WorkOf
<1>5. SessionCount
  <2>1. Slots(held) = {} /\ Quitters = {} /\ DeadIn(entries) = {}
    BY <1>1 DEF ParallelInit, Slots, Quitters, DeadIn
  <2>2. IsFiniteSet({}) /\ Cardinality({}) = 0
    BY FS_EmptySet
  <2>3. \A k \in Calls : ~ Over(k)
    BY DEF ParallelInit, Over
  <2> QED
    <3>1. free = Permits /\ Permits \in Nat
      BY PermitsAssumption DEF ParallelInit
    <3>2. /\ IsFiniteSet(Slots(held)) /\ Cardinality(Slots(held)) = 0
          /\ Cardinality(Quitters) = 0 /\ Cardinality(DeadIn(entries)) = 0
      BY <2>1, <2>2
    <3> QED
      BY <2>3, <3>1, <3>2 DEF SessionCount
<1> QED
  BY <1>2, <1>3, <1>4, <1>5 DEF ParallelInv

\* A call is given a session or queues (BaseSessionPool.ts:230-293, 585-589).
LEMMA ObtainKeeps == ASSUME ParallelInv, NEW k \in Calls, Obtain(k) PROVE ParallelInv'
<1> USE DEF ParallelInv
<1>1. stage[k] = "acquiring" /\ UNCHANGED <<kind, taken, busy, settled, errors, halted>>
  BY DEF Obtain
<1>2. CASE free > 0 /\ free' = free - 1 /\ held' = [held EXCEPT ![k] = @ + 1] /\ UNCHANGED <<stage, entries>>
  <2>1. free' \in Nat /\ held' \in [Calls -> Nat]
    BY <1>2 DEF CallTypes
  <2>2. CallTypes'
    BY <1>1, <1>2, <2>1 DEF CallTypes
  <2>3. WaitersQueue'
    BY <1>2 DEF WaitersQueue, LiveWait
  <2>4. ASSUME NEW c \in Calls PROVE WorkOf(c)'
    <3>1. held'[c] = IF c = k THEN held[k] + 1 ELSE held[c]
      BY <1>2 DEF CallTypes
    <3>2. stage[c] = "working" => held'[c] = held[c]
      BY <1>1, <3>1
    <3> QED
      BY <1>1, <1>2, <3>2 DEF WorkOf
  <2>5. SessionCount'
    <3>1. IsFiniteSet(Slots(held')) /\ Cardinality(Slots(held')) = Cardinality(Slots(held)) + 1
      BY <1>2, SlotMore DEF CallTypes, SessionCount
    <3>2. Cardinality(Slots(held)) \in Nat
      BY FS_CardinalityType DEF SessionCount
    <3>3. free' + Cardinality(Slots(held')) = free + Cardinality(Slots(held))
      BY <1>2, <3>1, <3>2 DEF CallTypes
    <3>4. \A c \in Calls : Over(c)' => held'[c] = 0
      BY <1>1, <1>2 DEF SessionCount, Over, CallTypes
    <3>5. UNCHANGED <<Quitters, DeadIn(entries)>>
      BY <1>2 DEF Quitters
    <3> QED
      BY <3>1, <3>3, <3>4, <3>5 DEF SessionCount
  <2> QED
    BY <2>2, <2>3, <2>4, <2>5
<1>3. CASE entries' = Append(entries, k) /\ stage' = [stage EXCEPT ![k] = "waiting"] /\ UNCHANGED <<free, held>>
  <2>1. \A c \in Calls : stage'[c] = IF c = k THEN "waiting" ELSE stage[c]
    BY <1>3 DEF CallTypes
  <2>2. k \in Calls \cup {GaveUp} /\ k # GaveUp
    BY CallsAssumption
  <2>3. /\ entries' \in Seq(Calls \cup {GaveUp}) /\ Len(entries') = Len(entries) + 1
        /\ \A i \in 1..Len(entries) : entries'[i] = entries[i]
        /\ entries'[Len(entries) + 1] = k
    BY <1>3, <2>2, AppendProperties DEF CallTypes
  <2>4. /\ Len(entries) \in Nat /\ DOMAIN entries = 1..Len(entries)
        /\ DOMAIN entries' = 1..(Len(entries) + 1)
        /\ DOMAIN entries' = DOMAIN entries \cup {Len(entries) + 1}
    <3>1. Len(entries) \in Nat /\ DOMAIN entries = 1..Len(entries) /\ DOMAIN entries' = 1..(Len(entries) + 1)
      BY <2>3, LenProperties DEF CallTypes
    <3> QED
      BY <3>1
  <2>5. CallTypes'
    BY <1>1, <1>3, <2>3 DEF CallTypes, Stages
  <2>6. \A i \in DOMAIN entries : entries[i] # k
    BY <1>1, <2>2 DEF WaitersQueue, LiveWait
  <2>7. WaitersQueue'
    <3>1. ASSUME NEW i \in DOMAIN entries', entries'[i] # GaveUp PROVE stage'[entries'[i]] = "waiting"
      <4>1. CASE i = Len(entries) + 1
        BY <2>1, <2>3, <4>1
      <4>2. CASE i \in DOMAIN entries
        <5>1. entries'[i] = entries[i] /\ entries[i] \in Calls /\ stage[entries[i]] = "waiting"
          BY <2>3, <2>4, <3>1, <4>2, ElementOfSeq DEF WaitersQueue, LiveWait, CallTypes
        <5> QED
          BY <2>1, <5>1
      <4> QED
        BY <2>4, <4>1, <4>2
    <3>2. ASSUME NEW i \in DOMAIN entries', NEW j \in DOMAIN entries',
                 entries'[i] = entries'[j], entries'[i] # GaveUp
          PROVE  i = j
      BY <2>3, <2>4, <2>6, <3>2 DEF WaitersQueue, LiveWait
    <3>3. ASSUME NEW c \in Calls, stage'[c] = "waiting" PROVE \E i \in DOMAIN entries' : entries'[i] = c
      BY <2>1, <2>3, <2>4, <3>3 DEF WaitersQueue
    <3> QED
      BY <3>1, <3>2, <3>3 DEF WaitersQueue, LiveWait
  <2>8. ASSUME NEW c \in Calls PROVE WorkOf(c)'
    BY <1>1, <1>3, <2>1 DEF WorkOf
  <2>9. SessionCount'
    <3>1. DeadIn(entries') = DeadIn(entries)
      BY <2>2, <2>3, <2>4 DEF DeadIn
    <3>2. Quitters' = Quitters /\ \A c \in Calls : Over(c)' = Over(c)
      BY <1>1, <2>1 DEF Quitters, Over
    <3> QED
      BY <1>3, <3>1, <3>2 DEF SessionCount
  <2> QED
    BY <2>5, <2>7, <2>8, <2>9
<1> QED
  BY <1>2, <1>3 DEF Obtain

\* A call has all its sessions (BaseSessionPool.ts:599-621).
LEMMA StartKeeps == ASSUME ParallelInv, NEW k \in Calls, StartWorking(k) PROVE ParallelInv'
<1> USE DEF ParallelInv
<1>1. /\ stage[k] = "acquiring" /\ held[k] = Wanted(k)
      /\ stage' = [stage EXCEPT ![k] = "working"] /\ taken' = [taken EXCEPT ![k] = held[k]]
      /\ busy' = [busy EXCEPT ![k] = 1..held[k]]
      /\ UNCHANGED <<kind, held, free, entries, settled, errors, halted>>
  BY DEF StartWorking
<1>2. held[k] \in Nat /\ held[k] # 0 /\ held[k] <= ItemCount[k] /\ ItemCount[k] \in Nat
  <2>1. ItemCount[k] \in Nat \ {0} /\ Width[k] \in Nat \ {0}
    BY OptionsAssumption
  <2>2. Wanted(k) \in {Width[k], ItemCount[k]} /\ Wanted(k) <= ItemCount[k]
    BY <2>1, SmallerOfTwo DEF Wanted
  <2> QED
    BY <1>1, <2>1, <2>2
<1>3. /\ \A c \in Calls : stage'[c] = IF c = k THEN "working" ELSE stage[c]
      /\ \A c \in Calls : taken'[c] = IF c = k THEN held[k] ELSE taken[c]
      /\ \A c \in Calls : busy'[c] = IF c = k THEN 1..held[k] ELSE busy[c]
  BY <1>1 DEF CallTypes
<1>4. CallTypes'
  BY <1>1, <1>2 DEF CallTypes, Stages
<1>5. WaitersQueue'
  <2>1. \A i \in DOMAIN entries : entries[i] # GaveUp => entries[i] # k /\ entries[i] \in Calls
    BY <1>1, ElementOfSeq, LenProperties DEF WaitersQueue, LiveWait, CallTypes
  <2> QED
    BY <1>1, <1>3, <2>1 DEF WaitersQueue, LiveWait
<1>6. ASSUME NEW c \in Calls PROVE WorkOf(c)'
  <2>1. CASE c = k
    <3>1. taken[k] = 0 /\ ~ halted[k] /\ settled[k] \cup busy[k] = 1..taken[k]
      BY <1>1 DEF WorkOf
    <3>2. settled[k] = {}
      BY <3>1
    <3>3. Cardinality(1..held[k]) = held[k]
      <4>1. 1 \in Int /\ held[k] \in Int
        BY <1>2
      <4>2. Cardinality(1..held[k]) = IF 1 > held[k] THEN 0 ELSE held[k] - 1 + 1
        BY <4>1, FS_Interval
      <4> QED
        BY <1>2, <4>2
    <3>4. 1 \in 1..held[k]
      BY <1>2
    <3> QED
      BY <1>1, <1>2, <1>3, <2>1, <3>1, <3>2, <3>3, <3>4 DEF WorkOf
  <2>2. CASE c # k
    BY <1>1, <1>3, <2>2 DEF WorkOf
  <2> QED
    BY <2>1, <2>2
<1>7. SessionCount'
  <2>1. Quitters' = Quitters /\ \A c \in Calls : Over(c)' = Over(c)
    BY <1>1, <1>3 DEF Quitters, Over
  <2> QED
    BY <1>1, <2>1 DEF SessionCount
<1> QED
  BY <1>4, <1>5, <1>6, <1>7

\* An operation ends (BaseSessionPool.ts:599-621, 714-736).
LEMMA SettleKeeps ==
    ASSUME ParallelInv, NEW k \in Calls, NEW i \in 1..ItemCount[k], Settle(k, i) PROVE ParallelInv'
<1> USE DEF ParallelInv
<1>1. /\ i \in busy[k] /\ settled' = [settled EXCEPT ![k] = @ \cup {i}]
      /\ \/ UNCHANGED <<errors, halted>>
         \/ /\ errors' = [errors EXCEPT ![k] = @ \cup {i}]
            /\ halted' = [halted EXCEPT ![k] = @ \/ kind[k] = "stopping"]
      /\ UNCHANGED <<kind, stage, held, free, entries>>
  BY DEF Settle
<1>2. /\ ItemCount[k] \in Nat /\ i \in Nat /\ taken[k] \in Nat /\ held[k] \in Nat
      /\ settled[k] \cup busy[k] = 1..taken[k] /\ settled[k] \cap busy[k] = {}
  BY OptionsAssumption DEF CallTypes, WorkOf
<1>3. stage[k] = "working" /\ taken[k] <= ItemCount[k]
  <2>1. taken[k] # 0 /\ busy[k] # {}
    BY <1>1, <1>2
  <2> QED
    BY <2>1 DEF WorkOf, CallTypes, Stages
<1>4. /\ settled' \in [Calls -> SUBSET Nat] /\ errors' \in [Calls -> SUBSET Nat]
      /\ settled'[k] = settled[k] \cup {i} /\ \A c \in Calls \ {k} : settled'[c] = settled[c]
  <2>1. settled[k] \cup {i} \in SUBSET Nat /\ errors[k] \cup {i} \in SUBSET Nat
    BY <1>2 DEF CallTypes
  <2>2. settled' \in [Calls -> SUBSET Nat] /\ errors' \in [Calls -> SUBSET Nat]
    BY <1>1, <2>1 DEF CallTypes
  <2>3. settled'[k] = settled[k] \cup {i} /\ \A c \in Calls \ {k} : settled'[c] = settled[c]
    BY <1>1 DEF CallTypes
  <2> QED
    BY <2>2, <2>3
<1>5. /\ halted' \in [Calls -> BOOLEAN] /\ \A c \in Calls \ {k} : halted'[c] = halted[c]
      /\ halted[k] => halted'[k]
  BY <1>1 DEF CallTypes
<1>6. /\ taken' \in [Calls -> Nat] /\ busy' \in [Calls -> SUBSET Nat]
      /\ \A c \in Calls \ {k} : taken'[c] = taken[c] /\ busy'[c] = busy[c]
      /\ \/ /\ ~ halted'[k] /\ taken[k] < ItemCount[k] /\ taken'[k] = taken[k] + 1
            /\ busy'[k] = (busy[k] \ {i}) \cup {taken[k] + 1}
         \/ /\ halted'[k] \/ taken[k] = ItemCount[k]
            /\ taken'[k] = taken[k] /\ busy'[k] = busy[k] \ {i}
  <2>1. CASE /\ GoesOn(k) /\ taken' = [taken EXCEPT ![k] = @ + 1]
             /\ busy' = [busy EXCEPT ![k] = (@ \ {i}) \cup {taken[k] + 1}]
    BY <1>2, <2>1 DEF CallTypes, GoesOn
  <2>2. CASE ~ GoesOn(k) /\ busy' = [busy EXCEPT ![k] = @ \ {i}] /\ UNCHANGED taken
    BY <1>2, <1>3, <2>2 DEF CallTypes, GoesOn
  <2> QED
    BY <2>1, <2>2 DEF Settle
<1>7. IsFiniteSet(busy[k]) /\ IsFiniteSet(busy[k] \ {i})
      /\ Cardinality(busy[k]) \in Nat /\ Cardinality(busy[k] \ {i}) = Cardinality(busy[k]) - 1
  <2>1. IsFiniteSet(1..taken[k])
    <3>1. 1 \in Int /\ taken[k] \in Int
      BY <1>2
    <3> QED
      BY <3>1, FS_Interval
  <2>2. IsFiniteSet(busy[k])
    BY <1>2, <2>1, FS_Subset
  <2> QED
    BY <1>1, <2>2, FS_RemoveElement, FS_CardinalityType
<1>8. WorkOf(k)'
  <2>1. CASE /\ ~ halted'[k] /\ taken[k] < ItemCount[k] /\ taken'[k] = taken[k] + 1
             /\ busy'[k] = (busy[k] \ {i}) \cup {taken[k] + 1}
    <3>1. taken[k] + 1 \notin busy[k] /\ taken[k] + 1 \notin settled[k]
      BY <1>2
    <3>2. 1..(taken[k] + 1) = (1..taken[k]) \cup {taken[k] + 1}
      BY <1>2
    <3>3. settled'[k] \cup busy'[k] = 1..taken'[k] /\ settled'[k] \cap busy'[k] = {}
      BY <1>1, <1>2, <1>4, <2>1, <3>1, <3>2
    <3>4. Cardinality(busy'[k]) = Cardinality(busy[k])
      <4>1. Cardinality((busy[k] \ {i}) \cup {taken[k] + 1}) = Cardinality(busy[k] \ {i}) + 1
        BY <1>7, <3>1, FS_AddElement
      <4> QED
        BY <1>7, <2>1, <4>1
    <3>5. stage'[k] = "working" /\ held'[k] = held[k] /\ busy'[k] # {}
      BY <1>1, <1>3, <2>1
    <3>6. taken'[k] <= ItemCount[k] /\ Cardinality(busy'[k]) <= held'[k]
      BY <1>2, <1>3, <2>1, <3>4, <3>5 DEF WorkOf
    <3> QED
      BY <2>1, <3>3, <3>5, <3>6 DEF WorkOf
  <2>2. CASE /\ halted'[k] \/ taken[k] = ItemCount[k]
             /\ taken'[k] = taken[k] /\ busy'[k] = busy[k] \ {i}
    <3>1. settled'[k] \cup busy'[k] = 1..taken'[k] /\ settled'[k] \cap busy'[k] = {}
      BY <1>1, <1>2, <1>4, <2>2
    <3>2. stage'[k] = "working" /\ held'[k] = held[k]
      BY <1>1, <1>3
    <3>3. Cardinality(busy'[k]) < held'[k]
      BY <1>2, <1>3, <1>7, <2>2, <3>2 DEF WorkOf
    <3>4. Cardinality(busy'[k]) <= held'[k]
      BY <1>2, <1>7, <2>2, <3>2, <3>3
    <3> QED
      BY <1>3, <2>2, <3>1, <3>2, <3>3, <3>4 DEF WorkOf
  <2> QED
    BY <1>6, <2>1, <2>2
<1>9. ASSUME NEW c \in Calls \ {k} PROVE WorkOf(c)'
  BY <1>1, <1>4, <1>5, <1>6, <1>9 DEF WorkOf
<1>10. CallTypes'
  BY <1>1, <1>4, <1>5, <1>6 DEF CallTypes
<1>11. WaitersQueue' /\ SessionCount'
  BY <1>1 DEF WaitersQueue, LiveWait, SessionCount, Over, Quitters
<1> QED
  BY <1>8, <1>9, <1>10, <1>11

\* A call gives its sessions back: the invariant of the others.
LEMMA OthersKeep ==
    ASSUME ParallelInv, NEW k \in Calls,
           \A c \in Calls \ {k} : \/ stage'[c] = stage[c] /\ held'[c] = held[c]
                                  \/ stage[c] = "waiting" /\ stage'[c] = "acquiring",
           UNCHANGED <<kind, taken, busy, settled, errors, halted>>
    PROVE  /\ \A c \in Calls \ {k} : WorkOf(c)'
           /\ \A c \in Calls \ {k} : Over(c)' => Over(c) /\ held'[c] = 0
           /\ \A c \in Calls \ {k} : stage'[c] = "gaveup" <=> stage[c] = "gaveup"
<1>1. ASSUME NEW c \in Calls \ {k} PROVE WorkOf(c)'
  BY DEF ParallelInv, WorkOf
<1>2. ASSUME NEW c \in Calls \ {k}, Over(c)' PROVE Over(c) /\ held'[c] = 0
  BY <1>2 DEF ParallelInv, SessionCount, Over
<1>3. \A c \in Calls \ {k} : stage'[c] = "gaveup" <=> stage[c] = "gaveup"
  OBVIOUS
<1> QED
  BY <1>1, <1>2, <1>3

\* A call cannot get another session in time (BaseSessionPool.ts:270-279, 585-596).
LEMMA FailsKeeps == ASSUME ParallelInv, NEW k \in Calls, AcquisitionFails(k) PROVE ParallelInv'
<1> DEFINE q == [i \in DOMAIN entries |-> IF entries[i] = k THEN GaveUp ELSE entries[i]]
<1>1. /\ stage[k] = "waiting" /\ ReleaseAll(k, held[k], q, "gaveup")
      /\ UNCHANGED <<kind, taken, busy, settled, errors, halted>>
  BY DEF AcquisitionFails, Impatient, GivesBack
<1>2. CallTypes /\ WaitersQueue /\ SessionCount
  BY DEF ParallelInv
<1>3. Len(entries) \in Nat /\ DOMAIN entries = 1..Len(entries)
      /\ \A i \in DOMAIN entries : entries[i] \in Calls \cup {GaveUp}
  BY <1>2, LenProperties, ElementOfSeq DEF CallTypes
<1>4. /\ q \in Seq(Calls \cup {GaveUp}) /\ DOMAIN q = DOMAIN entries
      /\ \A i \in DOMAIN q : q[i] = IF entries[i] = k THEN GaveUp ELSE entries[i]
  BY <1>3
<1> HIDE DEF q
<1>5. k # GaveUp
  BY CallsAssumption
<1>6. LiveWait(q) /\ \A i \in DOMAIN q : q[i] # k
  <2>1. ASSUME NEW i \in DOMAIN q, q[i] # GaveUp PROVE stage[q[i]] = "waiting" /\ q[i] = entries[i]
    BY <1>2, <1>4, <2>1 DEF WaitersQueue, LiveWait
  <2>2. ASSUME NEW i \in DOMAIN q, NEW j \in DOMAIN q, q[i] = q[j], q[i] # GaveUp PROVE i = j
    BY <1>2, <1>4, <2>2 DEF WaitersQueue, LiveWait
  <2> QED
    BY <1>4, <1>5, <2>1, <2>2 DEF LiveWait
<1>7. \A c \in Calls \ {k} : stage[c] = "waiting" => \E i \in DOMAIN q : q[i] = c
  BY <1>2, <1>4 DEF WaitersQueue
<1>8. /\ stage' \in [Calls -> Stages] /\ held' \in [Calls -> Nat] /\ free' \in Nat
      /\ entries' \in Seq(Calls \cup {GaveUp})
      /\ WaitersQueue'
      /\ stage'[k] = "gaveup" /\ held'[k] = 0
      /\ \A c \in Calls \ {k} :
            \/ stage'[c] = stage[c] /\ held'[c] = held[c]
            \/ stage[c] = "waiting" /\ stage'[c] = "acquiring"
      /\ IsFiniteSet(Slots(held'))
      /\ free' + Cardinality(Slots(held')) <= free + Cardinality(Slots(held))
      /\ free' + Cardinality(Slots(held')) + Cardinality(DeadIn(q))
             = free + Cardinality(Slots(held)) + Cardinality(DeadIn(entries'))
  BY <1>1, <1>2, <1>4, <1>6, <1>7, Released
<1>9. /\ \A c \in Calls \ {k} : WorkOf(c)'
      /\ \A c \in Calls \ {k} : Over(c)' => Over(c) /\ held'[c] = 0
      /\ \A c \in Calls \ {k} : stage'[c] = "gaveup" <=> stage[c] = "gaveup"
  BY <1>1, <1>8, OthersKeep
<1>10. WorkOf(k)'
  BY <1>1, <1>8 DEF ParallelInv, WorkOf
<1>11. Cardinality(DeadIn(q)) = Cardinality(DeadIn(entries)) + 1
  <2>1. PICK m \in DOMAIN entries : entries[m] = k
    BY <1>1, <1>2 DEF WaitersQueue
  <2>2. \A i \in DOMAIN entries : entries[i] = k => i = m
    BY <1>2, <1>5, <2>1 DEF WaitersQueue, LiveWait
  <2>3. DeadIn(q) = DeadIn(entries) \cup {m} /\ m \notin DeadIn(entries)
    BY <1>4, <1>5, <2>1, <2>2 DEF DeadIn
  <2>4. IsFiniteSet(DeadIn(entries))
    BY <1>2, Positions DEF CallTypes
  <2> QED
    BY <2>3, <2>4, FS_AddElement
<1>12. Cardinality(Quitters') = Cardinality(Quitters) + 1 /\ Cardinality(Quitters) \in Nat
  <2>1. Quitters' = Quitters \cup {k} /\ k \notin Quitters
    BY <1>1, <1>8, <1>9 DEF Quitters
  <2>2. IsFiniteSet(Quitters)
    BY CallsAssumption, FS_Subset DEF Quitters
  <2> QED
    BY <2>1, <2>2, FS_AddElement, FS_CardinalityType
<1>13. SessionCount'
  <2> DEFINE before == Cardinality(Slots(held))
             after == Cardinality(Slots(held'))
             deadBefore == Cardinality(DeadIn(entries))
             deadQ == Cardinality(DeadIn(q))
             deadAfter == Cardinality(DeadIn(entries'))
             quitters == Cardinality(Quitters)
             quitters2 == Cardinality(Quitters')
             free2 == free'
  <2>1. before \in Nat /\ after \in Nat /\ quitters \in Nat /\ free \in Nat /\ Permits \in Nat
    BY <1>2, <1>8, <1>12, FS_CardinalityType, PermitsAssumption DEF SessionCount, CallTypes
  <2>2. deadBefore \in Nat /\ deadQ \in Nat /\ deadAfter \in Nat
    BY <1>2, <1>4, <1>8, Positions DEF CallTypes
  <2>3. /\ free2 \in Nat /\ free2 + after <= free + before
        /\ free2 + after + deadQ = free + before + deadAfter
    BY <1>8
  <2>4. deadQ = deadBefore + 1 /\ quitters2 = quitters + 1
    BY <1>11, <1>12
  <2>5. free + before <= Permits /\ free + before + quitters >= Permits + deadBefore
    BY <1>2 DEF SessionCount
  <2>6. \A c \in Calls : Over(c)' => held'[c] = 0
    BY <1>8, <1>9
  <2> HIDE DEF before, after, deadBefore, deadQ, deadAfter, quitters, quitters2, free2
  <2>7. free2 + after <= Permits
    BY <2>1, <2>3, <2>5
  <2>8. free2 + after + quitters2 >= Permits + deadAfter
    BY <2>1, <2>2, <2>3, <2>4, <2>5
  <2> QED
    BY <1>8, <2>6, <2>7, <2>8 DEF SessionCount, after, deadAfter, quitters2, free2
<1>14. CallTypes'
  BY <1>1, <1>2, <1>8 DEF CallTypes
<1> QED
  BY <1>8, <1>9, <1>10, <1>13, <1>14 DEF ParallelInv

\* All workers of a call have ended (BaseSessionPool.ts:622-627, 737-741).
LEMMA FinishKeeps == ASSUME ParallelInv, NEW k \in Calls, FinishCall(k) PROVE ParallelInv'
<1>1. PICK outcome \in {"threw", "returned"} :
         /\ stage[k] = "working" /\ busy[k] = {} /\ ReleaseAll(k, held[k], entries, outcome)
         /\ UNCHANGED <<kind, taken, busy, settled, errors, halted>>
  <2> DEFINE o == IF errors[k] # {} /\ kind[k] # "execute" THEN "threw" ELSE "returned"
  <2>1. o \in {"threw", "returned"} /\ ReleaseAll(k, held[k], entries, o)
    BY DEF FinishCall
  <2>2. /\ stage[k] = "working" /\ busy[k] = {}
        /\ UNCHANGED <<kind, taken, busy, settled, errors, halted>>
    BY DEF FinishCall, AllDone
  <2> HIDE DEF o
  <2> QED
    BY <2>1, <2>2
<1>2. CallTypes /\ WaitersQueue /\ SessionCount
  BY DEF ParallelInv
<1>3. LiveWait(entries) /\ \A i \in DOMAIN entries : entries[i] # k
  BY <1>1, <1>2, CallsAssumption DEF WaitersQueue, LiveWait
<1>4. entries \in Seq(Calls \cup {GaveUp})
  BY <1>2 DEF CallTypes
<1>5. \A c \in Calls \ {k} : stage[c] = "waiting" => \E i \in DOMAIN entries : entries[i] = c
  BY <1>2 DEF WaitersQueue
<1>6. /\ stage' \in [Calls -> Stages] /\ held' \in [Calls -> Nat] /\ free' \in Nat
      /\ entries' \in Seq(Calls \cup {GaveUp})
      /\ WaitersQueue'
      /\ stage'[k] = outcome /\ held'[k] = 0
      /\ \A c \in Calls \ {k} :
            \/ stage'[c] = stage[c] /\ held'[c] = held[c]
            \/ stage[c] = "waiting" /\ stage'[c] = "acquiring"
      /\ IsFiniteSet(Slots(held'))
      /\ free' + Cardinality(Slots(held')) <= free + Cardinality(Slots(held))
      /\ free' + Cardinality(Slots(held')) + Cardinality(DeadIn(entries))
             = free + Cardinality(Slots(held)) + Cardinality(DeadIn(entries'))
  BY <1>1, <1>2, <1>3, <1>4, <1>5, Released
<1>7. /\ \A c \in Calls \ {k} : WorkOf(c)'
      /\ \A c \in Calls \ {k} : Over(c)' => Over(c) /\ held'[c] = 0
      /\ \A c \in Calls \ {k} : stage'[c] = "gaveup" <=> stage[c] = "gaveup"
  BY <1>1, <1>6, OthersKeep
<1>8. WorkOf(k)'
  BY <1>1, <1>6 DEF ParallelInv, WorkOf
<1>9. Quitters' = Quitters
  BY <1>1, <1>6, <1>7 DEF Quitters
<1>10. SessionCount'
  <2> DEFINE before == Cardinality(Slots(held))
             after == Cardinality(Slots(held'))
             deadBefore == Cardinality(DeadIn(entries))
             deadAfter == Cardinality(DeadIn(entries'))
             quitters == Cardinality(Quitters)
             free2 == free'
  <2>1. before \in Nat /\ after \in Nat /\ quitters \in Nat /\ free \in Nat /\ Permits \in Nat
    <3>1. IsFiniteSet(Quitters)
      BY CallsAssumption, FS_Subset DEF Quitters
    <3> QED
      BY <1>2, <1>6, <3>1, FS_CardinalityType, PermitsAssumption DEF SessionCount, CallTypes
  <2>2. deadBefore \in Nat /\ deadAfter \in Nat
    BY <1>2, <1>4, <1>6, Positions DEF CallTypes
  <2>3. /\ free2 \in Nat /\ free2 + after <= free + before
        /\ free2 + after + deadBefore = free + before + deadAfter
    BY <1>6
  <2>4. free + before <= Permits /\ free + before + quitters >= Permits + deadBefore
    BY <1>2 DEF SessionCount
  <2>5. \A c \in Calls : Over(c)' => held'[c] = 0
    BY <1>6, <1>7
  <2>6. Cardinality(Quitters') = quitters
    BY <1>9
  <2> HIDE DEF before, after, deadBefore, deadAfter, quitters, free2
  <2>7. free2 + after <= Permits
    BY <2>1, <2>3, <2>4
  <2>8. free2 + after + quitters >= Permits + deadAfter
    BY <2>1, <2>2, <2>3, <2>4
  <2> QED
    BY <1>6, <2>5, <2>6, <2>7, <2>8 DEF SessionCount, after, deadAfter, free2
<1>11. CallTypes'
  BY <1>1, <1>2, <1>6 DEF CallTypes
<1> QED
  BY <1>6, <1>7, <1>8, <1>10, <1>11 DEF ParallelInv

LEMMA ParallelInvNext == ParallelInv /\ [ParallelNext]_parallelVars => ParallelInv'
<1> SUFFICES ASSUME ParallelInv, [ParallelNext]_parallelVars PROVE ParallelInv'
  OBVIOUS
<1>1. ASSUME NEW k \in Calls, CallSteps(k) PROVE ParallelInv'
  BY <1>1, ObtainKeeps, StartKeeps, FinishKeeps, SettleKeeps DEF CallSteps
<1>2. ASSUME NEW k \in Calls, AcquisitionFails(k) PROVE ParallelInv'
  BY <1>2, FailsKeeps
<1>3. CASE UNCHANGED parallelVars
  <2>1. UNCHANGED <<kind, stage, held, free, entries, taken, busy, settled, errors, halted>>
    BY <1>3 DEF parallelVars
  <2>2. CallTypes' /\ WaitersQueue'
    BY <2>1 DEF ParallelInv, CallTypes, WaitersQueue, LiveWait
  <2>3. (\A k \in Calls : WorkOf(k))'
    BY <2>1 DEF ParallelInv, WorkOf
  <2>4. SessionCount'
    BY <2>1 DEF ParallelInv, SessionCount, Over, Quitters
  <2> QED
    BY <2>2, <2>3, <2>4 DEF ParallelInv
<1> QED
  BY <1>1, <1>2, <1>3 DEF ParallelNext

LEMMA ParallelAlways == ParallelSpec => []ParallelInv
BY ParallelInvInit, ParallelInvNext, PTL DEF ParallelSpec

\* The workers of a call do each item once, in whatever order their operations end
\* (BaseSessionPool.ts:599-621, 644-656, 714-736).
THEOREM ItemsDoneOnce == ParallelSpec => []ItemsOnce
<1>1. ParallelInv => ItemsOnce
  <2> SUFFICES ASSUME ParallelInv, NEW k \in Calls
               PROVE  /\ settled[k] \cup busy[k] = 1..taken[k] /\ settled[k] \cap busy[k] = {}
                      /\ stage[k] \in {"threw", "returned"} =>
                          busy[k] = {} /\ (halted[k] \/ settled[k] = 1..ItemCount[k])
                      /\ stage[k] = "gaveup" => settled[k] = {}
                      /\ halted[k] /\ stage[k] = "working" => Cardinality(busy[k]) < held[k]
    BY DEF ItemsOnce
  <2>1. WorkOf(k)
    BY DEF ParallelInv
  <2>2. settled[k] \cup busy[k] = 1..taken[k] /\ settled[k] \cap busy[k] = {}
    BY <2>1 DEF WorkOf
  <2>3. ASSUME stage[k] \in {"threw", "returned"}
        PROVE  busy[k] = {} /\ (halted[k] \/ settled[k] = 1..ItemCount[k])
    <3>1. busy[k] = {} /\ (halted[k] \/ taken[k] = ItemCount[k])
      BY <2>1, <2>3 DEF WorkOf
    <3>2. settled[k] = 1..taken[k]
      BY <2>2, <3>1
    <3> QED
      BY <3>1, <3>2
  <2>4. ASSUME stage[k] = "gaveup" PROVE settled[k] = {}
    <3>1. taken[k] = 0
      BY <2>1, <2>4 DEF WorkOf
    <3> QED
      BY <2>2, <3>1
  <2>5. halted[k] /\ stage[k] = "working" => Cardinality(busy[k]) < held[k]
    BY <2>1 DEF WorkOf
  <2> QED
    BY <2>2, <2>3, <2>4, <2>5
<1> QED
  BY <1>1, ParallelAlways, PTL

\* No session is given back twice, and of those the calls held at most one per call
\* that gave up is lost (BaseSessionPool.ts:585-596, 622-627, 703-711, 737-741).
THEOREM SessionsGivenBack == ParallelSpec => []SessionsBack
<1>1. ParallelInv => SessionsBack
  <2> SUFFICES ASSUME ParallelInv, \A k \in Calls : Over(k)
               PROVE  free <= Permits /\ free + Cardinality(Quitters) >= Permits
    BY DEF SessionsBack, Quitters
  <2>1. Slots(held) = {}
    <3> SUFFICES ASSUME NEW x \in Slots(held) PROVE FALSE
      OBVIOUS
    <3>1. x[1] \in Calls /\ x[2] \in Nat \ {0} /\ x[2] <= held[x[1]]
      BY DEF Slots
    <3>2. held[x[1]] = 0
      BY <3>1 DEF ParallelInv, SessionCount
    <3> QED
      BY <3>1, <3>2
  <2>2. Cardinality(Slots(held)) = 0
    <3>1. Cardinality({}) = 0
      BY FS_EmptySet
    <3> QED
      BY <2>1, <3>1
  <2>3. Cardinality(DeadIn(entries)) \in Nat /\ IsFiniteSet(Quitters)
    BY Positions, CallsAssumption, FS_Subset DEF ParallelInv, CallTypes, Quitters
  <2>4. Cardinality(Quitters) \in Nat /\ free \in Nat /\ Permits \in Nat
    BY <2>3, FS_CardinalityType, PermitsAssumption DEF ParallelInv, CallTypes
  <2>5. free + 0 <= Permits /\ free + 0 + Cardinality(Quitters) >= Permits + Cardinality(DeadIn(entries))
    BY <2>2 DEF ParallelInv, SessionCount
  <2> QED
    BY <2>3, <2>4, <2>5
<1> QED
  BY <1>1, ParallelAlways, PTL

=============================================================================

--------------------------- MODULE AllocatorProofs ---------------------------
(***************************************************************************)
(* The session pool implements SessionAllocator: every turn of getSession, *)
(* releaseSession, init and the wait timer is one step of the allocator or *)
(* none, for every number of clients and sessions and every pool size.     *)
(***************************************************************************)
EXTENDS SessionPoolProofs

-----------------------------------------------------------------------------
(* What the queue operations do to the callers that wait, to their order   *)
(* and to the dead entries                                                 *)

Entry == Clients \cup {Expired}

WaitingIn(q) == {c \in Clients : \E i \in 1..Len(q) : q[i] = c}
EarlierIn(q) ==
    {p \in WaitingIn(q) \X WaitingIn(q) :
        \E i, j \in DOMAIN q : i < j /\ p = <<q[i], q[j]>>}
DeadIn(q) == {i \in DOMAIN q : q[i] = Expired}

\* Nobody stands in the queue twice.
Once(q) == \A i, j \in DOMAIN q : q[i] # Expired /\ q[i] = q[j] => i = j

\* The pairs without client c.
Without(c, pairs) == {p \in pairs : p[1] # c /\ p[2] # c}

\* A pair is in order when it has two clients and their positions are.
LEMMA EarlierPairs ==
    ASSUME NEW q \in Seq(Entry)
    PROVE  /\ EarlierIn(q) \subseteq Clients \X Clients
           /\ \A a, b : <<a, b>> \in EarlierIn(q) <=>
                  /\ a \in Clients /\ b \in Clients
                  /\ \E i, j \in 1..Len(q) : i < j /\ q[i] = a /\ q[j] = b
<1>1. DOMAIN q = 1..Len(q)
  BY LenProperties
<1>2. EarlierIn(q) \subseteq Clients \X Clients
  BY DEF EarlierIn, WaitingIn
<1>3. ASSUME NEW a, NEW b, <<a, b>> \in EarlierIn(q)
      PROVE  /\ a \in Clients /\ b \in Clients
             /\ \E i, j \in 1..Len(q) : i < j /\ q[i] = a /\ q[j] = b
  BY <1>1, <1>3 DEF EarlierIn, WaitingIn
<1>4. ASSUME NEW a \in Clients, NEW b \in Clients,
             NEW i \in 1..Len(q), NEW j \in 1..Len(q), i < j, q[i] = a, q[j] = b
      PROVE  <<a, b>> \in EarlierIn(q)
  <2>1. a \in WaitingIn(q) /\ b \in WaitingIn(q)
    BY <1>4 DEF WaitingIn
  <2>2. <<a, b>> = <<q[i], q[j]>>
    BY <1>4
  <2> QED
    BY <1>1, <1>4, <2>1, <2>2 DEF EarlierIn
<1> QED
  BY <1>2, <1>3, <1>4

LEMMA PairIn ==
    ASSUME NEW q \in Seq(Entry), NEW n, Len(q) = n, NEW a \in Clients, NEW b \in Clients
    PROVE  <<a, b>> \in EarlierIn(q) <=> \E i, j \in 1..n : i < j /\ q[i] = a /\ q[j] = b
  BY EarlierPairs

\* Sets of pairs are equal when they have the same pairs.
PairsAgree(P, Q) == \A a, b \in Clients : <<a, b>> \in P <=> <<a, b>> \in Q

LEMMA SamePairs ==
    ASSUME NEW P \in SUBSET (Clients \X Clients), NEW Q \in SUBSET (Clients \X Clients),
           PairsAgree(P, Q)
    PROVE  P = Q
  BY DEF PairsAgree

\* Dead entries can be counted.
LEMMA DeadFinite ==
    ASSUME NEW q \in Seq(Entry)
    PROVE  IsFiniteSet(DeadIn(q)) /\ Cardinality(DeadIn(q)) \in Nat
<1>1. Len(q) \in Nat /\ DOMAIN q = 1..Len(q)
  BY LenProperties
<1>2. IsFiniteSet(1..Len(q)) /\ DeadIn(q) \in SUBSET (1..Len(q))
  <2>1. 1 \in Int /\ Len(q) \in Int
    BY <1>1
  <2> QED
    BY <1>1, <2>1, FS_Interval DEF DeadIn
<1> QED
  BY <1>2, FS_Subset, FS_CardinalityType

\* An empty queue.
LEMMA EmptyQueue ==
    /\ WaitingIn(<<>>) = {}
    /\ EarlierIn(<<>>) = {}
    /\ Cardinality(DeadIn(<<>>)) = 0
<1>1. <<>> \in Seq(Entry) /\ Len(<<>>) = 0
  BY EmptySeq
<1>2. 1..Len(<<>>) = {}
  BY <1>1
<1>3. WaitingIn(<<>>) = {}
  BY <1>2 DEF WaitingIn
<1>4. EarlierIn(<<>>) = {}
  BY <1>3 DEF EarlierIn
<1>5. DeadIn(<<>>) = {}
  BY <1>1, <1>2, LenProperties DEF DeadIn
<1> QED
  BY <1>3, <1>4, <1>5, FS_EmptySet

\* A caller joins: it comes after everybody else (BaseSessionPool.ts:274).
LEMMA JoinQueue ==
    ASSUME NEW q \in Seq(Entry), NEW c \in Clients, Expired \notin Clients
    PROVE  /\ WaitingIn(Append(q, c)) = WaitingIn(q) \cup {c}
           /\ EarlierIn(Append(q, c)) = EarlierIn(q) \cup (WaitingIn(q) \X {c})
           /\ DeadIn(Append(q, c)) = DeadIn(q)
<1> DEFINE r == Append(q, c)
           n == Len(q)
<1>0. c \in Entry
  BY DEF Entry
<1>1. /\ n \in Nat /\ DOMAIN q = 1..n
      /\ r \in Seq(Entry) /\ Len(r) = n + 1 /\ DOMAIN r = 1..(n + 1)
      /\ \A i \in 1..n : r[i] = q[i]
      /\ r[n + 1] = c
  BY <1>0, LenProperties, AppendProperties
<1> HIDE DEF r, n
<1>2. WaitingIn(r) = WaitingIn(q) \cup {c}
  <2>1. n = Len(q)
    BY DEF n
  <2>2. ASSUME NEW d \in WaitingIn(r) PROVE d \in WaitingIn(q) \cup {c}
    BY <1>1, <2>1, <2>2 DEF WaitingIn
  <2>3. ASSUME NEW d \in WaitingIn(q) PROVE d \in WaitingIn(r)
    BY <1>1, <2>1, <2>3 DEF WaitingIn
  <2>4. c \in WaitingIn(r)
    BY <1>1 DEF WaitingIn
  <2> QED
    BY <2>2, <2>3, <2>4
<1>3. EarlierIn(r) = EarlierIn(q) \cup (WaitingIn(q) \X {c})
  <2> DEFINE P == EarlierIn(r)
             Q == EarlierIn(q) \cup (WaitingIn(q) \X {c})
  <2>1. P \subseteq Clients \X Clients /\ Q \subseteq Clients \X Clients
    BY <1>1, EarlierPairs DEF WaitingIn
  <2>2. ASSUME NEW a \in Clients, NEW b \in Clients, <<a, b>> \in P PROVE <<a, b>> \in Q
    <3>1. PICK i \in 1..(n + 1), j \in 1..(n + 1) : i < j /\ r[i] = a /\ r[j] = b
      BY <1>1, <2>2, EarlierPairs
    <3>2. i \in 1..n /\ q[i] = a
      BY <1>1, <3>1
    <3>3. CASE j = n + 1
      <4>1. a \in WaitingIn(q) /\ b = c
        BY <1>1, <3>1, <3>2, <3>3 DEF WaitingIn, n
      <4> QED
        BY <4>1
    <3>4. CASE j # n + 1
      <4>1. j \in 1..n /\ q[j] = b
        BY <1>1, <3>1, <3>4
      <4>2. <<a, b>> \in EarlierIn(q)
        BY <3>1, <3>2, <4>1, EarlierPairs DEF n
      <4> QED
        BY <4>2
    <3> QED
      BY <3>3, <3>4
  <2>3. ASSUME NEW a \in Clients, NEW b \in Clients, <<a, b>> \in Q PROVE <<a, b>> \in P
    <3>1. CASE <<a, b>> \in EarlierIn(q)
      <4>1. PICK i \in 1..n, j \in 1..n : i < j /\ q[i] = a /\ q[j] = b
        BY <3>1, EarlierPairs DEF n
      <4>2. i \in 1..(n + 1) /\ j \in 1..(n + 1) /\ r[i] = a /\ r[j] = b
        BY <1>1, <4>1
      <4> QED
        BY <1>1, <4>1, <4>2, EarlierPairs
    <3>2. CASE <<a, b>> \in WaitingIn(q) \X {c}
      <4>1. PICK i \in 1..n : q[i] = a
        BY <3>2 DEF WaitingIn, n
      <4>2. /\ i \in 1..(n + 1) /\ n + 1 \in 1..(n + 1) /\ i < n + 1
            /\ r[i] = a /\ r[n + 1] = b
        BY <1>1, <3>2, <4>1
      <4> QED
        BY <1>1, <4>2, EarlierPairs
    <3> QED
      BY <2>3, <3>1, <3>2
  <2> HIDE DEF P, Q
  <2>4. P = Q
    <3>1. PairsAgree(P, Q)
      BY <2>2, <2>3 DEF PairsAgree
    <3> QED
      BY <2>1, <3>1, SamePairs
  <2> QED
    BY <2>4 DEF P, Q
<1>4. DeadIn(r) = DeadIn(q)
  <2>1. c # Expired
    OBVIOUS
  <2>2. \A i \in 1..(n + 1) : r[i] = Expired <=> i \in 1..n /\ q[i] = Expired
    BY <1>1, <2>1
  <2> QED
    BY <1>1, <2>2 DEF DeadIn
<1> QED
  BY <1>2, <1>3, <1>4 DEF r

\* A caller gives up: its entry dies in its place (BaseSessionPool.ts:279-286).
Dying(q, c) == [i \in DOMAIN q |-> IF q[i] = c THEN Expired ELSE q[i]]

LEMMA LeaveQueue ==
    ASSUME NEW q \in Seq(Entry), NEW c \in Clients, Expired \notin Clients, Once(q),
           NEW r \in Seq(Entry),
           r = Dying(q, c)
    PROVE  /\ WaitingIn(r) = WaitingIn(q) \ {c}
           /\ EarlierIn(r) = Without(c, EarlierIn(q))
           /\ c \in WaitingIn(q) => Cardinality(DeadIn(r)) = Cardinality(DeadIn(q)) + 1
           /\ c \notin WaitingIn(q) => r = q
<1> DEFINE n == Len(q)
<1>1. n \in Nat /\ DOMAIN q = 1..n /\ c # Expired
  BY LenProperties
<1>2. /\ DOMAIN r = 1..n /\ Len(r) = n
      /\ \A i \in 1..n : r[i] = IF q[i] = c THEN Expired ELSE q[i]
  BY <1>1, LenProperties DEF Dying
<1>3. WaitingIn(r) = WaitingIn(q) \ {c}
  <2>1. \A d \in Clients : \A i \in 1..n : r[i] = d <=> q[i] = d /\ d # c
    BY <1>1, <1>2
  <2> QED
    BY <1>1, <1>2, <2>1 DEF WaitingIn
<1>4. EarlierIn(r) = Without(c, EarlierIn(q))
  <2> DEFINE P == EarlierIn(r)
             Q == Without(c, EarlierIn(q))
  <2>1. P \subseteq Clients \X Clients /\ Q \subseteq Clients \X Clients
    BY EarlierPairs DEF Without
  <2>2. ASSUME NEW a \in Clients, NEW b \in Clients PROVE <<a, b>> \in P <=> <<a, b>> \in Q
    <3>1. <<a, b>> \in P <=> \E i, j \in 1..n : i < j /\ r[i] = a /\ r[j] = b
      <4>1. r \in Seq(Entry) /\ Len(r) = n
        BY <1>2
      <4> HIDE DEF n
      <4> QED
        BY <4>1, PairIn
    <3>2. <<a, b>> \in EarlierIn(q) <=> \E i, j \in 1..n : i < j /\ q[i] = a /\ q[j] = b
      BY EarlierPairs
    <3>3. <<a, b>> \in Q <=> <<a, b>> \in EarlierIn(q) /\ a # c /\ b # c
      BY DEF Without
    <3>4. \A i, j \in 1..n :
              r[i] = a /\ r[j] = b <=> q[i] = a /\ q[j] = b /\ a # c /\ b # c
      BY <1>1, <1>2
    <3> HIDE DEF P, Q, n
    <3> QED
      BY <3>1, <3>2, <3>3, <3>4
  <2>3. PairsAgree(P, Q)
    BY <2>2 DEF PairsAgree
  <2> HIDE DEF P, Q
  <2>4. P = Q
    BY <2>1, <2>3, SamePairs
  <2> QED
    BY <2>4 DEF P, Q
<1>5. ASSUME c \in WaitingIn(q)
      PROVE  Cardinality(DeadIn(r)) = Cardinality(DeadIn(q)) + 1
  <2>1. PICK k \in 1..n : q[k] = c
    BY <1>5 DEF WaitingIn
  <2>2. \A i \in 1..n : q[i] = c => i = k
    BY <1>1, <2>1 DEF Once
  <2>3. k \notin DeadIn(q)
    BY <1>1, <2>1 DEF DeadIn
  <2>4. DeadIn(r) = DeadIn(q) \cup {k}
    BY <1>1, <1>2, <2>1, <2>2 DEF DeadIn
  <2> QED
    BY <2>3, <2>4, DeadFinite, FS_AddElement
<1>6. ASSUME c \notin WaitingIn(q) PROVE r = q
  <2>1. \A i \in 1..n : q[i] # c
    BY <1>6 DEF WaitingIn
  <2>2. \A i \in 1..n : r[i] = q[i]
    BY <1>2, <2>1
  <2> QED
    BY <1>1, <1>2, <2>2, SeqEqual
<1> QED
  BY <1>3, <1>4, <1>5, <1>6

\* Sets in bijection have the same size.
LEMMA SameSize ==
    ASSUME NEW S, NEW T, IsFiniteSet(S), NEW g \in [S -> T],
           \A x, y \in S : g[x] = g[y] => x = y, \A t \in T : \E x \in S : g[x] = t
    PROVE  IsFiniteSet(T) /\ Cardinality(T) = Cardinality(S)
<1>1. g \in Bijection(S, T)
  BY DEF Bijection, Injection, Surjection, IsInjective
<1> QED
  BY <1>1, FS_Bijection DEF ExistsBijection

\* The front entry is taken out (BaseSessionPool.ts:318).
LEMMA ServeQueue ==
    ASSUME NEW q \in Seq(Entry), q # <<>>, Expired \notin Clients, Once(q)
    PROVE  LET d == Head(q)
           IN  /\ d \in Entry
               /\ d # Expired =>
                     /\ d \in WaitingIn(q)
                     /\ \A e \in WaitingIn(q) : <<e, d>> \notin EarlierIn(q)
                     /\ WaitingIn(Tail(q)) = WaitingIn(q) \ {d}
                     /\ EarlierIn(Tail(q)) = Without(d, EarlierIn(q))
                     /\ Cardinality(DeadIn(Tail(q))) = Cardinality(DeadIn(q))
               /\ d = Expired =>
                     /\ WaitingIn(Tail(q)) = WaitingIn(q)
                     /\ EarlierIn(Tail(q)) = EarlierIn(q)
                     /\ Cardinality(DeadIn(q)) > 0
                     /\ Cardinality(DeadIn(Tail(q))) = Cardinality(DeadIn(q)) - 1
<1> DEFINE d == Head(q)
           r == Tail(q)
           n == Len(q)
<1>1. /\ n \in Nat /\ n >= 1 /\ DOMAIN q = 1..n /\ 1 \in 1..n /\ d = q[1] /\ d \in Entry
      /\ r \in Seq(Entry) /\ Len(r) = n - 1 /\ DOMAIN r = 1..(n - 1)
      /\ \A i \in 1..(n - 1) : r[i] = q[i + 1] /\ i + 1 \in 1..n
  <2>1. /\ n \in Nat /\ DOMAIN q = 1..n /\ d = q[1] /\ d \in Entry
        /\ r \in Seq(Entry) /\ Len(r) = n - 1
        /\ \A i \in 1..Len(r) : r[i] = q[i + 1]
    BY LenProperties, HeadTailProperties
  <2>2. n # 0
    BY EmptySeq
  <2>3. DOMAIN r = 1..(n - 1)
    BY <2>1, LenProperties
  <2> HIDE DEF r, d, n
  <2> QED
    BY <2>1, <2>2, <2>3
<1>n. n = Len(q)
  OBVIOUS
<1> HIDE DEF d, r, n
<1>2. \A j \in 2..n : j - 1 \in 1..(n - 1) /\ r[j - 1] = q[j]
  BY <1>1
<1>3. WaitingIn(r) = {c \in WaitingIn(q) : \E j \in 2..n : q[j] = c}
  <2>1. ASSUME NEW c \in Clients
        PROVE  (\E i \in 1..(n - 1) : r[i] = c) <=> (\E j \in 2..n : q[j] = c)
    <3>1. ASSUME NEW i \in 1..(n - 1), r[i] = c PROVE i + 1 \in 2..n /\ q[i + 1] = c
      BY <1>1, <3>1
    <3> QED
      BY <1>2, <3>1
  <2>2. \A j \in 2..n : j \in 1..n
    BY <1>1
  <2> QED
    BY <1>1, <1>n, <2>1, <2>2 DEF WaitingIn
<1>4. ASSUME NEW a \in Clients, NEW b \in Clients
      PROVE  <<a, b>> \in EarlierIn(r) <=>
                 \E i, j \in 2..n : i < j /\ q[i] = a /\ q[j] = b
  <2>1. <<a, b>> \in EarlierIn(r) <=> \E i, j \in 1..(n - 1) : i < j /\ r[i] = a /\ r[j] = b
    <3> DEFINE m == n - 1
    <3>1. r \in Seq(Entry) /\ Len(r) = m
      BY <1>1
    <3> HIDE DEF m
    <3>2. <<a, b>> \in EarlierIn(r) <=> \E i, j \in 1..m : i < j /\ r[i] = a /\ r[j] = b
      BY <3>1, PairIn
    <3> QED
      BY <3>2 DEF m
  <2>2. ASSUME NEW i \in 1..(n - 1), NEW j \in 1..(n - 1), i < j, r[i] = a, r[j] = b
        PROVE  \E k, l \in 2..n : k < l /\ q[k] = a /\ q[l] = b
    <3>1. i + 1 \in 2..n /\ j + 1 \in 2..n /\ i + 1 < j + 1 /\ q[i + 1] = a /\ q[j + 1] = b
      BY <1>1, <2>2
    <3> QED
      BY <3>1
  <2>3. ASSUME NEW i \in 2..n, NEW j \in 2..n, i < j, q[i] = a, q[j] = b
        PROVE  \E k, l \in 1..(n - 1) : k < l /\ r[k] = a /\ r[l] = b
    <3>1. i - 1 \in 1..(n - 1) /\ j - 1 \in 1..(n - 1) /\ i - 1 < j - 1
      BY <1>1, <2>3
    <3>2. r[i - 1] = a /\ r[j - 1] = b
      BY <1>2, <2>3
    <3> QED
      BY <3>1, <3>2
  <2> QED
    BY <2>1, <2>2, <2>3
<1>5. ASSUME NEW a \in Clients, NEW b \in Clients
      PROVE  <<a, b>> \in EarlierIn(q) <=>
                 \E i, j \in 1..n : i < j /\ q[i] = a /\ q[j] = b
  BY <1>n, EarlierPairs
<1>6. Cardinality(DeadIn(r)) = Cardinality(DeadIn(q) \ {1})
  <2> DEFINE g == [i \in DeadIn(r) |-> i + 1]
             T == DeadIn(q) \ {1}
  <2>1. IsFiniteSet(DeadIn(r))
    BY <1>1, DeadFinite
  <2>2. ASSUME NEW i \in DeadIn(r) PROVE i + 1 \in T /\ i \in Int
    BY <1>1, <2>2 DEF DeadIn
  <2>3. g \in [DeadIn(r) -> T]
    BY <2>2
  <2>4. \A i, j \in DeadIn(r) : g[i] = g[j] => i = j
    BY <2>2
  <2>5. ASSUME NEW j \in T PROVE \E i \in DeadIn(r) : g[i] = j
    <3>1. j \in 2..n /\ q[j] = Expired
      BY <1>1, <2>5 DEF DeadIn
    <3>2. j - 1 \in DeadIn(r) /\ (j - 1) + 1 = j
      BY <1>1, <1>2, <3>1 DEF DeadIn
    <3> QED
      BY <3>2
  <2> HIDE DEF g, T
  <2>6. Cardinality(T) = Cardinality(DeadIn(r))
    BY <2>1, <2>3, <2>4, <2>5, SameSize
  <2> QED
    BY <2>6 DEF T
<1>7. ASSUME d # Expired
      PROVE  /\ d \in WaitingIn(q)
             /\ \A e \in WaitingIn(q) : <<e, d>> \notin EarlierIn(q)
             /\ WaitingIn(r) = WaitingIn(q) \ {d}
             /\ EarlierIn(r) = Without(d, EarlierIn(q))
             /\ Cardinality(DeadIn(r)) = Cardinality(DeadIn(q))
  <2>1. d \in Clients
    BY <1>1, <1>7 DEF Entry
  <2>2. \A i \in 1..n : q[i] = d => i = 1
    BY <1>1, <1>7 DEF Once
  <2>3. d \in WaitingIn(q)
    BY <1>1, <1>n, <2>1 DEF WaitingIn
  <2>4. ASSUME NEW e \in WaitingIn(q), <<e, d>> \in EarlierIn(q) PROVE FALSE
    <3>1. e \in Clients
      BY DEF WaitingIn
    <3>2. PICK i \in 1..n, j \in 1..n : i < j /\ q[j] = d
      BY <1>5, <2>1, <2>4, <3>1
    <3> QED
      BY <2>2, <3>2
  <2>5. WaitingIn(r) = WaitingIn(q) \ {d}
    <3>1. ASSUME NEW c \in WaitingIn(q) PROVE (\E j \in 2..n : q[j] = c) <=> c # d
      <4>1. PICK k \in 1..n : q[k] = c
        BY <1>n DEF WaitingIn
      <4>2. ASSUME c # d PROVE k \in 2..n
        BY <1>1, <4>1, <4>2
      <4>3. ASSUME NEW j \in 2..n, q[j] = d PROVE FALSE
        <5>1. j \in 1..n /\ j # 1
          BY <1>1
        <5> QED
          BY <2>2, <4>3, <5>1
      <4> QED
        BY <4>1, <4>2, <4>3
    <3> QED
      BY <1>3, <3>1
  <2>6. EarlierIn(r) = Without(d, EarlierIn(q))
    <3> DEFINE P == EarlierIn(r)
               Q == Without(d, EarlierIn(q))
    <3>1. P \subseteq Clients \X Clients /\ Q \subseteq Clients \X Clients
      BY <1>1, EarlierPairs DEF Without
    <3>2. ASSUME NEW a \in Clients, NEW b \in Clients PROVE <<a, b>> \in P <=> <<a, b>> \in Q
      <4>1. <<a, b>> \in Q <=> <<a, b>> \in EarlierIn(q) /\ a # d /\ b # d
        BY DEF Without
      <4>2. ASSUME NEW i \in 1..n, NEW j \in 1..n, i < j, q[i] = a, q[j] = b, a # d
            PROVE  i \in 2..n /\ j \in 2..n
        BY <1>1, <4>2
      <4>3. ASSUME NEW i \in 2..n PROVE i \in 1..n /\ q[i] # d
        <5>1. i \in 1..n /\ i # 1
          BY <1>1
        <5> QED
          BY <2>2, <5>1
      <4> HIDE DEF P, Q
      <4>4. P = EarlierIn(r)
        BY DEF P
      <4>5. <<a, b>> \in Q => <<a, b>> \in P
        BY <1>4, <1>5, <4>1, <4>2, <4>4
      <4>6. <<a, b>> \in P => <<a, b>> \in Q
        BY <1>4, <1>5, <4>1, <4>3, <4>4
      <4> QED
        BY <4>5, <4>6
    <3>3. PairsAgree(P, Q)
      BY <3>2 DEF PairsAgree
    <3> HIDE DEF P, Q
    <3>4. P = Q
      BY <3>1, <3>3, SamePairs
    <3> QED
      BY <3>4 DEF P, Q
  <2>7. DeadIn(q) \ {1} = DeadIn(q)
    BY <1>1, <1>7 DEF DeadIn
  <2> QED
    BY <1>6, <2>3, <2>4, <2>5, <2>6, <2>7
<1>8. ASSUME d = Expired
      PROVE  /\ WaitingIn(r) = WaitingIn(q)
             /\ EarlierIn(r) = EarlierIn(q)
             /\ Cardinality(DeadIn(q)) > 0
             /\ Cardinality(DeadIn(r)) = Cardinality(DeadIn(q)) - 1
  <2>1. \A i \in 1..n : q[i] \in Clients => i \in 2..n
    <3>1. q[1] \notin Clients
      BY <1>1, <1>8
    <3>2. \A i \in 1..n : i = 1 \/ i \in 2..n
      BY <1>1
    <3> QED
      BY <3>1, <3>2
  <2>2. \A i \in 2..n : i \in 1..n
    BY <1>1
  <2>3. WaitingIn(r) = WaitingIn(q)
    <3>1. ASSUME NEW c \in WaitingIn(q) PROVE \E j \in 2..n : q[j] = c
      <4>1. c \in Clients /\ \E j \in 1..n : q[j] = c
        BY <1>n DEF WaitingIn
      <4> QED
        BY <2>1, <4>1
    <3> QED
      BY <1>3, <3>1
  <2>4. EarlierIn(r) = EarlierIn(q)
    <3>1. EarlierIn(r) \subseteq Clients \X Clients /\ EarlierIn(q) \subseteq Clients \X Clients
      BY <1>1, EarlierPairs
    <3>2. ASSUME NEW a \in Clients, NEW b \in Clients
          PROVE  <<a, b>> \in EarlierIn(r) <=> <<a, b>> \in EarlierIn(q)
      BY <1>4, <1>5, <2>1, <2>2
    <3>3. PairsAgree(EarlierIn(r), EarlierIn(q))
      BY <3>2 DEF PairsAgree
    <3> QED
      BY <3>1, <3>3, SamePairs
  <2>5. 1 \in DeadIn(q)
    BY <1>1, <1>8 DEF DeadIn
  <2>6. Cardinality(DeadIn(q) \ {1}) = Cardinality(DeadIn(q)) - 1 /\ Cardinality(DeadIn(q)) # 0
    BY <2>5, DeadFinite, FS_RemoveElement, FS_EmptySet
  <2>7. Cardinality(DeadIn(q)) \in Nat
    BY DeadFinite
  <2> QED
    BY <1>6, <2>3, <2>4, <2>6, <2>7
<1> QED
  BY <1>1, <1>7, <1>8 DEF d, r

-----------------------------------------------------------------------------
(* The steps of the pool *)

\* Callers, their order and the dead are read off the queue.
LEMMA QueueView ==
    /\ Waiting = WaitingIn(waitQueue) /\ Earlier = EarlierIn(waitQueue)
    /\ Dead = DeadIn(waitQueue)
    /\ Waiting' = WaitingIn(waitQueue') /\ Earlier' = EarlierIn(waitQueue')
    /\ Dead' = DeadIn(waitQueue')
<1>1. Waiting = WaitingIn(waitQueue) /\ Waiting' = WaitingIn(waitQueue')
  BY DEF Waiting, WaitingIn, Contains
<1>2. Earlier = EarlierIn(waitQueue) /\ Earlier' = EarlierIn(waitQueue')
  BY <1>1 DEF Earlier, EarlierIn
<1> QED
  BY <1>1, <1>2 DEF Dead, DeadIn

\* Whoever is in the queue waits, once.
LEMMA QueueWaits ==
    ASSUME TypeOK, WaitersWait
    PROVE  /\ waitQueue \in Seq(Entry) /\ Expired \notin Clients
           /\ Once(waitQueue)
           /\ \A c \in WaitingIn(waitQueue) : c \in Clients /\ pc[c] = "waiting"
<1>1. /\ waitQueue \in Seq(Entry) /\ DOMAIN waitQueue = 1..Len(waitQueue)
      /\ Expired \notin Clients
  BY MarkersAssumption, LenProperties DEF TypeOK, Entry
<1>2. Once(waitQueue)
  BY DEF WaitersWait, Once
<1>3. \A c \in WaitingIn(waitQueue) : c \in Clients /\ pc[c] = "waiting"
  BY <1>1 DEF WaitersWait, WaitingIn
<1> QED
  BY <1>1, <1>2, <1>3

\* A step that changes none of them is a stutter of the allocator.
LEMMA SamePermits ==
    ASSUME Undisturbed, Undisturbed', waitQueue' = waitQueue,
           Len(idle') = Len(idle), Using' = Using, leaked' = leaked
    PROVE  UNCHANGED Allocator!allocatorVars
<1>1. Waiting' = Waiting /\ Earlier' = Earlier /\ Dead' = Dead
  BY QueueView
<1> QED
  BY <1>1 DEF Allocator!allocatorVars

\* The refinement of one step, from an undisturbed pool to an undisturbed pool.
LEMMA UndisturbedStep ==
    ASSUME Undisturbed, Undisturbed', QuietInv, QuietInv', [Next]_vars
    PROVE  Allocator!AllocatorNext \/ UNCHANGED Allocator!allocatorVars
<1> DEFINE Steps == Allocator!AllocatorNext \/ UNCHANGED Allocator!allocatorVars
<1>t. /\ TypeOK /\ TypeOK' /\ WaitersWait /\ SessionsUp /\ NothingWasted
      /\ pc \in [Clients -> PcState] /\ idle \in Seq(Sessions) /\ Len(idle) \in Nat
      /\ leaked \in Nat
  BY LenProperties DEF QuietInv, UpInv, TypeOK
<1>q. /\ waitQueue \in Seq(Entry) /\ waitQueue' \in Seq(Entry) /\ Expired \notin Clients
      /\ Once(waitQueue)
      /\ \A c \in WaitingIn(waitQueue) : c \in Clients /\ pc[c] = "waiting"
  BY <1>t, QueueWaits DEF TypeOK, Entry
<1>1. CASE InitCreated
  <2>1. /\ Len(idle') = Len(idle) + 1
        /\ waitQueue' = waitQueue /\ leaked' = leaked /\ pc' = pc
    BY <1>1, <1>t, AppendProperties DEF InitCreated
  <2>2. /\ Using' = Using /\ Waiting' = Waiting /\ Earlier' = Earlier /\ Dead' = Dead
    BY <2>1, QueueView DEF Using
  <2>3. Allocator!Grow
    BY <2>1, <2>2 DEF Allocator!Grow
  <2> QED
    BY <2>3 DEF Allocator!AllocatorNext
<1>2. CASE InitFails
  <2>1. UNCHANGED <<idle, waitQueue, leaked>> /\ Using' = Using
    BY <1>2 DEF InitFails, poolVars, Using
  <2> QED
    BY <2>1, SamePermits
<1>3. ASSUME NEW c \in Clients, Reuse(c) PROVE Steps
  <2>1. /\ idle # <<>> /\ idle' = Tail(idle) /\ pc[c] = "out"
        /\ pc' = [pc EXCEPT ![c] = "using"] /\ UNCHANGED <<waitQueue, leaked>>
    BY <1>3 DEF Reuse, MayCall, IdleRest
  <2>2. Len(idle') = Len(idle) - 1 /\ Len(idle) > 0
    BY <2>1, <1>t, HeadTailProperties, EmptySeq
  <2>3. waitQueue = <<>>
    BY <2>1, <1>t DEF NothingWasted
  <2>4. c \notin Using /\ Using' = Using \cup {c}
    BY <2>1, <1>t DEF Using
  <2>5. /\ Waiting = {} /\ Waiting' = Waiting /\ Earlier' = Earlier /\ Dead' = Dead
    BY <2>1, <2>3, QueueView, EmptyQueue
  <2>6. Allocator!Take(c)
    BY <2>1, <2>2, <2>4, <2>5 DEF Allocator!Take, Allocator!Outside
  <2> QED
    BY <2>6 DEF Allocator!AllocatorNext
<1>4. ASSUME NEW c \in Clients, CreateNew(c) PROVE Steps
  <2>1. /\ pc[c] = "out" /\ pc' = [pc EXCEPT ![c] = "creating"]
        /\ UNCHANGED <<idle, waitQueue, leaked>>
    BY <1>4, <1>t, QuietHead DEF CreateNew, MayCall
  <2>2. Using' = Using
    BY <2>1, <1>t DEF Using
  <2> QED
    BY <2>1, <2>2, SamePermits
<1>5. ASSUME NEW c \in Clients, Enqueue(c) PROVE Steps
  <2>1. /\ pc[c] = "out" /\ pc' = [pc EXCEPT ![c] = "waiting"]
        /\ idle = <<>> /\ waitQueue' = Append(waitQueue, c)
        /\ UNCHANGED <<idle, leaked>>
    BY <1>5, <1>t, QuietHead DEF Enqueue, MayCall
  <2>2. Using' = Using /\ c \notin Using
    BY <2>1, <1>t DEF Using
  <2>3. c \notin Waiting
    BY <2>1, <1>q, QueueView
  <2>4. /\ Waiting' = Waiting \cup {c}
        /\ Earlier' = Earlier \cup (Waiting \X {c})
        /\ Dead' = Dead
    BY <2>1, <1>q, QueueView, JoinQueue
  <2>5. Len(idle) = 0
    BY <2>1, EmptySeq
  <2>6. Allocator!Await(c)
    BY <2>1, <2>2, <2>3, <2>4, <2>5 DEF Allocator!Await, Allocator!Outside
  <2> QED
    BY <2>6 DEF Allocator!AllocatorNext
<1>6. ASSUME NEW c \in Clients, CreateDone(c) PROVE Steps
  <2>1. /\ pc[c] = "creating" /\ pc' = [pc EXCEPT ![c] = "using"]
        /\ Len(idle') = Len(idle) /\ UNCHANGED <<waitQueue, leaked>>
    BY <1>6, <1>t, AppendShift DEF CreateDone, AfterCreate
  <2>2. c \notin Using /\ Using' = Using \cup {c}
    BY <2>1, <1>t DEF Using
  <2>3. c \notin Waiting /\ Waiting' = Waiting /\ Earlier' = Earlier /\ Dead' = Dead
    BY <2>1, <1>q, QueueView
  <2>4. Allocator!Admit(c)
    BY <2>1, <2>2, <2>3 DEF Allocator!Admit, Allocator!Outside
  <2> QED
    BY <2>4 DEF Allocator!AllocatorNext
<1>7. ASSUME NEW c \in Clients, CreateFails(c) PROVE Steps
  <2>1. /\ pc[c] = "creating" /\ pc' = [pc EXCEPT ![c] = "out"]
        /\ UNCHANGED <<idle, waitQueue, leaked>>
    BY <1>7 DEF CreateFails, poolVars
  <2>2. Using' = Using
    BY <2>1, <1>t DEF Using
  <2> QED
    BY <2>1, <2>2, SamePermits
<1>8. ASSUME NEW c \in Clients, Timeout(c) PROVE Steps
  <2>1. /\ pc[c] = "waiting" /\ pc' = [pc EXCEPT ![c] = "out"]
        /\ waitQueue' = Dying(waitQueue, c) /\ UNCHANGED <<idle, leaked>>
    BY <1>8 DEF Timeout, TimerArmed, Dying
  <2>2. Using' = Using
    BY <2>1, <1>t DEF Using
  <2>3. CASE c \in Waiting
    <3>1. /\ Waiting' = Waiting \ {c}
          /\ Earlier' = {p \in Earlier : p[1] # c /\ p[2] # c}
          /\ Cardinality(Dead') = Cardinality(Dead) + 1
      BY <2>1, <2>3, <1>q, QueueView, LeaveQueue DEF Without
    <3>2. Allocator!GiveUp(c)
      BY <2>1, <2>2, <2>3, <3>1 DEF Allocator!GiveUp, Allocator!Leaves
    <3> QED
      BY <3>2 DEF Allocator!AllocatorNext
  <2>4. CASE c \notin Waiting
    <3>1. waitQueue' = waitQueue
      BY <2>1, <2>4, <1>q, QueueView, LeaveQueue
    <3> QED
      BY <2>1, <2>2, <3>1, SamePermits
  <2> QED
    BY <2>3, <2>4
<1>9. ASSUME NEW c \in Clients, ReleaseToIdle(c) PROVE Steps
  <2>1. /\ pc[c] = "using" /\ pc' = [pc EXCEPT ![c] = "out"] /\ waitQueue = <<>>
        /\ holds[c] \in pool /\ idle' = Append(idle, holds[c])
        /\ UNCHANGED <<waitQueue, leaked>>
    BY <1>9 DEF ReleaseToIdle, NobodyWaits
  <2>2. Len(idle') = Len(idle) + 1
    BY <2>1, <1>t, AppendProperties DEF TypeOK
  <2>3. c \in Using /\ Using' = Using \ {c}
    BY <2>1, <1>t DEF Using
  <2>4. /\ Waiting = {} /\ Waiting' = Waiting /\ Earlier' = Earlier /\ Dead' = Dead
        /\ Cardinality(Dead) = 0
    BY <2>1, QueueView, EmptyQueue
  <2>5. Allocator!GiveBack(c)
    BY <2>1, <2>2, <2>3, <2>4 DEF Allocator!GiveBack
  <2> QED
    BY <2>5 DEF Allocator!AllocatorNext
<1>10. ASSUME NEW c \in Clients, ReleaseToWaiter(c) PROVE Steps
  <2> DEFINE d == Head(waitQueue)
  <2>1. /\ pc[c] = "using" /\ waitQueue # <<>> /\ waitQueue' = Tail(waitQueue)
        /\ UNCHANGED idle
    BY <1>10 DEF ReleaseToWaiter, NobodyWaits, WaitersLeft
  <2>2. CASE d # Expired
    <3>1. pc' = [pc EXCEPT ![c] = "out", ![d] = "using"] /\ leaked' = leaked
      BY <1>10, <2>2 DEF ReleaseToWaiter
    <3>2. /\ d \in Waiting
          /\ \A e \in Waiting : <<e, d>> \notin Earlier
          /\ Waiting' = Waiting \ {d}
          /\ Earlier' = {p \in Earlier : p[1] # d /\ p[2] # d}
          /\ Cardinality(Dead') = Cardinality(Dead)
      BY <2>1, <2>2, <1>q, QueueView, ServeQueue DEF Without
    <3> HIDE DEF d
    <3>3. d \in Clients /\ pc[d] = "waiting"
      BY <3>2, <1>q, QueueView
    <3>4. c \in Using /\ Using' = (Using \ {c}) \cup {d}
      BY <2>1, <3>1, <3>3, <1>t DEF Using
    <3>5. Allocator!First(d)
      BY <3>2 DEF Allocator!First
    <3>6. Allocator!Leaves(d)
      BY <3>2 DEF Allocator!Leaves
    <3>7. Allocator!HandOver(c)
      BY <2>1, <3>1, <3>2, <3>4, <3>5, <3>6 DEF Allocator!HandOver
    <3> QED
      BY <3>7 DEF Allocator!AllocatorNext
  <2>3. CASE d = Expired
    <3>1. pc' = [pc EXCEPT ![c] = "out"] /\ leaked' = leaked + 1
      BY <1>10, <2>3 DEF ReleaseToWaiter
    <3>2. /\ Waiting' = Waiting /\ Earlier' = Earlier
          /\ Cardinality(Dead) > 0
          /\ Cardinality(Dead') = Cardinality(Dead) - 1
      BY <2>1, <2>3, <1>q, QueueView, ServeQueue
    <3>3. c \in Using /\ Using' = Using \ {c}
      BY <2>1, <3>1, <1>t DEF Using
    <3>4. Allocator!Waste(c)
      BY <2>1, <3>1, <3>2, <3>3 DEF Allocator!Waste
    <3> QED
      BY <3>4 DEF Allocator!AllocatorNext
  <2> QED
    BY <2>2, <2>3
<1>11. CASE UNCHANGED vars
  <2>1. UNCHANGED <<idle, waitQueue, leaked>> /\ Using' = Using
    BY <1>11 DEF vars, poolVars, Using
  <2> QED
    BY <2>1, SamePermits
<1> QED
  BY <1>1, <1>2, <1>3, <1>4, <1>5, <1>6, <1>7, <1>8, <1>9, <1>10, <1>11, <1>t, QuietActions
  DEF Next

\* A disturbed pool promises nothing and stays disturbed.
LEMMA AllocatorStep ==
    ASSUME QuietInv, QuietInv', [Next]_vars
    PROVE  Allocator!AllocatorNext \/ UNCHANGED Allocator!allocatorVars
<1>1. CASE Undisturbed /\ Undisturbed'
  BY <1>1, UndisturbedStep
<1>2. CASE Undisturbed /\ ~ Undisturbed'
  <2>1. Allocator!Disrupt
    BY <1>2 DEF Allocator!Disrupt
  <2> QED
    BY <2>1 DEF Allocator!AllocatorNext
<1>3. CASE ~ Undisturbed
  <2>1. ~ Undisturbed'
    BY <1>3, StaysUndisturbed DEF QuietInv
  <2>2. Undisturbed' = Undisturbed
    BY <1>3, <2>1 DEF Undisturbed
  <2> QED
    BY <1>3, <2>1, <2>2 DEF Allocator!allocatorVars
<1> QED
  BY <1>1, <1>2, <1>3

\* A new pool has no permits and no callers.
LEMMA AllocatorStart == Init => Allocator!AllocatorInit
<1> SUFFICES ASSUME Init PROVE Allocator!AllocatorInit
  OBVIOUS
<1>1. Undisturbed
  BY DEF Init, Undisturbed
<1>2. Waiting = {} /\ Earlier = {} /\ Cardinality(Dead) = 0
  <2>1. waitQueue = <<>>
    BY DEF Init
  <2> QED
    BY <2>1, QueueView, EmptyQueue
<1>3. Len(idle) = 0 /\ Using = {} /\ leaked = 0
  BY EmptySeq DEF Init, Using
<1> QED
  BY <1>1, <1>2, <1>3 DEF Allocator!AllocatorInit

\* Until a connection is lost, cleaned up or closed, the pool serves its callers
\* first come, first served, with as many permits as it has made sessions, less
\* those that met a caller that had timed out (BaseSessionPool.ts:228-333).
THEOREM PoolIsAllocator == Spec => ImplementsAllocator
<1>1. Spec => []QuietInv
  BY QuietAlways
<1>2. Init => Allocator!AllocatorInit
  BY AllocatorStart
<1>3. QuietInv /\ QuietInv' /\ [Next]_vars => [Allocator!AllocatorNext]_(Allocator!allocatorVars)
  BY AllocatorStep
<1> QED
  BY <1>1, <1>2, <1>3, PTL DEF Spec, ImplementsAllocator, Allocator!AllocatorSpec
=============================================================================

------------------------------ MODULE WireProofs ------------------------------
(***************************************************************************)
(* Proofs about Wire and Codec: what one side writes, the other side reads *)
(* (theorems RoundTrips and CodecIsSound).                                 *)
(*                                                                         *)
(* Sequences of any length are written piece by piece with FlattenSeq and  *)
(* read with recursive functions, so the proofs are by induction over the  *)
(* pieces.  NatInd is induction for a set of numbers, which the library    *)
(* has only for a predicate.                                               *)
(***************************************************************************)
EXTENDS Wire, Codec, WellFoundedInduction, FiniteSetTheorems, SequenceTheorems, TLAPS

-----------------------------------------------------------------------------
(* Induction and recursion *)

\* A set that has 0 and, with a number, the next one, has all numbers.
LEMMA NatInd ==
    ASSUME NEW S, 0 \in S, \A n \in Nat : n \in S => n + 1 \in S
    PROVE  \A n \in Nat : n \in S
<1> DEFINE T == {n \in Nat : n \notin S}
           R == OpToRel(<, Nat)
<1>1. ASSUME T # {} PROVE FALSE
  <2>1. IsWellFoundedOn(R, Nat)
    BY NatLessThanWellFounded
  <2>2. \A x, y \in Nat : y < x => <<y, x>> \in R
    BY DEF OpToRel
  <2> HIDE DEF R
  <2>3. PICK x \in T : \A y \in T : ~ (<<y, x>> \in R)
    <3> T \subseteq Nat
      OBVIOUS
    <3> HIDE DEF T
    <3> QED
      BY <1>1, <2>1, WFMin
  <2>4. x \in Nat /\ x \notin S /\ x # 0
    BY <2>3
  <2>5. x - 1 \in Nat /\ x - 1 < x /\ (x - 1) + 1 = x
    BY <2>4
  <2>6. x - 1 \notin S
    BY <2>4, <2>5
  <2>7. <<x - 1, x>> \in R
    BY <2>2, <2>4, <2>5
  <2> QED
    BY <2>3, <2>5, <2>6, <2>7
<1> QED
  BY <1>1

\* f starts with b, and G leads from each of its values to the next one.
Steps(f, V, b, G, n) ==
    /\ f \in [0..n -> V]
    /\ f[0] = b
    /\ \A i \in 1..n : f[i] = G[<<i, f[i - 1]>>]

\* A function can be defined by its first value and a step from one to the next.
LEMMA Recursion ==
    ASSUME NEW V, NEW b \in V, NEW G \in [Nat \X V -> V], NEW n \in Nat
    PROVE  \E f : Steps(f, V, b, G, n)
<1> DEFINE Good(k, f) == f[0] = b /\ \A i \in 1..k : f[i] = G[<<i, f[i - 1]>>]
           S == {k \in Nat : \E f \in [0..k -> V] : Good(k, f)}
<1>1. 0 \in S
  <2>1. [i \in 0..0 |-> b] \in [0..0 -> V] /\ Good(0, [i \in 0..0 |-> b])
    OBVIOUS
  <2> QED
    BY <2>1
<1>2. ASSUME NEW k \in Nat, k \in S PROVE k + 1 \in S
  <2>1. PICK f \in [0..k -> V] : Good(k, f)
    BY <1>2
  <2> DEFINE g == [i \in 0..(k + 1) |-> IF i <= k THEN f[i] ELSE G[<<k + 1, f[k]>>]]
  <2>2. f[k] \in V /\ G[<<k + 1, f[k]>>] \in V
    OBVIOUS
  <2>3. g \in [0..(k + 1) -> V]
    BY <2>2
  <2>4. /\ \A i \in 0..k : g[i] = f[i]
        /\ g[k + 1] = G[<<k + 1, f[k]>>]
    OBVIOUS
  <2> HIDE DEF g
  <2>5. ASSUME NEW i \in 1..(k + 1) PROVE g[i] = G[<<i, g[i - 1]>>]
    <3>1. CASE i <= k
      <4>1. f[i] = G[<<i, f[i - 1]>>]
        BY <2>1, <3>1
      <4>2. i \in 0..k /\ i - 1 \in 0..k
        BY <3>1
      <4> QED
        BY <4>1, <4>2, <2>4
    <3>2. CASE i = k + 1
      BY <3>2, <2>4
    <3> QED
      BY <3>1, <3>2
  <2>6. Good(k + 1, g)
    BY <2>1, <2>4, <2>5
  <2> QED
    BY <2>3, <2>6
<1> HIDE DEF S
<1>3. n \in S
  BY <1>1, <1>2, NatInd
<1> QED
  BY <1>3 DEF S, Steps

\* Two functions with the same first value and the same step are the same.
LEMMA SameSteps ==
    ASSUME NEW n \in Nat, NEW f, NEW g,
           f[0] = g[0], \A i \in 1..n : f[i - 1] = g[i - 1] => f[i] = g[i]
    PROVE  \A i \in 0..n : f[i] = g[i]
<1> DEFINE S == {k \in Nat : k <= n => f[k] = g[k]}
<1>1. 0 \in S
  OBVIOUS
<1>2. ASSUME NEW k \in Nat, k \in S PROVE k + 1 \in S
  <2> SUFFICES ASSUME k + 1 <= n PROVE f[k + 1] = g[k + 1]
    OBVIOUS
  <2>1. k + 1 \in 1..n /\ (k + 1) - 1 = k /\ f[k] = g[k]
    BY <1>2
  <2> QED
    BY <2>1
<1> HIDE DEF S
<1>3. \A k \in Nat : k \in S
  BY <1>1, <1>2, NatInd
<1> QED
  BY <1>3 DEF S

-----------------------------------------------------------------------------
(* Sequences of pieces *)

\* FlattenSeq adds the pieces one by one.
LEMMA FlattenSteps ==
    ASSUME NEW V, NEW seqs \in Seq(Seq(V))
    PROVE  \E h \in [0..Len(seqs) -> Seq(V)] :
              /\ h[0] = <<>>
              /\ \A i \in 1..Len(seqs) : h[i] = h[i - 1] \o seqs[i]
              /\ FlattenSeq(seqs) = h[Len(seqs)]
<1> DEFINE n == Len(seqs)
           G == [p \in Nat \X Seq(V) |-> IF p[1] \in 1..n THEN p[2] \o seqs[p[1]] ELSE p[2]]
<1>1. n \in Nat /\ \A i \in 1..n : seqs[i] \in Seq(V)
  BY LenProperties, ElementOfSeq
<1>2. <<>> \in Seq(V)
  BY EmptySeq
<1>3. G \in [Nat \X Seq(V) -> Seq(V)]
  <2>1. ASSUME NEW p \in Nat \X Seq(V), p[1] \in 1..n PROVE p[2] \o seqs[p[1]] \in Seq(V)
    BY <1>1, <2>1, ConcatProperties
  <2> QED
    BY <2>1
<1> HIDE DEF n
<1>4. PICK h \in [0..n -> Seq(V)] : h[0] = <<>> /\ \A i \in 1..n : h[i] = G[<<i, h[i - 1]>>]
  <2>1. \E h : Steps(h, Seq(V), <<>>, G, n)
    <3> HIDE DEF G
    <3> QED
      BY <1>1, <1>2, <1>3, Recursion
  <2> QED
    BY <2>1 DEF Steps
<1>5. ASSUME NEW i \in 1..n PROVE h[i] = h[i - 1] \o seqs[i]
  <2>1. i \in Nat /\ h[i - 1] \in Seq(V)
    BY <1>1
  <2> QED
    BY <1>4, <2>1
<1>6. CASE n = 0
  <2>1. seqs = <<>>
    BY <1>6, EmptySeq DEF n
  <2>2. FlattenSeq(seqs) = seqs
    BY <1>6 DEF n, FlattenSeq
  <2> QED
    BY <1>4, <1>6, <2>1, <2>2 DEF n
<1>7. CASE n # 0
  <2> DEFINE Is(f) == f = [i \in 1..n |-> IF i = 1 THEN seqs[i] ELSE f[i - 1] \o seqs[i]]
             g == [i \in 1..n |-> h[i]]
             flatten == CHOOSE f : Is(f)
  <2>1. \A i \in 1..n : g[i] = IF i = 1 THEN seqs[i] ELSE g[i - 1] \o seqs[i]
    <3> TAKE i \in 1..n
    <3>1. CASE i = 1
      <4>1. h[1] = <<>> \o seqs[1]
        <5>1. 1 \in 1..n /\ 1 - 1 = 0
          BY <3>1
        <5>2. h[1] = h[0] \o seqs[1]
          BY <1>5, <5>1
        <5> QED
          BY <1>4, <5>2
      <4>2. <<>> \o seqs[1] = seqs[1]
        BY <1>1, <3>1, ConcatEmptySeq
      <4> QED
        BY <3>1, <4>1, <4>2
    <3>2. CASE i # 1
      <4>1. i - 1 \in 1..n
        BY <1>1, <3>2
      <4> QED
        BY <1>5, <3>2, <4>1
    <3> QED
      BY <3>1, <3>2
  <2>2. Is(g)
    BY <2>1
  <2>3. Is(flatten)
    <3> HIDE DEF Is, g
    <3> QED
      BY <2>2
  <2>4. \A i \in 1..n : flatten[i] = IF i = 1 THEN seqs[i] ELSE flatten[i - 1] \o seqs[i]
    <3> HIDE DEF flatten
    <3> QED
      BY <2>3
  <2>5. FlattenSeq(seqs) = flatten[n]
    BY <1>7 DEF FlattenSeq, n
  <2> HIDE DEF flatten, g, Is
  <2>6. flatten[n] = g[n]
    <3> DEFINE S == {k \in Nat : k + 1 <= n => flatten[k + 1] = g[k + 1]}
    <3>1. 0 \in S
      BY <2>1, <2>4, <1>1
    <3>2. ASSUME NEW k \in Nat, k \in S PROVE k + 1 \in S
      <4> SUFFICES ASSUME (k + 1) + 1 <= n PROVE flatten[(k + 1) + 1] = g[(k + 1) + 1]
        OBVIOUS
      <4>1. /\ (k + 1) + 1 \in 1..n
            /\ (k + 1) + 1 # 1
            /\ ((k + 1) + 1) - 1 = k + 1
            /\ flatten[k + 1] = g[k + 1]
        BY <3>2, <1>1
      <4> QED
        BY <2>1, <2>4, <4>1
    <3> HIDE DEF S
    <3>3. \A k \in Nat : k \in S
      BY <3>1, <3>2, NatInd
    <3>4. n - 1 \in Nat /\ (n - 1) + 1 = n
      BY <1>1, <1>7
    <3> QED
      BY <3>3, <3>4 DEF S
  <2>7. g[n] = h[n]
    BY <1>1, <1>7 DEF g
  <2>8. FlattenSeq(seqs) = h[n]
    BY <2>5, <2>6, <2>7
  <2> QED
    BY <1>4, <1>5, <2>8 DEF n
<1> QED
  BY <1>6, <1>7

\* u is s and then t, in Seq(V).
Joined(V, s, t, u) ==
    /\ u \in Seq(V)
    /\ Len(s) \in Nat /\ Len(t) \in Nat
    /\ Len(u) = Len(s) + Len(t)
    /\ \A j \in 1..Len(s) : u[j] = s[j]
    /\ \A k \in 1..Len(t) : u[Len(s) + k] = t[k]

\* Where the elements of s \o t are.
LEMMA Concat ==
    ASSUME NEW V, NEW s \in Seq(V), NEW t \in Seq(V)
    PROVE  Joined(V, s, t, s \o t)
<1>1. /\ s \o t \in Seq(V)
      /\ Len(s \o t) = Len(s) + Len(t)
      /\ \A i \in 1..(Len(s) + Len(t)) :
           (s \o t)[i] = IF i <= Len(s) THEN s[i] ELSE t[i - Len(s)]
  BY ConcatProperties
<1>2. Len(s) \in Nat /\ Len(t) \in Nat
  BY LenProperties
<1> DEFINE a == Len(s)
           b == Len(t)
           c == s \o t
<1>3. a \in Nat /\ b \in Nat /\ \A i \in 1..(a + b) : c[i] = IF i <= a THEN s[i] ELSE t[i - a]
  BY <1>1, <1>2
<1> HIDE DEF a, b, c
<1>4. ASSUME NEW j \in 1..a PROVE c[j] = s[j]
  BY <1>3
<1>5. ASSUME NEW k \in 1..b PROVE c[a + k] = t[k]
  <2>1. a + k \in 1..(a + b) /\ ~ (a + k <= a) /\ (a + k) - a = k
    BY <1>3
  <2> QED
    BY <1>3, <2>1
<1> QED
  BY <1>1, <1>2, <1>4, <1>5 DEF a, b, c, Joined

\* In s, the pieces are one behind the other, piece i behind the first at[i - 1] places.
Laid(s, pieces, at) ==
    /\ at \in [0..Len(pieces) -> Nat]
    /\ at[0] = 0
    /\ at[Len(pieces)] = Len(s)
    /\ \A i \in 1..Len(pieces) :
         /\ at[i] = at[i - 1] + Len(pieces[i])
         /\ at[i] <= Len(s)
         /\ \A k \in 1..Len(pieces[i]) : s[at[i - 1] + k] = pieces[i][k]
    /\ \A j \in 1..Len(s) :
         \E i \in 1..Len(pieces) : \E k \in 1..Len(pieces[i]) : j = at[i - 1] + k

\* FlattenSeq lays the pieces one behind the other.
LEMMA FlattenParts ==
    ASSUME NEW V, NEW pieces \in Seq(Seq(V))
    PROVE  /\ FlattenSeq(pieces) \in Seq(V)
           /\ \E at : Laid(FlattenSeq(pieces), pieces, at)
<1> DEFINE n == Len(pieces)
           len == [i \in 1..n |-> Len(pieces[i])]
<1>1. /\ n \in Nat
      /\ \A i \in 1..n : pieces[i] \in Seq(V) /\ Len(pieces[i]) = len[i] /\ len[i] \in Nat
  BY LenProperties, ElementOfSeq
<1>2. PICK h \in [0..n -> Seq(V)] :
         /\ h[0] = <<>>
         /\ \A i \in 1..n : h[i] = h[i - 1] \o pieces[i]
         /\ FlattenSeq(pieces) = h[n]
  BY FlattenSteps
<1> DEFINE at == [i \in 0..n |-> Len(h[i])]
<1>3. /\ at \in [0..n -> Nat]
      /\ at[0] = 0
      /\ \A i \in 0..n : h[i] \in Seq(V) /\ at[i] = Len(h[i]) /\ at[i] \in Nat
  <2>1. \A i \in 0..n : h[i] \in Seq(V) /\ Len(h[i]) \in Nat
    BY LenProperties
  <2>2. Len(h[0]) = 0
    BY <1>2, EmptySeq
  <2> QED
    BY <1>1, <2>1, <2>2
<1> HIDE DEF at, n, len
<1>4. \A i \in 1..n :
         /\ i - 1 \in 0..n /\ i \in 0..n
         /\ at[i] = at[i - 1] + len[i]
         /\ \A j \in 1..at[i - 1] : h[i][j] = h[i - 1][j]
         /\ \A k \in 1..len[i] : h[i][at[i - 1] + k] = pieces[i][k]
  <2> TAKE i \in 1..n
  <2>1. i - 1 \in 0..n /\ i \in 0..n
    BY <1>1
  <2>2. h[i] = h[i - 1] \o pieces[i]
    BY <1>2
  <2>3. h[i - 1] \in Seq(V) /\ pieces[i] \in Seq(V)
    BY <1>1, <1>3, <2>1
  <2>4. Joined(V, h[i - 1], pieces[i], h[i])
    BY <2>2, <2>3, Concat
  <2>5. at[i] = Len(h[i]) /\ at[i - 1] = Len(h[i - 1]) /\ len[i] = Len(pieces[i])
    BY <1>1, <1>3, <2>1
  <2> QED
    BY <2>1, <2>4, <2>5 DEF Joined
<1> DEFINE Done(m) ==
      /\ \A i \in 1..m : /\ at[i] <= at[m]
                         /\ \A k \in 1..len[i] : h[m][at[i - 1] + k] = pieces[i][k]
      /\ \A j \in 1..at[m] : \E i \in 1..m : \E k \in 1..len[i] : j = at[i - 1] + k
<1> DEFINE S == {m \in Nat : m <= n => Done(m)}
<1>5. 0 \in S
  BY <1>3
<1>6. ASSUME NEW m \in Nat, m \in S PROVE m + 1 \in S
  <2>0. ASSUME m + 1 <= n PROVE Done(m + 1)
   <3>1. Done(m)
     BY <1>1, <1>6, <2>0
   <3>2. /\ m + 1 \in 1..n /\ (m + 1) - 1 = m
         /\ at[m + 1] = at[m] + len[m + 1]
         /\ \A j \in 1..at[m] : h[m + 1][j] = h[m][j]
         /\ \A k \in 1..len[m + 1] : h[m + 1][at[m] + k] = pieces[m + 1][k]
     <4>1. m + 1 \in 1..n /\ (m + 1) - 1 = m
       BY <1>1, <2>0
     <4> QED
       BY <4>1, <1>4
   <3>3. at[m] \in Nat /\ at[m + 1] \in Nat /\ len[m + 1] \in Nat
     <4>1. m \in 0..n /\ m + 1 \in 0..n /\ m + 1 \in 1..n
       BY <1>1, <2>0
     <4> QED
       BY <1>1, <1>3, <4>1
   <3>4. ASSUME NEW i \in 1..(m + 1)
         PROVE  /\ at[i] <= at[m + 1]
                /\ \A k \in 1..len[i] : h[m + 1][at[i - 1] + k] = pieces[i][k]
     <4>1. CASE i = m + 1
       BY <3>2, <3>3, <4>1
     <4>2. CASE i # m + 1
       <5>1. i \in 1..m /\ i \in 1..n /\ i - 1 \in 0..n /\ i \in 0..n
         BY <1>1, <4>2, <3>2
       <5>2. at[i] <= at[m] /\ at[i] = at[i - 1] + len[i] /\ at[i - 1] \in Nat
             /\ len[i] \in Nat /\ at[i] \in Nat
         BY <1>1, <1>3, <1>4, <3>1, <5>1
       <5>3. ASSUME NEW k \in 1..len[i] PROVE h[m + 1][at[i - 1] + k] = pieces[i][k]
         <6>1. at[i - 1] + k \in 1..at[m]
           BY <3>3, <5>2
         <6>2. h[m][at[i - 1] + k] = pieces[i][k]
           BY <3>1, <5>1
         <6> QED
           BY <3>2, <6>1, <6>2
       <5> QED
         BY <3>2, <3>3, <5>2, <5>3
     <4> QED
       BY <4>1, <4>2
   <3>5. ASSUME NEW j \in 1..at[m + 1]
         PROVE  \E i \in 1..(m + 1) : \E k \in 1..len[i] : j = at[i - 1] + k
     <4>1. CASE j <= at[m]
       <5>1. j \in 1..at[m]
         BY <3>3, <4>1
       <5>2. PICK i \in 1..m : \E k \in 1..len[i] : j = at[i - 1] + k
         BY <3>1, <5>1
       <5>3. i \in 1..(m + 1)
         OBVIOUS
       <5> QED
         BY <5>2, <5>3
     <4>2. CASE ~ (j <= at[m])
       <5>1. /\ j - at[m] \in 1..len[m + 1]
             /\ j = at[(m + 1) - 1] + (j - at[m])
         BY <3>2, <3>3, <4>2
       <5>2. m + 1 \in 1..(m + 1)
         OBVIOUS
       <5> QED
         BY <5>1, <5>2
     <4> QED
       BY <4>1, <4>2
   <3> QED
     BY <3>4, <3>5
  <2> QED
    BY <2>0
<1>7. Done(n)
  <2> HIDE DEF Done, S
  <2>1. \A m \in Nat : m \in S
    BY <1>5, <1>6, NatInd
  <2> USE DEF S
  <2> QED
    BY <1>1, <2>1
<1>8. FlattenSeq(pieces) = h[n] /\ h[n] \in Seq(V) /\ at[n] = Len(h[n])
  BY <1>1, <1>2, <1>3
<1>9. Laid(h[n], pieces, at)
  <2>1. \A i \in 1..n : /\ at[i] = at[i - 1] + Len(pieces[i])
                       /\ at[i] <= Len(h[n])
                       /\ \A k \in 1..Len(pieces[i]) : h[n][at[i - 1] + k] = pieces[i][k]
    BY <1>1, <1>4, <1>7, <1>8
  <2>2. \A j \in 1..Len(h[n]) : \E i \in 1..n : \E k \in 1..Len(pieces[i]) : j = at[i - 1] + k
    <3> TAKE j \in 1..Len(h[n])
    <3>1. PICK i \in 1..n : \E k \in 1..len[i] : j = at[i - 1] + k
      BY <1>7, <1>8
    <3>2. len[i] = Len(pieces[i])
      BY <1>1
    <3> QED
      BY <3>1, <3>2
  <2> HIDE DEF Done
  <2> QED
    BY <1>3, <1>8, <2>1, <2>2 DEF Laid, n
<1> QED
  BY <1>8, <1>9 DEF n

-----------------------------------------------------------------------------
(* The tables of fields *)

\* Fields with distinct ids, none of them one of a field of another version.
Numbered(fields) ==
    /\ Len(fields) \in Nat
    /\ DOMAIN fields = 1..Len(fields)
    /\ \A i \in 1..Len(fields) : fields[i].id # 99 /\ fields[i].type # "changed"
    /\ \A i, j \in 1..Len(fields) : fields[i].id = fields[j].id => i = j

\* The ids of a struct count its fields.
Counted(fields) ==
    /\ Len(fields) \in 0..98
    /\ DOMAIN fields = 1..Len(fields)
    /\ \A i \in 1..Len(fields) : fields[i].id = i /\ fields[i].type # "changed"

LEMMA CountedIsNumbered ==
    ASSUME NEW fields, Counted(fields)
    PROVE  Numbered(fields)
<1> DEFINE n == Len(fields)
<1>1. n \in 0..98 /\ DOMAIN fields = 1..n
  BY DEF Counted
<1>2. \A i \in 1..n : fields[i].id = i /\ fields[i].type # "changed"
  BY DEF Counted
<1> HIDE DEF n
<1>3. \A i \in 1..n : fields[i].id # 99 /\ fields[i].type # "changed"
  BY <1>1, <1>2
<1>4. \A i, j \in 1..n : fields[i].id = fields[j].id => i = j
  BY <1>2
<1> QED
  BY <1>1, <1>3, <1>4 DEF Numbered, n

\* Every struct of the client is such a table.
LEMMA StructsCounted == \A s \in DOMAIN Structs : Counted(Structs[s])
<1> USE DEF Counted, Req, Opt
<1>1. /\ Counted(TEndPoint)
      /\ Counted(TSStatus)
      /\ Counted(TSQueryDataSet)
      /\ Counted(TSQueryNonAlignDataSet)
      /\ Counted(TSTracingInfo)
      /\ Counted(TSExecuteStatementResp)
      /\ Counted(TSOpenSessionResp)
      /\ Counted(TSOpenSessionReq)
  BY DEF TEndPoint, TSStatus, TSQueryDataSet, TSQueryNonAlignDataSet, TSTracingInfo,
         TSExecuteStatementResp, TSOpenSessionResp, TSOpenSessionReq
<1>2. /\ Counted(TSCloseSessionReq)
      /\ Counted(TSExecuteStatementReq)
      /\ Counted(TSExecuteBatchStatementReq)
      /\ Counted(TSGetOperationStatusReq)
      /\ Counted(TSCancelOperationReq)
      /\ Counted(TSCloseOperationReq)
      /\ Counted(TSFetchResultsReq)
      /\ Counted(TSFetchResultsResp)
  BY DEF TSCloseSessionReq, TSExecuteStatementReq, TSExecuteBatchStatementReq,
         TSGetOperationStatusReq, TSCancelOperationReq, TSCloseOperationReq,
         TSFetchResultsReq, TSFetchResultsResp
<1>3. /\ Counted(TSFetchMetadataResp)
      /\ Counted(TSFetchMetadataReq)
      /\ Counted(TSGetTimeZoneResp)
      /\ Counted(TSSetTimeZoneReq)
      /\ Counted(TSInsertRecordReq)
      /\ Counted(TSInsertStringRecordReq)
      /\ Counted(TSInsertTabletReq)
      /\ Counted(TSInsertTabletsReq)
  BY DEF TSFetchMetadataResp, TSFetchMetadataReq, TSGetTimeZoneResp, TSSetTimeZoneReq,
         TSInsertRecordReq, TSInsertStringRecordReq, TSInsertTabletReq, TSInsertTabletsReq
<1>4. /\ Counted(TSInsertRecordsReq)
      /\ Counted(TSInsertRecordsOfOneDeviceReq)
      /\ Counted(TSInsertStringRecordsOfOneDeviceReq)
      /\ Counted(TSInsertStringRecordsReq)
      /\ Counted(TSDeleteDataReq)
      /\ Counted(TSCreateTimeseriesReq)
      /\ Counted(TSCreateAlignedTimeseriesReq)
      /\ Counted(TSRawDataQueryReq)
  BY DEF TSInsertRecordsReq, TSInsertRecordsOfOneDeviceReq,
         TSInsertStringRecordsOfOneDeviceReq, TSInsertStringRecordsReq, TSDeleteDataReq,
         TSCreateTimeseriesReq, TSCreateAlignedTimeseriesReq, TSRawDataQueryReq
<1>5. /\ Counted(TSLastDataQueryReq)
      /\ Counted(TSFastLastDataQueryForOnePrefixPathReq)
      /\ Counted(TSFastLastDataQueryForOneDeviceReq)
      /\ Counted(TSAggregationQueryReq)
      /\ Counted(TSCreateMultiTimeseriesReq)
      /\ Counted(ServerProperties)
      /\ Counted(TSSetSchemaTemplateReq)
      /\ Counted(TSCreateSchemaTemplateReq)
  BY DEF TSLastDataQueryReq, TSFastLastDataQueryForOnePrefixPathReq,
         TSFastLastDataQueryForOneDeviceReq, TSAggregationQueryReq,
         TSCreateMultiTimeseriesReq, ServerProperties, TSSetSchemaTemplateReq,
         TSCreateSchemaTemplateReq
<1>6. /\ Counted(TSAppendSchemaTemplateReq)
      /\ Counted(TSPruneSchemaTemplateReq)
      /\ Counted(TSQueryTemplateReq)
      /\ Counted(TSQueryTemplateResp)
      /\ Counted(TSUnsetSchemaTemplateReq)
      /\ Counted(TSDropSchemaTemplateReq)
      /\ Counted(TCreateTimeseriesUsingSchemaTemplateReq)
      /\ Counted(TSyncIdentityInfo)
  BY DEF TSAppendSchemaTemplateReq, TSPruneSchemaTemplateReq, TSQueryTemplateReq,
         TSQueryTemplateResp, TSUnsetSchemaTemplateReq, TSDropSchemaTemplateReq,
         TCreateTimeseriesUsingSchemaTemplateReq, TSyncIdentityInfo
<1>7. /\ Counted(TSyncTransportMetaInfo)
      /\ Counted(TPipeTransferReq)
      /\ Counted(TPipeTransferResp)
      /\ Counted(TPipeSubscribeReq)
      /\ Counted(TPipeSubscribeResp)
      /\ Counted(TSBackupConfigurationResp)
      /\ Counted(TSConnectionInfo)
      /\ Counted(TSConnectionInfoResp)
  BY DEF TSyncTransportMetaInfo, TPipeTransferReq, TPipeTransferResp, TPipeSubscribeReq,
         TPipeSubscribeResp, TSBackupConfigurationResp, TSConnectionInfo, TSConnectionInfoResp
<1> HIDE DEF Counted
<1> QED
  BY <1>1, <1>2, <1>3, <1>4, <1>5, <1>6, <1>7 DEF Structs

-----------------------------------------------------------------------------
(* A struct on the wire *)

\* Some element of a sequence, and the elements of a sequence over V.
LEMMA ToSetOfSeq ==
    ASSUME NEW V, NEW s \in Seq(V)
    PROVE  ToSet(s) \subseteq V /\ ToSet(s) = {s[i] : i \in 1..Len(s)}
BY LenProperties, ElementOfSeq DEF ToSet

\* A sequence of one element.
LEMMA OneElement ==
    ASSUME NEW V, NEW x \in V
    PROVE  <<x>> \in Seq(V) /\ Len(<<x>>) = 1 /\ <<x>>[1] = x
OBVIOUS

\* The fields on the wire are those that are set.
LEMMA WrittenFields ==
    ASSUME NEW fields, Numbered(fields), NEW set
    PROVE  /\ Written(fields, set) \in Seq({OnWire(fields[i]) : i \in 1..Len(fields)})
           /\ ToSet(Written(fields, set)) =
                {OnWire(fields[i]) : i \in {k \in 1..Len(fields) : fields[k].name \in set}}
<1> DEFINE n == Len(fields)
           V == {OnWire(fields[i]) : i \in 1..n}
           W == {OnWire(fields[i]) : i \in {k \in 1..n : fields[k].name \in set}}
           Piece(i) == IF fields[i].name \in set THEN <<OnWire(fields[i])>> ELSE <<>>
           pieces == [i \in 1..n |-> Piece(i)]
<1>1. n \in Nat /\ DOMAIN fields = 1..n
  BY DEF Numbered
<1>2. Written(fields, set) = FlattenSeq(pieces)
  BY <1>1 DEF Written
<1>3. \A i \in 1..n :
         /\ fields[i].name \in set =>
              /\ Piece(i) = <<OnWire(fields[i])>> /\ Len(Piece(i)) = 1
              /\ OnWire(fields[i]) \in V /\ OnWire(fields[i]) \in W
         /\ fields[i].name \notin set => Piece(i) = <<>> /\ Len(Piece(i)) = 0
  OBVIOUS
<1> HIDE DEF n, V, Piece
<1>4. \A i \in 1..n : Piece(i) \in Seq(V)
  <2> TAKE i \in 1..n
  <2>1. CASE fields[i].name \in set
    BY <1>3, <2>1, OneElement
  <2>2. CASE fields[i].name \notin set
    BY <1>3, <2>2, EmptySeq
  <2> QED
    BY <2>1, <2>2
<1>5. pieces \in Seq(Seq(V)) /\ Len(pieces) = n /\ \A i \in 1..n : pieces[i] = Piece(i)
  BY <1>1, <1>4
<1> HIDE DEF pieces, W
<1> DEFINE flat == FlattenSeq(pieces)
<1>6. flat \in Seq(V) /\ \E at : Laid(flat, pieces, at)
  BY <1>5, FlattenParts
<1>7. PICK at : Laid(flat, pieces, at)
  BY <1>6
<1> HIDE DEF flat
<1>8. /\ Len(flat) \in Nat /\ DOMAIN flat = 1..Len(flat)
      /\ at \in [0..n -> Nat] /\ at[n] = Len(flat)
      /\ \A i \in 1..n : /\ at[i] = at[i - 1] + Len(Piece(i)) /\ at[i] <= Len(flat)
                         /\ \A k \in 1..Len(Piece(i)) : flat[at[i - 1] + k] = Piece(i)[k]
      /\ \A j \in 1..Len(flat) :
           \E i \in 1..n : \E k \in 1..Len(Piece(i)) : j = at[i - 1] + k
  BY <1>5, <1>6, <1>7, LenProperties DEF Laid
<1>9. ASSUME NEW j \in 1..Len(flat) PROVE flat[j] \in W
  <2>0. PICK i \in 1..n : \E k \in 1..Len(Piece(i)) : j = at[i - 1] + k
    BY <1>8
  <2>1. PICK k \in 1..Len(Piece(i)) : j = at[i - 1] + k
    BY <2>0
  <2>2. fields[i].name \in set
    BY <1>3
  <2>3. k = 1 /\ Piece(i)[1] = OnWire(fields[i])
    <3>1. Piece(i) = <<OnWire(fields[i])>> /\ Len(Piece(i)) = 1
      BY <1>3, <2>2
    <3>2. Piece(i)[1] = OnWire(fields[i])
      BY <3>1, OneElement
    <3>3. k \in 1..1
      BY <3>1
    <3> QED
      BY <3>2, <3>3
  <2>4. flat[at[i - 1] + k] = Piece(i)[k]
    BY <1>8
  <2> QED
    BY <1>3, <2>1, <2>2, <2>3, <2>4
<1>10. ASSUME NEW i \in 1..n, fields[i].name \in set
       PROVE  \E j \in 1..Len(flat) : flat[j] = OnWire(fields[i])
  <2>1. Piece(i) = <<OnWire(fields[i])>> /\ Len(Piece(i)) = 1
    BY <1>3, <1>10
  <2>2. /\ at[i] = at[i - 1] + 1 /\ at[i] <= Len(flat)
        /\ \A k \in 1..1 : flat[at[i - 1] + k] = Piece(i)[k]
    BY <1>8, <2>1
  <2>3. i - 1 \in 0..n /\ at[i - 1] \in Nat
    BY <1>1, <1>8
  <2>4. at[i - 1] + 1 \in 1..Len(flat) /\ flat[at[i - 1] + 1] = OnWire(fields[i])
    <3>1. Piece(i)[1] = OnWire(fields[i])
      BY <2>1, OneElement
    <3> QED
      BY <1>8, <2>2, <2>3, <3>1
  <2> QED
    BY <2>4
<1>11. ToSet(flat) = W
  <2>1. ToSet(flat) \subseteq W
    BY <1>8, <1>9 DEF ToSet
  <2>2. ASSUME NEW w \in W PROVE w \in ToSet(flat)
    <3>1. PICK i \in 1..n : fields[i].name \in set /\ w = OnWire(fields[i])
      BY DEF W
    <3> QED
      BY <1>8, <1>10, <3>1 DEF ToSet
  <2> QED
    BY <2>1, <2>2
<1> QED
  BY <1>2, <1>6, <1>11 DEF n, V, W, flat

\* A field that the table of the reader knows.
Known(m) == m.type # "changed" /\ m.id # 99

\* Known fields are read under their own names, and the others are skipped.
LEMMA DecodedFields ==
    ASSUME NEW fields, Numbered(fields), NEW msg,
           \A m \in ToSet(msg) : Known(m) => \E i \in 1..Len(fields) : m = OnWire(fields[i])
    PROVE  Decoded(fields, msg) =
               {<<m.value, m.value>> : m \in {k \in ToSet(msg) : k.type # "changed" /\ k.id # 99}}
<1> DEFINE n == Len(fields)
           K == {k \in ToSet(msg) : k.type # "changed" /\ k.id # 99}
           Q == {q \in ToSet(fields) \X ToSet(msg) : Matches(q[1], q[2])}
<1>1. /\ \A i \in 1..n : /\ fields[i] \in ToSet(fields)
                         /\ fields[i].id # 99 /\ fields[i].type # "changed"
                         /\ OnWire(fields[i]).id = fields[i].id
                         /\ OnWire(fields[i]).type = fields[i].type
                         /\ OnWire(fields[i]).value = fields[i].name
      /\ \A f \in ToSet(fields) : \E i \in 1..n : f = fields[i]
      /\ \A i, j \in 1..n : fields[i].id = fields[j].id => i = j
  BY DEF Numbered, ToSet, OnWire
<1> HIDE DEF n
<1>2. \A m \in ToSet(msg) : m \in K <=> Known(m)
  BY DEF Known
<1>3. \A f \in ToSet(fields), m \in ToSet(msg) :
         Matches(f, m) => m \in K /\ f.name = m.value
  <2> TAKE f \in ToSet(fields), m \in ToSet(msg)
  <2> HAVE Matches(f, m)
  <2>1. f.id = m.id /\ f.type = m.type
    BY DEF Matches
  <2>2. PICK i \in 1..n : f = fields[i]
    BY <1>1
  <2>3. m.id # 99 /\ m.type # "changed"
    BY <1>1, <2>1, <2>2
  <2>4. PICK j \in 1..n : m = OnWire(fields[j])
    BY <2>3 DEF Known, n
  <2>5. i = j
    BY <1>1, <2>1, <2>2, <2>4
  <2> QED
    BY <1>1, <2>2, <2>3, <2>4, <2>5
<1>4. \A m \in K : \E f \in ToSet(fields) : Matches(f, m) /\ f.name = m.value
  <2> TAKE m \in K
  <2>1. PICK j \in 1..n : m = OnWire(fields[j])
    BY DEF Known, n
  <2>2. Matches(fields[j], m) /\ fields[j].name = m.value
    BY <1>1, <2>1 DEF Matches
  <2> QED
    BY <1>1, <2>2
<1>5. Decoded(fields, msg) = {<<p[1].name, p[2].value>> : p \in Q}
  BY DEF Decoded
<1>6. ASSUME NEW p \in Q PROVE \E m \in K : <<p[1].name, p[2].value>> = <<m.value, m.value>>
  <2>1. p[1] \in ToSet(fields) /\ p[2] \in ToSet(msg) /\ Matches(p[1], p[2])
    OBVIOUS
  <2> QED
    BY <1>3, <2>1
<1>7. ASSUME NEW m \in K PROVE \E p \in Q : <<p[1].name, p[2].value>> = <<m.value, m.value>>
  <2>1. PICK f \in ToSet(fields) : Matches(f, m) /\ f.name = m.value
    BY <1>4
  <2>2. <<f, m>> \in Q
    BY <2>1
  <2> QED
    BY <2>1, <2>2
<1> HIDE DEF Q, K
<1>8. {<<p[1].name, p[2].value>> : p \in Q} = {<<m.value, m.value>> : m \in K}
  BY <1>6, <1>7
<1> QED
  BY <1>5, <1>8 DEF K

\* The same table reads back what it has written.
LEMMA DecodedWritten ==
    ASSUME NEW fields, Numbered(fields), NEW set
    PROVE  /\ Decoded(fields, Written(fields, set)) = {<<x, x>> : x \in set \cap Names(fields)}
           /\ \A m \in ToSet(Written(fields, set)) :
                \E i \in 1..Len(fields) : m = OnWire(fields[i])
<1> DEFINE n == Len(fields)
           msg == Written(fields, set)
<1>1. ToSet(msg) = {OnWire(fields[i]) : i \in {k \in 1..n : fields[k].name \in set}}
  BY WrittenFields
<1>2. DOMAIN fields = 1..n
  BY DEF Numbered
<1>3. \A i \in 1..n : /\ OnWire(fields[i]).value = fields[i].name
                     /\ OnWire(fields[i]).type # "changed" /\ OnWire(fields[i]).id # 99
  BY DEF Numbered, OnWire
<1> HIDE DEF n, msg
<1>4. \A m \in ToSet(msg) : \E i \in 1..n : m = OnWire(fields[i])
  BY <1>1
<1> DEFINE K == {k \in ToSet(msg) : k.type # "changed" /\ k.id # 99}
<1>5. Decoded(fields, msg) = {<<m.value, m.value>> : m \in K}
  BY <1>4, DecodedFields DEF n
<1>6. ASSUME NEW m \in K PROVE m.value \in set \cap Names(fields)
  <2>1. PICK i \in 1..n : fields[i].name \in set /\ m = OnWire(fields[i])
    BY <1>1
  <2> QED
    BY <1>2, <1>3, <2>1 DEF Names
<1>7. ASSUME NEW x \in set \cap Names(fields) PROVE \E m \in K : m.value = x
  <2>1. PICK i \in 1..n : fields[i].name = x
    BY <1>2 DEF Names
  <2>2. OnWire(fields[i]) \in K
    BY <1>1, <1>3, <2>1
  <2> QED
    BY <1>3, <2>1, <2>2
<1> HIDE DEF K
<1>8. {<<m.value, m.value>> : m \in K} = {<<x, x>> : x \in set \cap Names(fields)}
  BY <1>6, <1>7
<1> QED
  BY <1>4, <1>5, <1>8 DEF n, msg

\* The names of a table are finitely many.
LEMMA NamesFinite ==
    ASSUME NEW fields, Numbered(fields)
    PROVE  IsFiniteSet(Names(fields))
<1> DEFINE g == [i \in 1..Len(fields) |-> fields[i].name]
<1>1. Len(fields) \in Nat /\ DOMAIN fields = 1..Len(fields)
  BY DEF Numbered
<1>2. g \in Surjection(1..Len(fields), Names(fields))
  BY <1>1 DEF Surjection, Names
<1>3. IsFiniteSet(1..Len(fields))
  BY <1>1, FS_Interval
<1> QED
  BY <1>2, <1>3, FS_Surjection

\* Pairs of equal parts are as many as their parts.
LEMMA PairsCardinality ==
    ASSUME NEW S, IsFiniteSet(S)
    PROVE  Cardinality({<<x, x>> : x \in S}) = Cardinality(S)
<1> DEFINE T == {<<x, x>> : x \in S}
           g == [x \in S |-> <<x, x>>]
<1>1. g \in Bijection(S, T)
  BY DEF Bijection, Injection, Surjection, IsInjective
<1> HIDE DEF T, g
<1>2. Cardinality(T) = Cardinality(S)
  BY <1>1, FS_Bijection DEF ExistsBijection
<1> QED
  BY <1>2 DEF T

-----------------------------------------------------------------------------
(* Wire *)

\* The struct is one of the tables, the right one for a call, and what the program
\* gives for a call is complete.
Addressed ==
    /\ step \in {"construct", "thrown", "sent", "arriving", "read", "unknown result"}
    /\ call # NoCall => call \in DOMAIN Methods
    /\ Numbered(Fields(struct))
    /\ call # NoCall =>
         /\ given \subseteq Names(Fields(struct))
         /\ step = "construct" => Needed(Fields(struct)) \subseteq given
         /\ step # "thrown"

\* Of what is under way, what the reader knows is in its table.
UnderWay ==
    /\ step \in {"sent", "arriving"} => Opens("args") \/ Opens("result")
    /\ step = "sent" \/ (step = "arriving" /\ alien = "no") =>
         message = Written(Fields(struct), given)
    /\ step = "arriving" => \A m \in ToSet(message) : Known(m) =>
         \E i \in 1..Len(Fields(struct)) : m = OnWire(Fields(struct)[i])

WireInv == Addressed /\ UnderWay /\ RoundTrip

LEMMA TablesNumbered == Numbered(<<>>) /\ \A s \in DOMAIN Structs : Numbered(Structs[s])
<1>1. Numbered(<<>>)
  BY DEF Numbered
<1> QED
  BY <1>1, StructsCounted, CountedIsNumbered

\* The structs of a method are tables, and so are those of its frame.
LEMMA MethodTables ==
    ASSUME NEW m \in DOMAIN Methods
    PROVE  /\ Numbered(Fields(Methods[m].request)) /\ Numbered(Fields(Methods[m].response))
           /\ \A part \in {"args", "result"} :
                /\ Numbered(Methods[m].frame[part])
                /\ Names(Methods[m].frame[part]) # {}
<1>1. /\ Methods[m].request \in DOMAIN Structs \cup {NoStruct}
      /\ Methods[m].response \in DOMAIN Structs \cup {NoStruct}
  BY DEF Methods, Structs, ExecuteQueryStatementV2, ExecuteUpdateStatementV2, FetchResultsV2,
         OpenSession, CloseSession, CloseOperation, InsertTablet, InsertTablets,
         RequestStatementId
<1>2. Methods[m].frame \in {Frame(Opt(1, "req", "STRUCT"), Opt(0, "success", "STRUCT")),
                            Frame(Opt(1, "sessionId", "I64"), Opt(0, "success", "I64"))}
  BY DEF Methods, ExecuteQueryStatementV2, ExecuteUpdateStatementV2, FetchResultsV2,
         OpenSession, CloseSession, CloseOperation, InsertTablet, InsertTablets,
         RequestStatementId, ExecuteQueryStatementV2Frame, ExecuteUpdateStatementV2Frame,
         FetchResultsV2Frame, OpenSessionFrame, CloseSessionFrame, CloseOperationFrame,
         InsertTabletFrame, InsertTabletsFrame, RequestStatementIdFrame
<1>3. \A f, g : /\ Frame(f, g).args = <<f>> /\ Frame(f, g).result = <<g>>
  BY DEF Frame
<1>4. /\ Numbered(<<Opt(1, "req", "STRUCT")>>) /\ Names(<<Opt(1, "req", "STRUCT")>>) # {}
      /\ Numbered(<<Opt(0, "success", "STRUCT")>>) /\ Names(<<Opt(0, "success", "STRUCT")>>) # {}
      /\ Numbered(<<Opt(1, "sessionId", "I64")>>) /\ Names(<<Opt(1, "sessionId", "I64")>>) # {}
      /\ Numbered(<<Opt(0, "success", "I64")>>) /\ Names(<<Opt(0, "success", "I64")>>) # {}
  BY DEF Numbered, Names, Opt
<1>5. \A part \in {"args", "result"} :
         Numbered(Methods[m].frame[part]) /\ Names(Methods[m].frame[part]) # {}
  <2>1. CASE Methods[m].frame = Frame(Opt(1, "req", "STRUCT"), Opt(0, "success", "STRUCT"))
    BY <1>3, <1>4, <2>1
  <2>2. CASE Methods[m].frame = Frame(Opt(1, "sessionId", "I64"), Opt(0, "success", "I64"))
    BY <1>3, <1>4, <2>2
  <2> QED
    BY <1>2, <2>1, <2>2
<1> QED
  BY <1>1, <1>5, TablesNumbered DEF Fields

\* What is written around a struct opens on the other side, and an empty frame does not.
LEMMA FrameOpens ==
    ASSUME NEW m \in DOMAIN Methods, NEW part \in {"args", "result"}
    PROVE  LET F == Methods[m].frame[part]
           IN  /\ Decoded(F, Written(F, Names(F))) = {<<f, f>> : f \in Names(F)}
               /\ Decoded(F, Written(F, {})) # {<<f, f>> : f \in Names(F)}
<1> DEFINE F == Methods[m].frame[part]
<1>1. Numbered(F) /\ Names(F) # {}
  BY MethodTables
<1>2. Decoded(F, Written(F, Names(F))) = {<<x, x>> : x \in Names(F) \cap Names(F)}
  BY <1>1, DecodedWritten
<1>3. Decoded(F, Written(F, {})) = {<<x, x>> : x \in {} \cap Names(F)}
  BY <1>1, DecodedWritten
<1> HIDE DEF F
<1>4. Decoded(F, Written(F, {})) # {<<x, x>> : x \in Names(F)}
  BY <1>1, <1>3
<1>5. Decoded(F, Written(F, Names(F))) = {<<x, x>> : x \in Names(F)}
  BY <1>2
<1> QED
  BY <1>4, <1>5 DEF F

\* The fields of the structs that are sent, and those a constructor insists on.
LEMMA RequestFields ==
    /\ Names(TSExecuteStatementReq) =
         {"sessionId", "statement", "statementId", "fetchSize", "timeout",
          "enableRedirectQuery", "jdbcQuery"}
    /\ Needed(TSExecuteStatementReq) \subseteq
         {"sessionId", "statement", "statementId"}
    /\ Names(TSInsertTabletReq) =
         {"sessionId", "prefixPath", "measurements", "values", "timestamps", "types", "size",
          "isAligned", "writeToTable", "columnCategories", "isCompressed", "encodingTypes",
          "compressType"}
    /\ Needed(TSInsertTabletReq) \subseteq
         {"sessionId", "prefixPath", "measurements", "values", "timestamps", "types", "size"}
    /\ Names(TSInsertTabletsReq) =
         {"sessionId", "prefixPaths", "measurementsList", "valuesList", "timestampsList",
          "typesList", "sizeList", "isAligned"}
    /\ Needed(TSInsertTabletsReq) \subseteq
         {"sessionId", "prefixPaths", "measurementsList", "valuesList", "timestampsList",
          "typesList", "sizeList"}
    /\ Names(TSFetchResultsReq) =
         {"sessionId", "statement", "fetchSize", "queryId", "isAlign", "timeout", "statementId"}
    /\ Needed(TSFetchResultsReq) \subseteq
         {"sessionId", "statement", "fetchSize", "queryId", "isAlign"}
    /\ Names(TSCloseOperationReq) =
         {"sessionId", "queryId", "statementId", "preparedStatementName"}
    /\ Needed(TSCloseOperationReq) \subseteq
         {"sessionId"}
    /\ Names(TSOpenSessionReq) =
         {"client_protocol", "zoneId", "username", "password", "configuration"}
    /\ Needed(TSOpenSessionReq) \subseteq
         {"client_protocol", "zoneId", "username"}
    /\ Names(TSCloseSessionReq) =
         {"sessionId"}
    /\ Needed(TSCloseSessionReq) \subseteq
         {"sessionId"}
<1>1. /\ Names(TSExecuteStatementReq) =
           {"sessionId", "statement", "statementId", "fetchSize", "timeout",
            "enableRedirectQuery", "jdbcQuery"}
      /\ Needed(TSExecuteStatementReq) \subseteq
           {"sessionId", "statement", "statementId"}
  <2>1. DOMAIN TSExecuteStatementReq = 1..7
    BY DEF TSExecuteStatementReq
  <2> QED
    BY <2>1 DEF Names, Needed, TSExecuteStatementReq, Req, Opt
<1>2. /\ Names(TSInsertTabletReq) =
           {"sessionId", "prefixPath", "measurements", "values", "timestamps", "types", "size",
            "isAligned", "writeToTable", "columnCategories", "isCompressed", "encodingTypes",
            "compressType"}
      /\ Needed(TSInsertTabletReq) \subseteq
           {"sessionId", "prefixPath", "measurements", "values", "timestamps", "types", "size"}
  <2>1. DOMAIN TSInsertTabletReq = 1..13
    BY DEF TSInsertTabletReq
  <2> QED
    BY <2>1 DEF Names, Needed, TSInsertTabletReq, Req, Opt
<1>3. /\ Names(TSInsertTabletsReq) =
           {"sessionId", "prefixPaths", "measurementsList", "valuesList", "timestampsList",
            "typesList", "sizeList", "isAligned"}
      /\ Needed(TSInsertTabletsReq) \subseteq
           {"sessionId", "prefixPaths", "measurementsList", "valuesList", "timestampsList",
            "typesList", "sizeList"}
  <2>1. DOMAIN TSInsertTabletsReq = 1..8
    BY DEF TSInsertTabletsReq
  <2> QED
    BY <2>1 DEF Names, Needed, TSInsertTabletsReq, Req, Opt
<1>4. /\ Names(TSFetchResultsReq) =
           {"sessionId", "statement", "fetchSize", "queryId", "isAlign", "timeout",
            "statementId"}
      /\ Needed(TSFetchResultsReq) \subseteq
           {"sessionId", "statement", "fetchSize", "queryId", "isAlign"}
  <2>1. DOMAIN TSFetchResultsReq = 1..7
    BY DEF TSFetchResultsReq
  <2> QED
    BY <2>1 DEF Names, Needed, TSFetchResultsReq, Req, Opt
<1>5. /\ Names(TSCloseOperationReq) =
           {"sessionId", "queryId", "statementId", "preparedStatementName"}
      /\ Needed(TSCloseOperationReq) \subseteq
           {"sessionId"}
  <2>1. DOMAIN TSCloseOperationReq = 1..4
    BY DEF TSCloseOperationReq
  <2> QED
    BY <2>1 DEF Names, Needed, TSCloseOperationReq, Req, Opt
<1>6. /\ Names(TSOpenSessionReq) =
           {"client_protocol", "zoneId", "username", "password", "configuration"}
      /\ Needed(TSOpenSessionReq) \subseteq
           {"client_protocol", "zoneId", "username"}
  <2>1. DOMAIN TSOpenSessionReq = 1..5
    BY DEF TSOpenSessionReq
  <2> QED
    BY <2>1 DEF Names, Needed, TSOpenSessionReq, Req, Opt
<1>7. /\ Names(TSCloseSessionReq) =
           {"sessionId"}
      /\ Needed(TSCloseSessionReq) \subseteq
           {"sessionId"}
  <2>1. DOMAIN TSCloseSessionReq = 1..1
    BY DEF TSCloseSessionReq
  <2> QED
    BY <2>1 DEF Names, Needed, TSCloseSessionReq, Req, Opt
<1> QED
  BY <1>1, <1>2, <1>3, <1>4, <1>5, <1>6, <1>7

\* The program's calls have all that their structs need, and nothing else.
LEMMA CallsComplete ==
    ASSUME NEW c \in ProgramCalls
    PROVE  /\ c[1] \in DOMAIN Methods /\ c[1] # NoCall
           /\ Needed(Fields(Methods[c[1]].request)) \subseteq c[2]
           /\ c[2] \subseteq Names(Fields(Methods[c[1]].request))
<1> DEFINE Complete(m, set) ==
      /\ m \in DOMAIN Methods /\ m # NoCall
      /\ Needed(Fields(Methods[m].request)) \subseteq set
      /\ set \subseteq Names(Fields(Methods[m].request))
<1>1. /\ Fields("TSExecuteStatementReq") = TSExecuteStatementReq
      /\ Fields("TSInsertTabletReq") = TSInsertTabletReq
      /\ Fields("TSInsertTabletsReq") = TSInsertTabletsReq
      /\ Fields("TSFetchResultsReq") = TSFetchResultsReq
      /\ Fields("TSCloseOperationReq") = TSCloseOperationReq
      /\ Fields("TSOpenSessionReq") = TSOpenSessionReq
      /\ Fields("TSCloseSessionReq") = TSCloseSessionReq
      /\ Needed(Fields(NoStruct)) = {}
  BY DEF Fields, Structs, NoStruct, Needed, Names
<1>2. Complete("executeQueryStatementV2", QueryGives)
  <2>1. /\ "executeQueryStatementV2" \in DOMAIN Methods
        /\ Methods["executeQueryStatementV2"].request = "TSExecuteStatementReq"
    BY DEF Methods, ExecuteQueryStatementV2
  <2> QED
    BY <1>1, <2>1, RequestFields DEF NoCall, QueryGives
<1>3. Complete("executeUpdateStatementV2", UpdateGives)
  <2>1. /\ "executeUpdateStatementV2" \in DOMAIN Methods
        /\ Methods["executeUpdateStatementV2"].request = "TSExecuteStatementReq"
    BY DEF Methods, ExecuteUpdateStatementV2
  <2> QED
    BY <1>1, <2>1, RequestFields DEF NoCall, UpdateGives
<1>4. Complete("insertTablet", TreeTabletGives)
  <2>1. /\ "insertTablet" \in DOMAIN Methods
        /\ Methods["insertTablet"].request = "TSInsertTabletReq"
    BY DEF Methods, InsertTablet
  <2> QED
    BY <1>1, <2>1, RequestFields DEF NoCall, TreeTabletGives
<1>5. Complete("insertTablet", TableTabletGives)
  <2>1. /\ "insertTablet" \in DOMAIN Methods
        /\ Methods["insertTablet"].request = "TSInsertTabletReq"
    BY DEF Methods, InsertTablet
  <2> QED
    BY <1>1, <2>1, RequestFields DEF NoCall, TableTabletGives
<1>6. Complete("insertTablets", TabletsGives)
  <2>1. /\ "insertTablets" \in DOMAIN Methods
        /\ Methods["insertTablets"].request = "TSInsertTabletsReq"
    BY DEF Methods, InsertTablets
  <2> QED
    BY <1>1, <2>1, RequestFields DEF NoCall, TabletsGives
<1>7. Complete("fetchResultsV2", FetchGives)
  <2>1. /\ "fetchResultsV2" \in DOMAIN Methods
        /\ Methods["fetchResultsV2"].request = "TSFetchResultsReq"
    BY DEF Methods, FetchResultsV2
  <2> QED
    BY <1>1, <2>1, RequestFields DEF NoCall, FetchGives
<1>8. Complete("closeOperation", CloseOperationGives)
  <2>1. /\ "closeOperation" \in DOMAIN Methods
        /\ Methods["closeOperation"].request = "TSCloseOperationReq"
    BY DEF Methods, CloseOperation
  <2> QED
    BY <1>1, <2>1, RequestFields DEF NoCall, CloseOperationGives
<1>9. Complete("openSession", OpenGives)
  <2>1. /\ "openSession" \in DOMAIN Methods
        /\ Methods["openSession"].request = "TSOpenSessionReq"
    BY DEF Methods, OpenSession
  <2> QED
    BY <1>1, <2>1, RequestFields DEF NoCall, OpenGives
<1>10. Complete("closeSession", CloseSessionGives)
  <2>1. /\ "closeSession" \in DOMAIN Methods
        /\ Methods["closeSession"].request = "TSCloseSessionReq"
    BY DEF Methods, CloseSession
  <2> QED
    BY <1>1, <2>1, RequestFields DEF NoCall, CloseSessionGives
<1>11. Complete("requestStatementId", {})
  <2>1. /\ "requestStatementId" \in DOMAIN Methods
        /\ Methods["requestStatementId"].request = NoStruct
    BY DEF Methods, RequestStatementId
  <2> QED
    BY <1>1, <2>1, RequestFields DEF NoCall
<1> QED
  BY <1>2, <1>3, <1>4, <1>5, <1>6, <1>7, <1>8, <1>9, <1>10, <1>11 DEF ProgramCalls

LEMMA WireStart == WireInit => WireInv
<1> SUFFICES ASSUME WireInit PROVE WireInv
  OBVIOUS
<1>1. /\ step = "construct"
      /\ alien \in {"no", "more fields", "other type"}
  BY DEF WireInit
<1>2. CASE \E s \in DOMAIN Structs : call = NoCall /\ struct = s
  <2>1. PICK s \in DOMAIN Structs : call = NoCall /\ struct = s
    BY <1>2
  <2>2. Numbered(Structs[s]) /\ Numbered(<<>>)
    BY <2>1, TablesNumbered
  <2>3. Numbered(Fields(struct))
    BY <2>1, <2>2 DEF Fields
  <2> QED
    BY <1>1, <2>1, <2>3 DEF WireInv, Addressed, UnderWay, RoundTrip
<1>3. CASE \E c \in ProgramCalls :
              call = c[1] /\ struct = Methods[c[1]].request /\ given = c[2]
  <2>1. PICK c \in ProgramCalls : call = c[1] /\ struct = Methods[c[1]].request /\ given = c[2]
    BY <1>3
  <2>2. /\ call \in DOMAIN Methods /\ call # NoCall
        /\ Needed(Fields(struct)) \subseteq given
        /\ given \subseteq Names(Fields(struct))
    BY <2>1, CallsComplete
  <2>3. Numbered(Fields(struct))
    BY <2>1, <2>2, MethodTables
  <2> QED
    BY <1>1, <2>2, <2>3 DEF WireInv, Addressed, UnderWay, RoundTrip
<1> QED
  BY <1>2, <1>3 DEF WireInit

LEMMA SendKeeps == WireInv /\ Send => WireInv'
<1> SUFFICES ASSUME WireInv, Send PROVE WireInv'
  OBVIOUS
<1>1. UNCHANGED <<call, struct, given, alien, object>> /\ step = "construct"
  BY DEF Send
<1>2. CASE ~ (Needed(Fields(struct)) \subseteq given) /\ step' = "thrown"
  <2>1. call = NoCall
    BY <1>1, <1>2 DEF WireInv, Addressed
  <2> QED
    BY <1>1, <1>2, <2>1 DEF WireInv, Addressed, UnderWay, RoundTrip
<1>3. CASE /\ envelope' = Sealed("args")
           /\ message' = Written(Fields(struct), given)
           /\ step' = "sent"
  <2>1. Opens("args")'
    <3>1. call' = NoCall \/ (call' # NoCall /\ call \in DOMAIN Methods)
      BY <1>1 DEF WireInv, Addressed
    <3>2. envelope' = IF call' = NoCall THEN <<>>
                      ELSE Written(Methods[call'].frame["args"], Names(Methods[call'].frame["args"]))
      BY <1>1, <1>3 DEF Sealed, Around
    <3> QED
      BY <1>1, <3>1, <3>2, FrameOpens DEF Opens, Around
  <2> QED
    BY <1>1, <1>3, <2>1 DEF WireInv, Addressed, UnderWay, RoundTrip
<1> QED
  BY <1>2, <1>3 DEF Send

\* What is read of a message the reader knows only fields of its table of.
LEMMA SkewKeeps == WireInv /\ Skew => WireInv'
<1> SUFFICES ASSUME WireInv, Skew PROVE WireInv'
  OBVIOUS
<1> DEFINE F == Fields(struct)
           V == {OnWire(F[i]) : i \in 1..Len(F)}
<1>1. /\ UNCHANGED <<call, struct, given, alien, envelope, object>>
      /\ step = "sent" /\ step' = "arriving"
  BY DEF Skew
<1>2. message = Written(F, given) /\ Numbered(F) /\ (Opens("args") \/ Opens("result"))
  BY <1>1 DEF WireInv, Addressed, UnderWay
<1>3. message \in Seq(V) /\ Len(message) \in Nat /\ DOMAIN message = 1..Len(message)
  BY <1>2, WrittenFields, LenProperties
<1>4. /\ alien = "no" => message' = message
      /\ \A m \in ToSet(message') : Known(m) => m \in V
  <2>1. CASE alien = "no" /\ UNCHANGED message
    BY <1>3, <2>1, ToSetOfSeq
  <2>2. CASE alien = "more fields" /\ \E i \in 0..Len(message) :
               message' = InsertAt(message, i + 1, [id |-> 99, type |-> "STRING", value |-> "new"])
    <3> DEFINE e == [id |-> 99, type |-> "STRING", value |-> "new"]
               W == V \cup {e}
    <3>1. PICK i \in 0..Len(message) : message' = InsertAt(message, i + 1, e)
      BY <2>2
    <3> HIDE DEF V
    <3>2. message \in Seq(W)
      BY <1>3, SeqMonotonic
    <3>3. SubSeq(message, 1, (i + 1) - 1) \in Seq(W)
          /\ SubSeq(message, i + 1, Len(message)) \in Seq(W)
      <4>1. \A j \in 1..Len(message) : message[j] \in W
        BY <3>2, ElementOfSeq
      <4>2. \A a, b \in Int : (\A j \in a..b : message[j] \in W) => SubSeq(message, a, b) \in Seq(W)
        BY SubSeqProperties
      <4> QED
        BY <1>3, <4>1, <4>2
    <3>4. <<e>> \in Seq(W)
      BY OneElement
    <3>5. message' \in Seq(W)
      BY <3>1, <3>3, <3>4, ConcatProperties DEF InsertAt
    <3>6. ~ Known(e)
      BY DEF Known
    <3>7. ToSet(message') \subseteq W
      BY <3>5, ToSetOfSeq
    <3> HIDE DEF e
    <3> QED
      BY <2>2, <3>6, <3>7
  <2>3. CASE alien = "other type" /\ \E i \in DOMAIN message :
               message' = [message EXCEPT ![i].type = "changed"]
    <3>1. PICK i \in 1..Len(message) : message' = [message EXCEPT ![i].type = "changed"]
      BY <1>3, <2>3
    <3>2. DOMAIN message' = 1..Len(message)
      BY <1>3, <3>1
    <3>3. ASSUME NEW j \in 1..Len(message), Known(message'[j]) PROVE message'[j] \in V
      <4>1. message[j] \in V /\ message[i] \in V
        BY <1>3, ElementOfSeq
      <4>2. CASE j = i
        <5>1. message'[i] = [message[i] EXCEPT !.type = "changed"]
          BY <1>3, <3>1
        <5>2. message'[i].type = "changed"
          BY <4>1, <5>1 DEF OnWire
        <5> QED
          BY <3>3, <4>2, <5>2 DEF Known
      <4>3. CASE j # i
        BY <1>3, <3>1, <4>1, <4>3
      <4> QED
        BY <4>2, <4>3
    <3> HIDE DEF V
    <3> QED
      BY <2>3, <3>2, <3>3 DEF ToSet
  <2> QED
    BY <2>1, <2>2, <2>3 DEF Skew
<1>5. (Opens("args") \/ Opens("result"))'
  BY <1>1, <1>2 DEF Opens, Around
<1> QED
  BY <1>1, <1>2, <1>4, <1>5 DEF WireInv, Addressed, UnderWay, RoundTrip

\* What is read is what the message has of the table.
LEMMA ReceiveKeeps == WireInv /\ Receive => WireInv'
<1> SUFFICES ASSUME WireInv, Receive PROVE WireInv'
  OBVIOUS
<1> DEFINE F == Fields(struct)
           K == {k \in ToSet(message) : k.type # "changed" /\ k.id # 99}
<1>1. /\ UNCHANGED <<call, struct, given, alien, envelope, message>>
      /\ step = "arriving" /\ step' = "read"
  BY DEF Receive
<1>2. Numbered(F)
  BY DEF WireInv, Addressed
<1>3. object' = Decoded(F, message)
  BY <1>1 DEF Receive, WireInv, UnderWay
<1>4. object' = {<<m.value, m.value>> : m \in K}
  BY <1>1, <1>2, <1>3, DecodedFields DEF WireInv, UnderWay
<1>5. ASSUME alien = "no" PROVE Cardinality(object') = Cardinality(given \cap Names(F))
  <2>1. object' = {<<x, x>> : x \in given \cap Names(F)}
    BY <1>1, <1>2, <1>3, <1>5, DecodedWritten DEF WireInv, UnderWay
  <2>2. IsFiniteSet(given \cap Names(F))
    BY <1>2, NamesFinite, FS_Subset
  <2> QED
    BY <2>1, <2>2, PairsCardinality
<1> QED
  BY <1>1, <1>4, <1>5 DEF WireInv, Addressed, UnderWay, RoundTrip

LEMMA ReplyKeeps == WireInv /\ Reply => WireInv'
<1> SUFFICES ASSUME WireInv, Reply PROVE WireInv'
  OBVIOUS
<1>1. /\ UNCHANGED <<call, alien>> /\ call # NoCall
      /\ struct' = Methods[call].response
  BY DEF Reply
<1>2. call \in DOMAIN Methods
  BY <1>1 DEF WireInv, Addressed
<1>3. Numbered(Fields(struct'))
  BY <1>1, <1>2, MethodTables
<1> DEFINE F == Methods[call].frame["result"]
<1>4. /\ Decoded(F, Written(F, Names(F))) = {<<f, f>> : f \in Names(F)}
      /\ Decoded(F, Written(F, {})) # {<<f, f>> : f \in Names(F)}
  BY <1>2, FrameOpens
<1>5. /\ Around("result") = F /\ Around("result")' = F
      /\ Sealed("result") = Written(F, Names(F))
      /\ Opens("result")' <=> Decoded(F, envelope') = {<<f, f>> : f \in Names(F)}
  BY <1>1 DEF Around, Sealed, Opens
<1> HIDE DEF F
<1>6. CASE /\ envelope' = Sealed("result")
           /\ given' \in Arguments(Fields(struct'))
           /\ message' = Written(Fields(struct'), given')
           /\ step' = "sent"
  <2>1. Opens("result")'
    BY <1>4, <1>5, <1>6
  <2>2. given' \subseteq Names(Fields(struct'))
    BY <1>6 DEF Arguments, Needed
  <2> QED
    BY <1>1, <1>2, <1>3, <1>6, <2>1, <2>2 DEF WireInv, Addressed, UnderWay, RoundTrip
<1>7. CASE /\ envelope' = Written(Around("result"), {})
           /\ message' = <<>> /\ given' = {}
           /\ step' = "unknown result"
  <2>1. ~ Opens("result")'
    BY <1>4, <1>5, <1>7
  <2> QED
    BY <1>1, <1>2, <1>3, <1>7, <2>1 DEF WireInv, Addressed, UnderWay, RoundTrip
<1> QED
  BY <1>6, <1>7 DEF Reply

\* Every struct arrives on the other side with all the fields it was given that the
\* other side knows, under their names, whatever the version of the other side
\* (client_types.js, IClientRPCService.js).
THEOREM RoundTrips == WireSpec => []RoundTrip
<1>1. WireInit => WireInv
  BY WireStart
<1>2. WireInv /\ [WireNext]_wireVars => WireInv'
  <2>1. WireInv /\ WireNext => WireInv'
    BY SendKeeps, SkewKeeps, ReceiveKeeps, ReplyKeeps DEF WireNext
  <2>2. WireInv /\ UNCHANGED wireVars => WireInv'
    BY DEF WireInv, Addressed, UnderWay, RoundTrip, Opens, Around, wireVars
  <2> QED
    BY <2>1, <2>2
<1>3. WireInv => RoundTrip
  BY DEF WireInv
<1> QED
  BY <1>1, <1>2, <1>3, PTL DEF WireSpec

-----------------------------------------------------------------------------
(* Bytes *)

\* What a buffer consists of.
Cell == Int \X Nat \X Nat

\* Behind its first off bytes, the buffer has those of s.
Holds(buf, off, s) ==
    /\ off \in Nat /\ Len(buf) \in Nat /\ Len(s) \in Nat
    /\ off + Len(s) <= Len(buf)
    /\ \A k \in 1..Len(s) : buf[off + k] = s[k]

LEMMA HoldsSelf ==
    ASSUME NEW V, NEW s \in Seq(V)
    PROVE  Holds(s, 0, s)
<1>1. Len(s) \in Nat
  BY LenProperties
<1> QED
  BY <1>1 DEF Holds

LEMMA HoldsJoined ==
    ASSUME NEW V, NEW s \in Seq(V), NEW t \in Seq(V), NEW buf, NEW off,
           Holds(buf, off, s \o t)
    PROVE  Holds(buf, off, s) /\ Holds(buf, off + Len(s), t)
<1> DEFINE u == s \o t
           a == Len(s)
           b == Len(t)
           c == Len(buf)
<1>1. /\ a \in Nat /\ b \in Nat /\ Len(u) = a + b
      /\ \A j \in 1..a : u[j] = s[j]
      /\ \A k \in 1..b : u[a + k] = t[k]
  BY Concat DEF Joined
<1>2. /\ off \in Nat /\ c \in Nat /\ off + (a + b) <= c
      /\ \A k \in 1..(a + b) : buf[off + k] = u[k]
  BY <1>1 DEF Holds
<1> HIDE DEF u, a, b, c
<1>3. off + a \in Nat /\ off + a <= c /\ (off + a) + b <= c
  BY <1>1, <1>2
<1>4. \A k \in 1..a : buf[off + k] = s[k]
  BY <1>1, <1>2
<1>5. ASSUME NEW k \in 1..b PROVE buf[(off + a) + k] = t[k]
  <2>1. a + k \in 1..(a + b) /\ (off + a) + k = off + (a + k)
    BY <1>1, <1>2
  <2> QED
    BY <1>1, <1>2, <2>1
<1> QED
  BY <1>1, <1>2, <1>3, <1>4, <1>5 DEF Holds, a, b, c

LEMMA HoldsPieces ==
    ASSUME NEW pieces, NEW s, NEW at, Laid(s, pieces, at), Len(pieces) \in Nat,
           \A i \in 1..Len(pieces) : Len(pieces[i]) \in Nat,
           NEW buf, NEW off, Holds(buf, off, s)
    PROVE  /\ \A i \in 0..Len(pieces) : at[i] \in Nat
           /\ \A i \in 1..Len(pieces) : Holds(buf, off + at[i - 1], pieces[i])
<1> DEFINE n == Len(pieces)
           b == Len(s)
           c == Len(buf)
           len == [i \in 1..n |-> Len(pieces[i])]
<1>1. /\ off \in Nat /\ b \in Nat /\ c \in Nat /\ off + b <= c
      /\ \A k \in 1..b : buf[off + k] = s[k]
  BY DEF Holds
<1>2. n \in Nat /\ \A i \in 1..n : len[i] = Len(pieces[i]) /\ len[i] \in Nat
  OBVIOUS
<1>3. /\ \A i \in 0..n : at[i] \in Nat
      /\ \A i \in 1..n : /\ at[i] = at[i - 1] + Len(pieces[i]) /\ at[i] <= b
                         /\ \A k \in 1..Len(pieces[i]) : s[at[i - 1] + k] = pieces[i][k]
  BY DEF Laid
<1>4. \A i \in 1..n : /\ at[i] = at[i - 1] + len[i] /\ at[i] <= b
                     /\ \A k \in 1..len[i] : s[at[i - 1] + k] = pieces[i][k]
  BY <1>2, <1>3
<1> HIDE DEF n, b, c, len
<1>5. ASSUME NEW i \in 1..n PROVE Holds(buf, off + at[i - 1], pieces[i])
  <2>1. i - 1 \in 0..n /\ at[i - 1] \in Nat /\ len[i] \in Nat
    BY <1>2, <1>3
  <2>2. off + at[i - 1] \in Nat /\ (off + at[i - 1]) + len[i] <= c
    <3> DEFINE a == at[i - 1]
               l == len[i]
    <3>1. a \in Nat /\ l \in Nat /\ a + l <= b
      BY <1>4, <2>1
    <3>2. off \in Nat /\ b \in Nat /\ c \in Nat /\ off + b <= c
      BY <1>1
    <3> HIDE DEF a, l
    <3>3. off + a \in Nat /\ (off + a) + l <= c
      BY <3>1, <3>2
    <3> QED
      BY <3>3 DEF a, l
  <2>3. ASSUME NEW k \in 1..len[i] PROVE buf[(off + at[i - 1]) + k] = pieces[i][k]
    <3>1. at[i] = at[i - 1] + len[i] /\ at[i] <= b /\ s[at[i - 1] + k] = pieces[i][k]
      BY <1>4
    <3>2. at[i - 1] + k \in 1..b /\ (off + at[i - 1]) + k = off + (at[i - 1] + k)
      <4> DEFINE a == at[i - 1]
                 l == len[i]
      <4>1. a \in Nat /\ l \in Nat /\ a + l <= b /\ k \in 1..l
        BY <2>1, <3>1
      <4>2. off \in Nat /\ b \in Nat
        BY <1>1
      <4> HIDE DEF a, l
      <4>3. a + k \in 1..b /\ (off + a) + k = off + (a + k)
        BY <4>1, <4>2
      <4> QED
        BY <4>3 DEF a
    <3> QED
      BY <1>1, <3>1, <3>2
  <2> QED
    BY <1>1, <1>2, <2>2, <2>3 DEF Holds, c
<1> QED
  BY <1>3, <1>5 DEF n

\* Bytes that are put at some place are got from there.
LEMMA PutBytes ==
    ASSUME NEW v \in Int, NEW w \in Nat
    PROVE  /\ Put(v, w) \in Seq(Cell) /\ Len(Put(v, w)) = w
           /\ \A k \in 1..w : Put(v, w)[k] = <<v, k, w>>
BY DEF Put, Cell

LEMMA GetPut ==
    ASSUME NEW v \in Int, NEW w \in Nat, w >= 1, NEW buf, NEW off, Holds(buf, off, Put(v, w))
    PROVE  Get(buf, off, w) = v
<1>1. off \in Nat /\ off + w <= Len(buf) /\ \A k \in 1..w : buf[off + k] = <<v, k, w>>
  BY PutBytes DEF Holds
<1>2. 1 \in 1..w /\ off >= 0
  BY <1>1
<1>3. buf[off + 1][1] = v
  BY <1>1, <1>2
<1> QED
  BY <1>1, <1>2, <1>3 DEF Get

LEMMA PutLEBytes ==
    ASSUME NEW v \in Int
    PROVE  /\ PutLE(v, 8) \in Seq(Cell) /\ Len(PutLE(v, 8)) = 8
           /\ \A k \in 1..8 : PutLE(v, 8)[k] = <<v, 9 - k, 8>>
<1>1. \A k \in 1..8 : 8 + 1 - k \in Nat /\ 8 + 1 - k = 9 - k
  OBVIOUS
<1> QED
  BY <1>1 DEF PutLE, Cell

LEMMA GetPutLE ==
    ASSUME NEW v \in Int, NEW buf, NEW off, Holds(buf, off, PutLE(v, 8))
    PROVE  GetLE(buf, off, 8) = v
<1>1. off \in Nat /\ off + 8 <= Len(buf) /\ \A k \in 1..8 : buf[off + k] = <<v, 9 - k, 8>>
  BY PutLEBytes DEF Holds
<1>2. off >= 0 /\ \A k \in 1..8 : 8 + 1 - k = 9 - k
  BY <1>1
<1>3. buf[off + 1][1] = v
  BY <1>1
<1> QED
  BY <1>1, <1>2, <1>3 DEF GetLE

\* What is written for a value of a type: a text has a length.
NumbersOf(type) == IF type \in Texts THEN Nat ELSE Int

LEMMA WidthOf ==
    ASSUME NEW type
    PROVE  Width(type) \in {1, 4, 8}
BY DEF Width

LEMMA ItemBytes ==
    ASSUME NEW type, NEW v \in NumbersOf(type)
    PROVE  /\ PutItem(type, v) \in Seq(Cell)
           /\ Len(PutItem(type, v)) = SizeOf(type, v)
           /\ SizeOf(type, v) \in Nat /\ SizeOf(type, v) >= 1
<1>1. CASE type \in Texts
  <2>1. v \in Nat /\ v \in Int /\ 4 \in Nat
    BY <1>1 DEF NumbersOf
  <2>2. /\ Put(v, 4) \in Seq(Cell) /\ Len(Put(v, 4)) = 4
        /\ Put(v, v) \in Seq(Cell) /\ Len(Put(v, v)) = v
    BY <2>1, PutBytes
  <2>3. Joined(Cell, Put(v, 4), Put(v, v), PutText(v))
    BY <2>2, Concat DEF PutText
  <2>4. PutItem(type, v) = PutText(v) /\ SizeOf(type, v) = 4 + v
    BY <1>1 DEF PutItem, SizeOf
  <2>5. PutText(v) \in Seq(Cell) /\ Len(PutText(v)) = Len(Put(v, 4)) + Len(Put(v, v))
    BY <2>3 DEF Joined
  <2>6. 4 + v \in Nat /\ 4 + v >= 1
    BY <2>1
  <2> QED
    BY <2>2, <2>4, <2>5, <2>6
<1>2. CASE type \notin Texts
  <2>1. v \in Int
    BY <1>2 DEF NumbersOf
  <2>2. PutItem(type, v) = Put(v, Width(type)) /\ SizeOf(type, v) = Width(type)
    BY <1>2 DEF PutItem, SizeOf
  <2>3. Width(type) \in Nat /\ Width(type) >= 1
    BY WidthOf
  <2> QED
    BY <2>1, <2>2, <2>3, PutBytes
<1> QED
  BY <1>1, <1>2

LEMMA GetPutItem ==
    ASSUME NEW type, NEW v \in NumbersOf(type),
           NEW buf, NEW off, Holds(buf, off, PutItem(type, v))
    PROVE  GetItem(type, buf, off) = v
<1>1. CASE type \in Texts
  <2>1. v \in Nat /\ v \in Int /\ 4 \in Nat /\ v # Garbage
    BY <1>1 DEF NumbersOf, Garbage
  <2>2. /\ Put(v, 4) \in Seq(Cell) /\ Len(Put(v, 4)) = 4
        /\ Put(v, v) \in Seq(Cell)
    BY <2>1, PutBytes
  <2>3. Holds(buf, off, Put(v, 4) \o Put(v, v))
    BY <1>1 DEF PutItem, PutText
  <2>4. Holds(buf, off, Put(v, 4)) /\ Holds(buf, off + 4, Put(v, v))
    BY <2>2, <2>3, HoldsJoined
  <2>5. Get(buf, off, 4) = v
    BY <2>1, <2>4, GetPut
  <2>6. v = 0 \/ Get(buf, off + 4, v) = v
    BY <2>1, <2>4, GetPut
  <2>7. GetItem(type, buf, off) = GetText(buf, off)
    BY <1>1 DEF GetItem
  <2> QED
    BY <2>1, <2>5, <2>6, <2>7 DEF GetText
<1>2. CASE type \notin Texts
  <2>1. v \in Int
    BY <1>2 DEF NumbersOf
  <2>2. /\ PutItem(type, v) = Put(v, Width(type))
        /\ GetItem(type, buf, off) = Get(buf, off, Width(type))
    BY <1>2 DEF PutItem, GetItem
  <2>3. Width(type) \in Nat /\ Width(type) >= 1
    BY WidthOf
  <2> QED
    BY <2>1, <2>2, <2>3, GetPut
<1> QED
  BY <1>1, <1>2

\* The bytes of the items of a column, row by row, without the rows in skip.
Pieces(type, values, n, skip) ==
    [i \in 1..n |-> IF i \in skip THEN <<>> ELSE PutItem(type, values[i])]

\* The values that are not skipped can be written.
Writable(type, values, n, skip) == \A i \in 1..n : i \notin skip => values[i] \in NumbersOf(type)

LEMMA PiecesBytes ==
    ASSUME NEW type, NEW n \in Nat, NEW values, NEW skip, Writable(type, values, n, skip)
    PROVE  /\ Pieces(type, values, n, skip) \in Seq(Seq(Cell))
           /\ Len(Pieces(type, values, n, skip)) = n
           /\ \A i \in 1..n : /\ Len(Pieces(type, values, n, skip)[i]) \in Nat
                              /\ Pieces(type, values, n, skip)[i] =
                                   IF i \in skip THEN <<>> ELSE PutItem(type, values[i])
<1> DEFINE P == Pieces(type, values, n, skip)
<1>1. /\ DOMAIN P = 1..n
      /\ P = [i \in 1..n |-> P[i]]
      /\ \A i \in 1..n : P[i] = IF i \in skip THEN <<>> ELSE PutItem(type, values[i])
  BY DEF Pieces
<1> HIDE DEF P
<1>2. \A i \in 1..n : P[i] \in Seq(Cell)
  <2> TAKE i \in 1..n
  <2>1. CASE i \in skip
    BY <1>1, <2>1, EmptySeq
  <2>2. CASE i \notin skip
    BY <1>1, <2>2, ItemBytes DEF Writable
  <2> QED
    BY <2>1, <2>2
<1>3. P \in Seq(Seq(Cell)) /\ Len(P) = n
  BY <1>1, <1>2
<1>4. \A i \in 1..n : Len(P[i]) \in Nat
  BY <1>2, LenProperties
<1> QED
  BY <1>1, <1>3, <1>4 DEF P

\* Items reads the values of the rows that are not in skip, and ends behind them.
ItemsAre(type, buf, off, n, values, skip) ==
    /\ Items(type, buf, off, n, skip).values =
         [i \in 1..n |-> IF i \in skip THEN Null ELSE values[i]]
    /\ Items(type, buf, off, n, skip).off = off + Len(FlattenSeq(Pieces(type, values, n, skip)))

LEMMA ItemsRead ==
    ASSUME NEW type, NEW n \in Nat, NEW values, NEW skip, Writable(type, values, n, skip),
           NEW buf, NEW off, Holds(buf, off, FlattenSeq(Pieces(type, values, n, skip)))
    PROVE  ItemsAre(type, buf, off, n, values, skip)
<1> DEFINE P == Pieces(type, values, n, skip)
           s == FlattenSeq(P)
<1>1. /\ P \in Seq(Seq(Cell)) /\ Len(P) = n
      /\ \A i \in 1..n : /\ Len(P[i]) \in Nat
                         /\ P[i] = IF i \in skip THEN <<>> ELSE PutItem(type, values[i])
  BY PiecesBytes
<1> HIDE DEF P
<1>2. s \in Seq(Cell) /\ \E at : Laid(s, P, at)
  BY <1>1, FlattenParts
<1>3. PICK p : Laid(s, P, p)
  BY <1>2
<1>4. Holds(buf, off, s)
  BY DEF P
<1> HIDE DEF s
<1>5. /\ \A i \in 0..n : p[i] \in Nat
      /\ \A i \in 1..n : Holds(buf, off + p[i - 1], P[i])
  BY <1>1, <1>3, <1>4, HoldsPieces
<1>6. /\ p[0] = 0 /\ p[n] = Len(s) /\ off \in Nat
      /\ \A i \in 1..n : p[i] = p[i - 1] + Len(P[i])
  BY <1>1, <1>3, <1>4 DEF Laid, Holds
<1>7. \A i \in 1..n :
         /\ i \in skip => p[i] = p[i - 1]
         /\ i \notin skip =>
              /\ GetItem(type, buf, off + p[i - 1]) = values[i]
              /\ p[i] = p[i - 1] + SizeOf(type, values[i])
              /\ SizeOf(type, values[i]) \in Nat
  <2> TAKE i \in 1..n
  <2>1. p[i - 1] \in Nat
    BY <1>5
  <2>2. ASSUME i \in skip PROVE p[i] = p[i - 1]
    <3>1. Len(P[i]) = 0
      BY <1>1, <2>2
    <3> QED
      BY <1>6, <2>1, <3>1
  <2>3. ASSUME i \notin skip
        PROVE  /\ GetItem(type, buf, off + p[i - 1]) = values[i]
               /\ p[i] = p[i - 1] + SizeOf(type, values[i])
               /\ SizeOf(type, values[i]) \in Nat
    <3>1. P[i] = PutItem(type, values[i]) /\ values[i] \in NumbersOf(type)
      BY <1>1, <2>3 DEF Writable
    <3>2. Len(P[i]) = SizeOf(type, values[i]) /\ SizeOf(type, values[i]) \in Nat
      BY <3>1, ItemBytes
    <3>3. Holds(buf, off + p[i - 1], PutItem(type, values[i]))
      BY <1>5, <3>1
    <3> QED
      BY <1>6, <3>1, <3>2, <3>3, GetPutItem
  <2> QED
    BY <2>2, <2>3
<1> DEFINE Next(here, i) == IF i \in skip THEN here
                            ELSE here + SizeOf(type, GetItem(type, buf, here))
           Is(at) == at = [i \in 0..n |-> IF i = 0 THEN off
                                           ELSE LET here == at[i - 1]
                                                IN  IF i \in skip THEN here
                                                    ELSE here + SizeOf(type, GetItem(type, buf, here))]
           chosen == CHOOSE at : Is(at)
           f == [i \in 0..n |-> off + p[i]]
<1>8. Is(f)
  <2>1. f[0] = off
    BY <1>6
  <2>2. ASSUME NEW i \in 1..n PROVE f[i] = Next(f[i - 1], i)
    <3>1. i \in 0..n /\ i - 1 \in 0..n
      OBVIOUS
    <3>2. f[i] = off + p[i] /\ f[i - 1] = off + p[i - 1] /\ p[i - 1] \in Nat
      BY <1>5, <3>1
    <3> HIDE DEF f
    <3> QED
      BY <1>6, <1>7, <3>2
  <2> QED
    BY <2>1, <2>2
<1>9. Is(chosen)
  <2> HIDE DEF Is, f
  <2> QED
    BY <1>8
<1>10. /\ chosen[0] = off
       /\ \A i \in 1..n : chosen[i] = Next(chosen[i - 1], i)
  <2> HIDE DEF chosen
  <2> QED
    BY <1>9
<1>11. f[0] = off /\ \A i \in 1..n : f[i] = Next(f[i - 1], i)
  <2> HIDE DEF f
  <2> QED
    BY <1>8
<1>12. Items(type, buf, off, n, skip) =
         [values |-> [i \in 1..n |-> IF i \in skip THEN Null
                                      ELSE GetItem(type, buf, chosen[i - 1])],
          off    |-> chosen[n]]
  BY DEF Items
<1>13. \A i \in 0..n : chosen[i] = off + p[i]
  <2>1. \A i \in 0..n : chosen[i] = f[i]
    <3> HIDE DEF chosen, f, Is
    <3>1. \A i \in 1..n : chosen[i - 1] = f[i - 1] => chosen[i] = f[i]
      <4> HIDE DEF Next
      <4> QED
        BY <1>10, <1>11
    <3> QED
      BY <1>10, <1>11, <3>1, SameSteps
  <2>2. \A i \in 0..n : f[i] = off + p[i]
    OBVIOUS
  <2> HIDE DEF chosen, f
  <2> QED
    BY <2>1, <2>2
<1> HIDE DEF chosen, f, Next, Is
<1>14. chosen[n] = off + Len(s)
  <2>1. n \in 0..n
    OBVIOUS
  <2> QED
    BY <1>6, <1>13, <2>1
<1>15. [i \in 1..n |-> IF i \in skip THEN Null ELSE GetItem(type, buf, chosen[i - 1])] =
       [i \in 1..n |-> IF i \in skip THEN Null ELSE values[i]]
  <2>1. ASSUME NEW i \in 1..n, i \notin skip
        PROVE  GetItem(type, buf, chosen[i - 1]) = values[i]
    <3>1. chosen[i - 1] = off + p[i - 1]
      BY <1>13
    <3> QED
      BY <1>7, <2>1, <3>1
  <2> QED
    BY <2>1
<1>16. /\ Items(type, buf, off, n, skip).values =
           [i \in 1..n |-> IF i \in skip THEN Null ELSE values[i]]
       /\ Items(type, buf, off, n, skip).off = off + Len(s)
  BY <1>12, <1>14, <1>15
<1> QED
  BY <1>16 DEF s, P, ItemsAre

-----------------------------------------------------------------------------
(* Bits *)

\* The bits of s, from the lowest one.
IsBits(s, a1, a2, a3, a4, a5, a6, a7, a8) ==
    /\ s \in Nat
    /\ (s \div 1) % 2 = a1 /\ (s \div 2) % 2 = a2
    /\ (s \div 4) % 2 = a3 /\ (s \div 8) % 2 = a4
    /\ (s \div 16) % 2 = a5 /\ (s \div 32) % 2 = a6
    /\ (s \div 64) % 2 = a7 /\ (s \div 128) % 2 = a8

\* A sum of eight weighted bits shows each of them.
LEMMA EightBits ==
    ASSUME NEW a1 \in {0, 1}, NEW a2 \in {0, 1}, NEW a3 \in {0, 1}, NEW a4 \in {0, 1},
           NEW a5 \in {0, 1}, NEW a6 \in {0, 1}, NEW a7 \in {0, 1}, NEW a8 \in {0, 1},
           NEW s, s = a1 + 2 * a2 + 4 * a3 + 8 * a4 + 16 * a5 + 32 * a6 + 64 * a7 + 128 * a8
    PROVE  IsBits(s, a1, a2, a3, a4, a5, a6, a7, a8)
BY DEF IsBits

\* A byte of a bitmap shows its rows, in either order.
LEMMA ByteShows ==
    ASSUME NEW rows, NEW b \in Int, NEW weights \in {LowFirst, HighFirst}
    PROVE  /\ Byte(rows, b, weights) \in Nat
           /\ \A k \in 1..8 :
                (Byte(rows, b, weights) \div weights[k]) % 2 = 1 <=> 8 * (b - 1) + k \in rows
<1> DEFINE a(k) == IF 8 * (b - 1) + k \in rows THEN 1 ELSE 0
           s == Byte(rows, b, weights)
<1>1. \A k \in 1..8 : a(k) \in {0, 1} /\ (a(k) = 1 <=> 8 * (b - 1) + k \in rows)
  OBVIOUS
<1>2. CASE weights = LowFirst
  <2>1. s = a(1) + 2 * a(2) + 4 * a(3) + 8 * a(4) + 16 * a(5) + 32 * a(6) + 64 * a(7) + 128 * a(8)
    BY <1>2 DEF Byte, LowFirst
  <2>0. /\ a(1) \in {0, 1} /\ a(2) \in {0, 1} /\ a(3) \in {0, 1} /\ a(4) \in {0, 1}
        /\ a(5) \in {0, 1} /\ a(6) \in {0, 1} /\ a(7) \in {0, 1} /\ a(8) \in {0, 1}
    OBVIOUS
  <2> HIDE DEF a, s
  <2>2. IsBits(s, a(1), a(2), a(3), a(4), a(5), a(6), a(7), a(8))
    BY <2>0, <2>1, EightBits
  <2>3. \A k \in 1..8 : (s \div weights[k]) % 2 = a(k)
    BY <1>2, <2>2 DEF LowFirst, IsBits
  <2> QED
    BY <1>1, <2>2, <2>3 DEF s, IsBits
<1>3. CASE weights = HighFirst
  <2>1. s = a(8) + 2 * a(7) + 4 * a(6) + 8 * a(5) + 16 * a(4) + 32 * a(3) + 64 * a(2) + 128 * a(1)
    BY <1>3 DEF Byte, HighFirst
  <2>0. /\ a(1) \in {0, 1} /\ a(2) \in {0, 1} /\ a(3) \in {0, 1} /\ a(4) \in {0, 1}
        /\ a(5) \in {0, 1} /\ a(6) \in {0, 1} /\ a(7) \in {0, 1} /\ a(8) \in {0, 1}
    OBVIOUS
  <2> HIDE DEF a, s
  <2>2. IsBits(s, a(8), a(7), a(6), a(5), a(4), a(3), a(2), a(1))
    BY <2>0, <2>1, EightBits
  <2>3. \A k \in 1..8 : (s \div weights[k]) % 2 = a(k)
    BY <1>3, <2>2 DEF HighFirst, IsBits
  <2> QED
    BY <1>1, <2>2, <2>3 DEF s, IsBits
<1> QED
  BY <1>2, <1>3

\* A bitmap has a byte for eight rows.
LEMMA BitmapBytes ==
    ASSUME NEW rows, NEW n \in Nat, NEW weights \in {LowFirst, HighFirst}
    PROVE  /\ ByteCount(n) \in Nat /\ n <= 8 * ByteCount(n)
           /\ ByteCount(n) = 0 <=> n = 0
           /\ Bits(rows, n, weights) \in Seq(Cell)
           /\ Len(Bits(rows, n, weights)) = ByteCount(n)
<1>1. ByteCount(n) \in Nat /\ n <= 8 * ByteCount(n) /\ (ByteCount(n) = 0 <=> n = 0)
  BY DEF ByteCount
<1>2. \A b \in 1..ByteCount(n) : <<Byte(rows, b, weights), 1, 1>> \in Cell
  BY <1>1, ByteShows DEF Cell
<1> QED
  BY <1>1, <1>2 DEF Bits

\* The rows of a bitmap are read back.
LEMMA BitsRead ==
    ASSUME NEW rows, NEW n \in Nat, NEW weights \in {LowFirst, HighFirst},
           NEW buf, NEW off, Holds(buf, off, Bits(rows, n, weights)),
           NEW m \in Nat, m <= 8 * ByteCount(n)
    PROVE  RowsSet(buf, off, m, weights) = {i \in 1..m : i \in rows}
<1> DEFINE c == ByteCount(n)
<1>1. c \in Nat /\ Len(Bits(rows, n, weights)) = c
  BY BitmapBytes
<1>2. /\ off \in Nat /\ Len(buf) \in Nat /\ off + c <= Len(buf)
      /\ \A b \in 1..c : buf[off + b] = <<Byte(rows, b, weights), 1, 1>>
  BY <1>1 DEF Holds, Bits
<1> HIDE DEF c
<1>3. ASSUME NEW b \in 1..c PROVE Get(buf, off + (b - 1), 1) = Byte(rows, b, weights)
  <2>1. /\ off + (b - 1) >= 0 /\ (off + (b - 1)) + 1 <= Len(buf)
        /\ (off + (b - 1)) + 1 = off + b
    BY <1>1, <1>2
  <2>2. buf[off + b] = <<Byte(rows, b, weights), 1, 1>>
    BY <1>2
  <2>3. \A k \in 1..1 : k = 1
    OBVIOUS
  <2>4. \A k \in 1..1 : buf[(off + (b - 1)) + k] = <<buf[(off + (b - 1)) + 1][1], k, 1>>
    BY <2>1, <2>2, <2>3
  <2> QED
    BY <2>1, <2>2, <2>4 DEF Get
<1>4. ASSUME NEW i \in 1..m
      PROVE  (Get(buf, off + (i - 1) \div 8, 1) \div weights[1 + ((i - 1) % 8)]) % 2 = 1
                 <=> i \in rows
  <2> DEFINE b == 1 + (i - 1) \div 8
             k == 1 + ((i - 1) % 8)
  <2>1. /\ b \in 1..c /\ b \in Int /\ k \in 1..8 /\ 8 * (b - 1) + k = i
        /\ (i - 1) \div 8 = b - 1
    BY <1>1 DEF c
  <2> HIDE DEF b
  <2>2. Get(buf, off + (b - 1), 1) = Byte(rows, b, weights)
    BY <1>3, <2>1
  <2>3. (Byte(rows, b, weights) \div weights[k]) % 2 = 1 <=> 8 * (b - 1) + k \in rows
    <3> HIDE DEF k
    <3> QED
      BY <2>1, ByteShows
  <2> QED
    BY <2>1, <2>2, <2>3
<1> QED
  BY <1>4 DEF RowsSet

-----------------------------------------------------------------------------
(* Tablets *)

LEMMA MinOf ==
    ASSUME NEW S, S \subseteq Nat, S # {}
    PROVE  Min(S) \in S
<1> DEFINE R == OpToRel(<, Nat)
<1>1. IsWellFoundedOn(R, Nat)
  BY NatLessThanWellFounded
<1>2. \A x, y \in Nat : y < x => <<y, x>> \in R
  BY DEF OpToRel
<1> HIDE DEF R
<1>3. PICK x \in S : \A y \in S : ~ (<<y, x>> \in R)
  BY <1>1, WFMin
<1>4. ASSUME NEW y \in S PROVE x <= y
  <2>1. x \in Nat /\ y \in Nat
    OBVIOUS
  <2>2. ~ (y < x)
    BY <1>2, <1>3, <2>1
  <2> QED
    BY <2>1, <2>2
<1> QED
  BY <1>4 DEF Min

\* A buffer of the pool is as long as what is asked for, or longer.
LEMMA AcquiredFits ==
    ASSUME NEW n \in Nat, NEW hit \in BOOLEAN
    PROVE  Acquired(n, hit) \in Nat /\ Acquired(n, hit) >= n
<1> DEFINE fitting == {c \in SizeClasses : n <= c}
<1>1. fitting \subseteq Nat
  BY PoolAssumption
<1>2. CASE fitting = {}
  BY <1>2 DEF Acquired, SizeClass
<1>3. CASE fitting # {}
  <2>1. Min(fitting) \in fitting
    BY <1>1, <1>3, MinOf
  <2>2. SizeClass(n) = Min(fitting)
    BY <1>3 DEF SizeClass
  <2> QED
    BY <1>1, <2>1, <2>2 DEF Acquired
<1> QED
  BY <1>2, <1>3

\* Whatever buffer they are written into, the bytes are the same.
LEMMA PooledSame ==
    ASSUME NEW cells \in Seq(Cell), NEW hit \in BOOLEAN
    PROVE  InPooled(cells, hit) = cells
<1> DEFINE size  == Len(cells)
           taken == IF size >= PoolFrom THEN Acquired(size, hit) ELSE size
           buf   == [k \in 1..taken |-> IF k <= size THEN cells[k] ELSE Dirty(taken)[k]]
<1>1. size \in Nat
  BY LenProperties
<1>2. taken \in Nat /\ taken >= size
  BY <1>1, AcquiredFits
<1>3. InPooled(cells, hit) = SubSeq(buf, 1, size)
  BY DEF InPooled, Cut
<1>4. \A k \in 1..size : cells[k] \in Cell
  BY ElementOfSeq
<1> HIDE DEF taken
<1>5. \A k \in 1..size : buf[k] = cells[k]
  BY <1>1, <1>2
<1> HIDE DEF buf
<1>6. \A k \in 1..size : buf[k] \in Cell
  BY <1>4, <1>5
<1>7. /\ SubSeq(buf, 1, size) \in Seq(Cell)
      /\ Len(SubSeq(buf, 1, size)) = size
      /\ \A k \in 1..size : SubSeq(buf, 1, size)[k] = cells[k]
  <2>1. /\ SubSeq(buf, 1, size) \in Seq(Cell)
        /\ Len(SubSeq(buf, 1, size)) = IF 1 <= size THEN size - 1 + 1 ELSE 0
        /\ \A k \in 1..(size - 1 + 1) : SubSeq(buf, 1, size)[k] = buf[1 + k - 1]
    <3> HIDE DEF size
    <3> QED
      BY <1>1, <1>6, SubSeqProperties
  <2>2. \A k \in 1..size : k \in 1..(size - 1 + 1) /\ 1 + k - 1 = k
    BY <1>1
  <2> HIDE DEF size
  <2> QED
    BY <1>1, <1>5, <2>1, <2>2
<1> QED
  BY <1>3, <1>7, SeqEqual

\* The fast serializer writes the same bytes.
LEMMA FastSame ==
    ASSUME NEW type, NEW numbers, SerializeColumn(type, numbers) \in Seq(Cell),
           NEW hit \in BOOLEAN
    PROVE  SerializeColumnFast(type, numbers, hit) = SerializeColumn(type, numbers)
BY PooledSame DEF SerializeColumnFast

\* The numbers that are written for column c of a tablet, and the bytes of all columns.
ColumnNumbers(tablet, c) == Numbers(tablet.types[c], tablet.dates, tablet.columns[c])
ColumnBytes(tablet) ==
    [c \in 1..Len(tablet.types) |->
        FlattenSeq(Pieces(tablet.types[c], ColumnNumbers(tablet, c), Len(tablet.times), {}))]
MapBytes(tablet) ==
    [c \in 1..Len(tablet.types) |-> SerializeBitMap(tablet.columns[c], Len(tablet.times))]

\* Every value has a number.
LEMMA StoredNumber ==
    ASSUME NEW type, NEW dates \in BOOLEAN, NEW v \in ValuesOf(type) \cup {Null}
    PROVE  /\ Stored(type, dates, v) \in NumbersOf(type)
           /\ v # Null /\ ~ (type = Date /\ dates) => Stored(type, dates, v) = v
           /\ v # Null /\ type = Date /\ dates =>
                /\ Stored(type, dates, v) * Day <= v
                /\ v < (Stored(type, dates, v) + 1) * Day
<1>1. CASE v = Null
  BY <1>1 DEF Stored, NumbersOf
<1>2. CASE v # Null /\ ~ (type = Date /\ dates)
  <2>1. v \in NumbersOf(type)
    BY <1>2 DEF ValuesOf, NumbersOf, Texts, Boolean
  <2> QED
    BY <1>2, <2>1 DEF Stored
<1>3. CASE v # Null /\ type = Date /\ dates
  <2> DEFINE d == v \div Day
  <2>1. v \in Int /\ Day \in Nat \ {0}
    BY <1>3, NumberAssumption DEF ValuesOf, Date, Texts, Boolean
  <2>2. d \in Int /\ d * Day <= v /\ v < (d + 1) * Day
    BY <2>1
  <2> HIDE DEF d
  <2>3. Stored(type, dates, v) = d
    BY <1>3 DEF Stored, DaysOf, d
  <2>4. d \in NumbersOf(type)
    BY <1>3, <2>2 DEF NumbersOf, Date, Texts
  <2> QED
    BY <1>3, <2>2, <2>3, <2>4
<1> QED
  BY <1>1, <1>2, <1>3

\* The pieces are in the buffer behind its first off bytes, piece i behind the first at[i - 1].
Placed(buf, off, pieces, at) ==
    /\ at \in [0..Len(pieces) -> Nat]
    /\ at[0] = off
    /\ at[Len(pieces)] = off + Len(FlattenSeq(pieces))
    /\ \A i \in 1..Len(pieces) :
         /\ Len(pieces[i]) \in Nat
         /\ at[i] = at[i - 1] + Len(pieces[i])
         /\ Holds(buf, at[i - 1], pieces[i])

LEMMA PartsPlaced ==
    ASSUME NEW pieces \in Seq(Seq(Cell)), NEW buf, NEW off,
           Holds(buf, off, FlattenSeq(pieces))
    PROVE  \E at : Placed(buf, off, pieces, at)
<1> DEFINE n == Len(pieces)
           s == FlattenSeq(pieces)
<1>1. n \in Nat /\ \A i \in 1..n : Len(pieces[i]) \in Nat
  BY LenProperties, ElementOfSeq
<1>2. PICK p : Laid(s, pieces, p)
  BY FlattenParts
<1>3. /\ \A i \in 0..n : p[i] \in Nat
      /\ \A i \in 1..n : Holds(buf, off + p[i - 1], pieces[i])
  BY <1>1, <1>2, HoldsPieces
<1>4. /\ p[0] = 0 /\ p[n] = Len(s) /\ off \in Nat
      /\ \A i \in 1..n : p[i] = p[i - 1] + Len(pieces[i])
  BY <1>2 DEF Laid, Holds
<1> DEFINE at == [i \in 0..n |-> off + p[i]]
<1> HIDE DEF n
<1>5. at \in [0..n -> Nat] /\ \A i \in 0..n : at[i] = off + p[i]
  BY <1>3, <1>4
<1>6. 0 \in 0..n /\ n \in 0..n /\ \A i \in 1..n : i \in 0..n /\ i - 1 \in 0..n
  BY <1>1
<1> HIDE DEF at, s
<1>7. at[0] = off /\ at[n] = off + Len(s)
  <2>1. at[0] = off + p[0] /\ at[n] = off + p[n]
    BY <1>5, <1>6
  <2> QED
    BY <1>4, <2>1
<1>8. ASSUME NEW i \in 1..n
      PROVE  at[i] = at[i - 1] + Len(pieces[i]) /\ Holds(buf, at[i - 1], pieces[i])
  <2>1. at[i] = off + p[i] /\ at[i - 1] = off + p[i - 1] /\ p[i - 1] \in Nat
    BY <1>3, <1>5, <1>6
  <2> QED
    BY <1>1, <1>3, <1>4, <2>1
<1>9. Placed(buf, off, pieces, at)
  BY <1>1, <1>5, <1>7, <1>8 DEF Placed, n, s
<1> QED
  BY <1>9

\* A flag, and a bitmap when there is something in it.
Flagged(rows, n, weights) ==
    IF rows = {} THEN Put(0, 1) ELSE Put(1, 1) \o Bits(rows, n, weights)

LEMMA FlaggedBytes ==
    ASSUME NEW rows, NEW n \in Nat, NEW weights \in {LowFirst, HighFirst}
    PROVE  /\ Flagged(rows, n, weights) \in Seq(Cell)
           /\ Len(Flagged(rows, n, weights)) = 1 + (IF rows = {} THEN 0 ELSE ByteCount(n))
<1>0. 0 \in Int /\ 1 \in Int /\ 1 \in Nat
  OBVIOUS
<1>1. /\ Put(0, 1) \in Seq(Cell) /\ Len(Put(0, 1)) = 1
      /\ Put(1, 1) \in Seq(Cell) /\ Len(Put(1, 1)) = 1
  BY <1>0, PutBytes
<1>2. /\ Bits(rows, n, weights) \in Seq(Cell) /\ Len(Bits(rows, n, weights)) = ByteCount(n)
  BY BitmapBytes
<1>3. Joined(Cell, Put(1, 1), Bits(rows, n, weights), Put(1, 1) \o Bits(rows, n, weights))
  BY <1>1, <1>2, Concat
<1>4. CASE rows = {}
  BY <1>1, <1>4 DEF Flagged
<1>5. CASE rows # {}
  <2>1. Flagged(rows, n, weights) = Put(1, 1) \o Bits(rows, n, weights)
    BY <1>5 DEF Flagged
  <2> QED
    BY <1>1, <1>2, <1>3, <1>5, <2>1 DEF Joined
<1> QED
  BY <1>4, <1>5

FlagIs(buf, off, rows, n, weights) ==
    /\ Get(buf, off, 1) = 0 <=> rows = {}
    /\ rows # {} => RowsSet(buf, off + 1, n, weights) = rows

LEMMA FlaggedRead ==
    ASSUME NEW n \in Nat, NEW rows, rows \subseteq 1..n, NEW weights \in {LowFirst, HighFirst},
           NEW buf, NEW off, Holds(buf, off, Flagged(rows, n, weights))
    PROVE  FlagIs(buf, off, rows, n, weights)
<1>1. CASE rows = {}
  <2>1. Holds(buf, off, Put(0, 1))
    BY <1>1 DEF Flagged
  <2> QED
    BY <1>1, <2>1, GetPut DEF FlagIs
<1>2. CASE rows # {}
  <2>0. 1 \in Int /\ 1 \in Nat
    OBVIOUS
  <2>1. /\ Put(1, 1) \in Seq(Cell) /\ Len(Put(1, 1)) = 1
        /\ Bits(rows, n, weights) \in Seq(Cell)
    BY <2>0, PutBytes, BitmapBytes
  <2>2. Holds(buf, off, Put(1, 1) \o Bits(rows, n, weights))
    BY <1>2 DEF Flagged
  <2>3. Holds(buf, off, Put(1, 1)) /\ Holds(buf, off + 1, Bits(rows, n, weights))
    BY <2>1, <2>2, HoldsJoined
  <2>4. Get(buf, off, 1) = 1
    BY <2>3, GetPut
  <2>5. n <= 8 * ByteCount(n)
    BY BitmapBytes
  <2>6. RowsSet(buf, off + 1, n, weights) = {i \in 1..n : i \in rows}
    BY <2>3, <2>5, BitsRead
  <2>7. {i \in 1..n : i \in rows} = rows
    OBVIOUS
  <2> QED
    BY <1>2, <2>4, <2>6, <2>7 DEF FlagIs
<1> QED
  BY <1>1, <1>2

LEMMA SeqFrom ==
    ASSUME NEW V, NEW n \in Nat, NEW s, s = [i \in 1..n |-> s[i]], \A i \in 1..n : s[i] \in V
    PROVE  s \in Seq(V) /\ Len(s) = n
OBVIOUS

LEMMA TabletShape ==
    ASSUME NEW tablet, IsTablet(tablet)
    PROVE  /\ Len(tablet.times) \in Nat /\ DOMAIN tablet.times = 1..Len(tablet.times)
           /\ Len(tablet.types) \in Nat /\ DOMAIN tablet.types = 1..Len(tablet.types)
           /\ DOMAIN tablet.columns = 1..Len(tablet.types)
           /\ tablet.dates \in BOOLEAN
           /\ \A i \in 1..Len(tablet.times) : tablet.times[i] \in Int \cup {Infinite}
           /\ \A c \in 1..Len(tablet.types) :
                /\ DOMAIN tablet.columns[c] = 1..Len(tablet.times)
                /\ \A i \in 1..Len(tablet.times) :
                     tablet.columns[c][i] \in ValuesOf(tablet.types[c]) \cup {Null}
<1>1. /\ tablet.times \in Seq(Int \cup {Infinite})
      /\ tablet.types \in Seq(DataTypes)
      /\ tablet.columns \in Seq(Seq(Int \cup {Null}))
      /\ Len(tablet.columns) = Len(tablet.types)
      /\ tablet.dates \in BOOLEAN
  BY DEF IsTablet
<1>2. ASSUME NEW c \in DOMAIN tablet.types
      PROVE  /\ tablet.columns[c] \in Seq(ValuesOf(tablet.types[c]) \cup {Null})
             /\ Len(tablet.columns[c]) = Len(tablet.times)
  BY DEF IsTablet, IsColumn
<1>3. /\ Len(tablet.times) \in Nat /\ DOMAIN tablet.times = 1..Len(tablet.times)
      /\ Len(tablet.types) \in Nat /\ DOMAIN tablet.types = 1..Len(tablet.types)
      /\ DOMAIN tablet.columns = 1..Len(tablet.types)
  BY <1>1, LenProperties
<1>4. \A i \in 1..Len(tablet.times) : tablet.times[i] \in Int \cup {Infinite}
  BY <1>1, <1>3, ElementOfSeq
<1>5. ASSUME NEW c \in 1..Len(tablet.types)
      PROVE  /\ DOMAIN tablet.columns[c] = 1..Len(tablet.times)
             /\ \A i \in 1..Len(tablet.times) :
                  tablet.columns[c][i] \in ValuesOf(tablet.types[c]) \cup {Null}
  <2> DEFINE column == tablet.columns[c]
             V == ValuesOf(tablet.types[c]) \cup {Null}
  <2>1. column \in Seq(V) /\ Len(column) = Len(tablet.times)
    BY <1>2, <1>3
  <2> HIDE DEF column, V
  <2>2. DOMAIN column = 1..Len(column)
    BY <2>1, LenProperties
  <2>3. \A i \in 1..Len(column) : column[i] \in V
    BY <2>1, ElementOfSeq
  <2> QED
    BY <2>1, <2>2, <2>3 DEF column, V
<1> QED
  BY <1>1, <1>3, <1>4, <1>5

\* The bytes of a column are those of its numbers.
LEMMA ColumnWritten ==
    ASSUME NEW tablet, IsTablet(tablet), NEW c \in 1..Len(tablet.types)
    PROVE  /\ ColumnNumbers(tablet, c) =
                 [i \in 1..Len(tablet.times) |->
                     Stored(tablet.types[c], tablet.dates, tablet.columns[c][i])]
           /\ Writable(tablet.types[c], ColumnNumbers(tablet, c), Len(tablet.times), {})
           /\ SerializeColumn(tablet.types[c], ColumnNumbers(tablet, c)) = ColumnBytes(tablet)[c]
           /\ ColumnBytes(tablet)[c] \in Seq(Cell)
<1> DEFINE n == Len(tablet.times)
           type == tablet.types[c]
           numbers == ColumnNumbers(tablet, c)
<1>1. /\ n \in Nat /\ tablet.dates \in BOOLEAN
      /\ DOMAIN tablet.columns[c] = 1..n
      /\ \A i \in 1..n : tablet.columns[c][i] \in ValuesOf(type) \cup {Null}
  BY TabletShape
<1>2. numbers = [i \in 1..n |-> Stored(type, tablet.dates, tablet.columns[c][i])]
  BY <1>1 DEF ColumnNumbers, Numbers
<1>3. \A i \in 1..n : Stored(type, tablet.dates, tablet.columns[c][i]) \in NumbersOf(type)
  BY <1>1, StoredNumber
<1> HIDE DEF n, type, numbers
<1>4. Writable(type, numbers, n, {})
  BY <1>2, <1>3 DEF Writable
<1>5. SerializeColumn(type, numbers) = FlattenSeq(Pieces(type, numbers, n, {}))
  <2>1. DOMAIN numbers = 1..n
    BY <1>2
  <2>2. [i \in DOMAIN numbers |-> PutItem(type, numbers[i])] = Pieces(type, numbers, n, {})
    BY <2>1 DEF Pieces
  <2> QED
    BY <2>2 DEF SerializeColumn
<1>6. Pieces(type, numbers, n, {}) \in Seq(Seq(Cell))
  BY <1>1, <1>4, PiecesBytes
<1>7. FlattenSeq(Pieces(type, numbers, n, {})) \in Seq(Cell)
  BY <1>6, FlattenParts
<1>8. ColumnBytes(tablet)[c] = FlattenSeq(Pieces(type, numbers, n, {}))
  BY DEF ColumnBytes, n, type, numbers
<1> QED
  BY <1>2, <1>4, <1>5, <1>7, <1>8 DEF n, type, numbers

\* The bitmap of a column has its nulls.
LEMMA MapWritten ==
    ASSUME NEW tablet, IsTablet(tablet), NEW c \in 1..Len(tablet.types)
    PROVE  /\ MapBytes(tablet)[c] = Flagged(NullsIn(tablet.columns[c]), Len(tablet.times), LowFirst)
           /\ MapBytes(tablet)[c] \in Seq(Cell)
           /\ NullsIn(tablet.columns[c]) \subseteq 1..Len(tablet.times)
<1>1. Len(tablet.times) \in Nat /\ DOMAIN tablet.columns[c] = 1..Len(tablet.times)
  BY TabletShape
<1>2. MapBytes(tablet)[c] = Flagged(NullsIn(tablet.columns[c]), Len(tablet.times), LowFirst)
  BY DEF MapBytes, SerializeBitMap, NullBits, Flagged
<1>3. LowFirst \in {LowFirst, HighFirst}
  OBVIOUS
<1>4. Flagged(NullsIn(tablet.columns[c]), Len(tablet.times), LowFirst) \in Seq(Cell)
  BY <1>1, <1>3, FlaggedBytes
<1> QED
  BY <1>1, <1>2, <1>4 DEF NullsIn

\* Either serializer writes the columns, and then the bitmaps.
LEMMA ValuesWritten ==
    ASSUME NEW tablet, IsTablet(tablet), NEW fast \in BOOLEAN, NEW hit \in BOOLEAN
    PROVE  /\ ColumnBytes(tablet) \in Seq(Seq(Cell)) /\ Len(ColumnBytes(tablet)) = Len(tablet.types)
           /\ MapBytes(tablet) \in Seq(Seq(Cell)) /\ Len(MapBytes(tablet)) = Len(tablet.types)
           /\ SerializeTabletValues(tablet, fast, hit) =
                 FlattenSeq(ColumnBytes(tablet)) \o FlattenSeq(MapBytes(tablet))
<1> DEFINE count == Len(tablet.types)
           C == ColumnBytes(tablet)
           M == MapBytes(tablet)
<1>1. count \in Nat /\ DOMAIN tablet.types = 1..count /\ DOMAIN tablet.columns = 1..count
  BY TabletShape
<1>2. /\ DOMAIN C = 1..count /\ C = [c \in 1..count |-> C[c]]
      /\ DOMAIN M = 1..count /\ M = [c \in 1..count |-> M[c]]
  BY DEF ColumnBytes, MapBytes
<1>3. \A c \in 1..count : C[c] \in Seq(Cell) /\ M[c] \in Seq(Cell)
  BY ColumnWritten, MapWritten
<1>4. SerializeBitMaps(tablet.columns, Len(tablet.times)) = FlattenSeq(M)
  <2>1. [c \in DOMAIN tablet.columns |-> SerializeBitMap(tablet.columns[c], Len(tablet.times))] = M
    BY <1>1 DEF MapBytes
  <2> QED
    BY <2>1 DEF SerializeBitMaps
<1> DEFINE Column(c) ==
             LET numbers == Numbers(tablet.types[c], tablet.dates, tablet.columns[c])
             IN  IF fast THEN SerializeColumnFast(tablet.types[c], numbers, hit)
                 ELSE SerializeColumn(tablet.types[c], numbers)
<1>5. SerializeTabletValues(tablet, fast, hit) =
        FlattenSeq([c \in DOMAIN tablet.types |-> Column(c)])
            \o SerializeBitMaps(tablet.columns, Len(tablet.times))
  BY DEF SerializeTabletValues
<1>6. ASSUME NEW c \in 1..count PROVE Column(c) = C[c]
  <2>1. /\ SerializeColumn(tablet.types[c], ColumnNumbers(tablet, c)) = C[c]
        /\ C[c] \in Seq(Cell)
    BY ColumnWritten
  <2> HIDE DEF C
  <2>2. SerializeColumnFast(tablet.types[c], ColumnNumbers(tablet, c), hit) = C[c]
    BY <2>1, FastSame
  <2> QED
    BY <2>1, <2>2 DEF ColumnNumbers
<1> HIDE DEF C, M, Column, count
<1>7. [c \in DOMAIN tablet.types |-> Column(c)] = C
  BY <1>1, <1>2, <1>6
<1>8. C \in Seq(Seq(Cell)) /\ Len(C) = count /\ M \in Seq(Seq(Cell)) /\ Len(M) = count
  BY <1>1, <1>2, <1>3, SeqFrom
<1> QED
  BY <1>4, <1>5, <1>7, <1>8 DEF C, M, count

AreTimes(times, n) ==
    n \in Nat /\ DOMAIN times = 1..n /\ \A i \in 1..n : times[i] \in Int

AreHalved(times, n, cells) ==
    Items(2, cells, 0, n, {}).values = [i \in 1..n |-> times[i] \div 2]

LEMMA TimesWritten ==
    ASSUME NEW times, NEW n, AreTimes(times, n), NEW fast \in BOOLEAN, NEW hit \in BOOLEAN
    PROVE  AreHalved(times, n, SerializeTimestamps(times, fast, hit))
<1> DEFINE halves == [i \in 1..n |-> times[i] \div 2]
           P == Pieces(2, halves, n, {})
<1> USE DEF AreTimes
<1>1. \A i \in 1..n : halves[i] \in Int /\ halves[i] = times[i] \div 2
  OBVIOUS
<1>2. 2 \notin Texts /\ Width(2) = 8
  BY DEF Texts, Width, Boolean, Fours
<1>3. halves = [i \in 1..n |-> halves[i]]
  OBVIOUS
<1> HIDE DEF halves
<1>4. Writable(2, halves, n, {})
  BY <1>1, <1>2 DEF Writable, NumbersOf
<1>6. P \in Seq(Seq(Cell))
  BY <1>4, PiecesBytes
<1>5. SerializeTimestamps(times, fast, hit) = FlattenSeq(P)
  <2>1. \A i \in 1..n : Put(times[i] \div 2, 8) = PutItem(2, halves[i])
    BY <1>1, <1>2 DEF PutItem
  <2>2. [i \in DOMAIN times |-> Put(times[i] \div 2, 8)] = P
    BY <2>1 DEF Pieces
  <2>3. FlattenSeq(P) \in Seq(Cell)
    BY <1>6, FlattenParts
  <2>4. InPooled(FlattenSeq(P), hit) = FlattenSeq(P)
    BY <2>3, PooledSame
  <2> QED
    BY <2>2, <2>4 DEF SerializeTimestamps
<1>7. Holds(FlattenSeq(P), 0, FlattenSeq(P))
  BY <1>6, FlattenParts, HoldsSelf
<1>8. Items(2, FlattenSeq(P), 0, n, {}).values =
        [i \in 1..n |-> IF i \in {} THEN Null ELSE halves[i]]
  <2>1. ItemsAre(2, FlattenSeq(P), 0, n, halves, {})
    BY <1>4, <1>7, ItemsRead
  <2> QED
    BY <2>1 DEF ItemsAre
<1>9. [i \in 1..n |-> IF i \in {} THEN Null ELSE halves[i]] = halves
  BY <1>3
<1> QED
  BY <1>5, <1>8, <1>9 DEF halves, AreHalved

\* The server reads the columns and the bitmaps where they are.
LEMMA TabletBytesRead ==
    ASSUME NEW tablet, IsTablet(tablet), NEW req, NEW t,
           req.typesList[t] = tablet.types, req.sizeList[t] = Len(tablet.times),
           req.valuesList[t] = FlattenSeq(ColumnBytes(tablet)) \o FlattenSeq(MapBytes(tablet)),
           ColumnBytes(tablet) \in Seq(Seq(Cell)), Len(ColumnBytes(tablet)) = Len(tablet.types),
           MapBytes(tablet) \in Seq(Seq(Cell)), Len(MapBytes(tablet)) = Len(tablet.types)
    PROVE  TabletRead(req, t) =
             [times   |-> Items(2, req.timestampsList[t], 0, Len(tablet.times), {}).values,
              columns |-> [c \in 1..Len(tablet.types) |->
                             [i \in 1..Len(tablet.times) |->
                                 IF i \in NullsIn(tablet.columns[c]) THEN Null
                                 ELSE ColumnNumbers(tablet, c)[i]]],
              rest    |-> 0]
<1> DEFINE types == req.typesList[t]
           size  == req.sizeList[t]
           buf   == req.valuesList[t]
           count == Len(types)
           IsEnds(ends) == ends = [c \in 0..count |->
               IF c = 0 THEN 0 ELSE Items(types[c], buf, ends[c - 1], size, {}).off]
           ends == CHOOSE f : IsEnds(f)
           IsMaps(maps) == maps = [c \in 0..count |->
               IF c = 0 THEN ends[count]
               ELSE LET flag == maps[c - 1]
                    IN  flag + 1 + (IF Get(buf, flag, 1) = 0 THEN 0 ELSE ByteCount(size))]
           maps == CHOOSE f : IsMaps(f)
           Nulls(flag) == IF Get(buf, flag, 1) = 0 THEN {}
                          ELSE RowsSet(buf, flag + 1, size, LowFirst)
           Column(c) ==
               LET values == Items(types[c], buf, ends[c - 1], size, {}).values
                   nulls  == Nulls(maps[c - 1])
               IN  [i \in 1..size |-> IF i \in nulls THEN Null ELSE values[i]]
           C == ColumnBytes(tablet)
           M == MapBytes(tablet)
<1>1. TabletRead(req, t) =
        [times   |-> Items(2, req.timestampsList[t], 0, size, {}).values,
         columns |-> [c \in 1..count |-> Column(c)],
         rest    |-> Len(buf) - maps[count]]
  BY DEF TabletRead
<1>2. count \in Nat /\ size \in Nat /\ size = Len(tablet.times) /\ count = Len(tablet.types)
  BY TabletShape
<1>3. ASSUME NEW c \in 1..count
      PROVE  /\ Writable(types[c], ColumnNumbers(tablet, c), size, {})
             /\ C[c] = FlattenSeq(Pieces(types[c], ColumnNumbers(tablet, c), size, {}))
             /\ M[c] = Flagged(NullsIn(tablet.columns[c]), size, LowFirst)
             /\ NullsIn(tablet.columns[c]) \subseteq 1..size
  <2>1. c \in 1..Len(tablet.types)
    OBVIOUS
  <2>2. /\ Writable(tablet.types[c], ColumnNumbers(tablet, c), Len(tablet.times), {})
        /\ M[c] = Flagged(NullsIn(tablet.columns[c]), Len(tablet.times), LowFirst)
        /\ NullsIn(tablet.columns[c]) \subseteq 1..Len(tablet.times)
    BY <2>1, ColumnWritten, MapWritten
  <2>3. C[c] = FlattenSeq(Pieces(tablet.types[c], ColumnNumbers(tablet, c), Len(tablet.times), {}))
    BY <2>1 DEF ColumnBytes
  <2> QED
    BY <2>2, <2>3
<1>4. /\ C \in Seq(Seq(Cell)) /\ Len(C) = count /\ M \in Seq(Seq(Cell)) /\ Len(M) = count
      /\ buf = FlattenSeq(C) \o FlattenSeq(M)
  OBVIOUS
<1> HIDE DEF C, M, types, size, buf, count
<1>5. /\ FlattenSeq(C) \in Seq(Cell) /\ FlattenSeq(M) \in Seq(Cell)
      /\ buf \in Seq(Cell)
      /\ Len(buf) = Len(FlattenSeq(C)) + Len(FlattenSeq(M))
  <2>1. FlattenSeq(C) \in Seq(Cell) /\ FlattenSeq(M) \in Seq(Cell)
    BY <1>4, FlattenParts
  <2>2. Joined(Cell, FlattenSeq(C), FlattenSeq(M), buf)
    BY <1>4, <2>1, Concat
  <2> QED
    BY <2>1, <2>2 DEF Joined
<1>6. Holds(buf, 0, FlattenSeq(C)) /\ Holds(buf, 0 + Len(FlattenSeq(C)), FlattenSeq(M))
  BY <1>4, <1>5, HoldsSelf, HoldsJoined
<1>7. PICK p : Placed(buf, 0, C, p)
  BY <1>4, <1>6, PartsPlaced
<1>8. PICK q : Placed(buf, 0 + Len(FlattenSeq(C)), M, q)
  BY <1>4, <1>6, PartsPlaced
<1>9. /\ p \in [0..count -> Nat] /\ p[0] = 0 /\ p[count] = q[0]
      /\ \A c \in 1..count : /\ p[c] = p[c - 1] + Len(C[c]) /\ Holds(buf, p[c - 1], C[c])
      /\ q \in [0..count -> Nat] /\ q[count] = Len(buf)
      /\ \A c \in 1..count : /\ q[c] = q[c - 1] + Len(M[c]) /\ Holds(buf, q[c - 1], M[c])
  BY <1>4, <1>5, <1>7, <1>8 DEF Placed
<1>10. ASSUME NEW c \in 1..count
       PROVE  /\ Items(types[c], buf, p[c - 1], size, {}).values =
                   [i \in 1..size |-> IF i \in {} THEN Null ELSE ColumnNumbers(tablet, c)[i]]
              /\ Items(types[c], buf, p[c - 1], size, {}).off = p[c]
  <2>1. Holds(buf, p[c - 1], FlattenSeq(Pieces(types[c], ColumnNumbers(tablet, c), size, {})))
    BY <1>3, <1>9
  <2>2. Writable(types[c], ColumnNumbers(tablet, c), size, {})
    BY <1>3
  <2>3. ItemsAre(types[c], buf, p[c - 1], size, ColumnNumbers(tablet, c), {})
    BY <1>2, <2>1, <2>2, ItemsRead
  <2> QED
    BY <1>3, <1>9, <2>3 DEF ItemsAre
<1>11. ASSUME NEW c \in 1..count
       PROVE  /\ q[c] = q[c - 1] + 1 + (IF Get(buf, q[c - 1], 1) = 0 THEN 0 ELSE ByteCount(size))
              /\ Nulls(q[c - 1]) = NullsIn(tablet.columns[c])
  <2> DEFINE rows == NullsIn(tablet.columns[c])
  <2>1. /\ Holds(buf, q[c - 1], Flagged(rows, size, LowFirst))
        /\ q[c] = q[c - 1] + Len(Flagged(rows, size, LowFirst))
        /\ rows \subseteq 1..size
    BY <1>3, <1>9
  <2> HIDE DEF rows
  <2>2. LowFirst \in {LowFirst, HighFirst}
    OBVIOUS
  <2>3. FlagIs(buf, q[c - 1], rows, size, LowFirst)
    BY <1>2, <2>1, <2>2, FlaggedRead
  <2>4. Len(Flagged(rows, size, LowFirst)) = 1 + (IF rows = {} THEN 0 ELSE ByteCount(size))
    BY <1>2, <2>2, FlaggedBytes
  <2>5. ByteCount(size) \in Nat
    BY <1>2, <2>2, BitmapBytes
  <2>6. q[c - 1] \in Nat
    <3>1. c - 1 \in 0..count
      BY <1>2
    <3> QED
      BY <1>9, <3>1
  <2>7. q[c] = q[c - 1] + 1 + (IF Get(buf, q[c - 1], 1) = 0 THEN 0 ELSE ByteCount(size))
    <3>1. CASE rows = {}
      BY <2>1, <2>3, <2>4, <2>6, <3>1 DEF FlagIs
    <3>2. CASE rows # {}
      <4>1. Get(buf, q[c - 1], 1) # 0
        BY <2>3, <3>2 DEF FlagIs
      <4>2. Len(Flagged(rows, size, LowFirst)) = 1 + ByteCount(size)
        BY <2>4, <3>2
      <4>3. q[c] = q[c - 1] + (1 + ByteCount(size))
        BY <2>1, <4>2
      <4>4. q[c] = q[c - 1] + 1 + ByteCount(size)
        <5> DEFINE x == q[c - 1]
                   y == ByteCount(size)
        <5>1. x \in Nat /\ y \in Nat /\ q[c] = x + (1 + y)
          BY <2>5, <2>6, <4>3
        <5> HIDE DEF x, y
        <5>2. q[c] = x + 1 + y
          BY <5>1
        <5> QED
          BY <5>2 DEF x, y
      <4> QED
        BY <4>1, <4>4
    <3> QED
      BY <3>1, <3>2
  <2>8. Nulls(q[c - 1]) = rows
    BY <2>3 DEF FlagIs
  <2> QED
    BY <2>7, <2>8 DEF rows
<1>12. 0 \in 0..count /\ count \in 0..count /\ \A c \in 1..count : c \in 0..count /\ c - 1 \in 0..count
  BY <1>2
<1>13. \A c \in 0..count : ends[c] = p[c]
  <2>1. p = [c \in 0..count |->
               IF c = 0 THEN 0 ELSE Items(types[c], buf, p[c - 1], size, {}).off]
    <3>1. \A c \in 1..count : Items(types[c], buf, p[c - 1], size, {}).off = p[c]
      BY <1>10
    <3> QED
      BY <1>9, <3>1
  <2>2. IsEnds(p)
    BY <2>1
  <2>3. IsEnds(ends)
    <3> HIDE DEF IsEnds
    <3> QED
      BY <2>2
  <2>4. /\ ends[0] = 0
        /\ \A c \in 1..count : ends[c] = Items(types[c], buf, ends[c - 1], size, {}).off
    <3> HIDE DEF ends
    <3> QED
      BY <1>12, <2>3
  <2> HIDE DEF ends, IsEnds
  <2>5. \A c \in 1..count : ends[c - 1] = p[c - 1] => ends[c] = p[c]
    <3>1. ASSUME NEW c \in 1..count, ends[c - 1] = p[c - 1] PROVE ends[c] = p[c]
      BY <1>10, <2>4, <3>1
    <3> QED
      BY <3>1
  <2>6. ends[0] = p[0]
    BY <1>9, <2>4
  <2>7. count \in Nat
    BY <1>2
  <2> QED
    BY <2>5, <2>6, <2>7, SameSteps
<1> HIDE DEF ends, IsEnds
<1>14. \A c \in 0..count : maps[c] = q[c]
  <2> DEFINE Behind(flag) == flag + 1 + (IF Get(buf, flag, 1) = 0 THEN 0 ELSE ByteCount(size))
  <2>0. ends[count] = q[0]
    BY <1>9, <1>12, <1>13
  <2>1. q = [c \in 0..count |-> IF c = 0 THEN ends[count] ELSE Behind(q[c - 1])]
    <3>1. \A c \in 1..count : Behind(q[c - 1]) = q[c]
      BY <1>11
    <3> HIDE DEF Behind
    <3> QED
      BY <1>9, <2>0, <3>1
  <2>2. IsMaps(q)
    BY <2>1
  <2>3. IsMaps(maps)
    <3> HIDE DEF IsMaps
    <3> QED
      BY <2>2
  <2>4. /\ maps[0] = ends[count]
        /\ \A c \in 1..count : maps[c] = Behind(maps[c - 1])
    <3> HIDE DEF maps
    <3> QED
      BY <1>12, <2>3
  <2> HIDE DEF maps, IsMaps
  <2>5. \A c \in 1..count : maps[c - 1] = q[c - 1] => maps[c] = q[c]
    BY <1>11, <2>4
  <2>6. maps[0] = q[0]
    BY <2>0, <2>4
  <2>7. count \in Nat
    BY <1>2
  <2> QED
    BY <2>5, <2>6, <2>7, SameSteps
<1> HIDE DEF maps, IsMaps
<1>15. ASSUME NEW c \in 1..count
       PROVE  Column(c) = [i \in 1..size |-> IF i \in NullsIn(tablet.columns[c]) THEN Null
                                              ELSE ColumnNumbers(tablet, c)[i]]
  <2>1. ends[c - 1] = p[c - 1] /\ maps[c - 1] = q[c - 1]
    BY <1>12, <1>13, <1>14
  <2>2. Nulls(maps[c - 1]) = NullsIn(tablet.columns[c])
    BY <1>11, <2>1
  <2>3. Items(types[c], buf, ends[c - 1], size, {}).values =
          [i \in 1..size |-> IF i \in {} THEN Null ELSE ColumnNumbers(tablet, c)[i]]
    BY <1>10, <2>1
  <2> HIDE DEF Nulls
  <2> QED
    BY <2>2, <2>3
<1> HIDE DEF Column
<1>16. [c \in 1..count |-> Column(c)] =
         [c \in 1..count |-> [i \in 1..size |-> IF i \in NullsIn(tablet.columns[c]) THEN Null
                                                 ELSE ColumnNumbers(tablet, c)[i]]]
  BY <1>15
<1>17. Len(buf) - maps[count] = 0
  <2>1. maps[count] = Len(buf) /\ Len(buf) \in Nat
    BY <1>9, <1>12, <1>14
  <2> QED
    BY <2>1
<1> QED
  BY <1>1, <1>2, <1>16, <1>17

\* What an insert sends of a tablet arrives, with either serializer.
LEMMA TabletGetsThrough ==
    ASSUME NEW tablet, IsTablet(tablet), ~ Throws(tablet),
           NEW fast \in BOOLEAN, NEW hit \in BOOLEAN, NEW req, NEW t,
           req.typesList[t] = tablet.types, req.sizeList[t] = Len(tablet.times),
           req.timestampsList[t] = SerializeTimestamps(tablet.times, fast, hit),
           req.valuesList[t] = SerializeTabletValues(tablet, fast, hit)
    PROVE  TabletArrives(tablet, TabletRead(req, t))
<1> DEFINE n == Len(tablet.times)
           count == Len(tablet.types)
           read == TabletRead(req, t)
<1>1. /\ n \in Nat /\ DOMAIN tablet.times = 1..n /\ DOMAIN tablet.columns = 1..count
      /\ \A i \in 1..n : tablet.times[i] \in Int \cup {Infinite}
      /\ tablet.dates \in BOOLEAN
  BY TabletShape
<1>2. \A i \in 1..n : tablet.times[i] \in Int
  BY <1>1 DEF Throws
<1>3. /\ ColumnBytes(tablet) \in Seq(Seq(Cell)) /\ Len(ColumnBytes(tablet)) = count
      /\ MapBytes(tablet) \in Seq(Seq(Cell)) /\ Len(MapBytes(tablet)) = count
      /\ req.valuesList[t] = FlattenSeq(ColumnBytes(tablet)) \o FlattenSeq(MapBytes(tablet))
  BY ValuesWritten
<1>4. read =
        [times   |-> Items(2, req.timestampsList[t], 0, n, {}).values,
         columns |-> [c \in 1..count |->
                        [i \in 1..n |-> IF i \in NullsIn(tablet.columns[c]) THEN Null
                                        ELSE ColumnNumbers(tablet, c)[i]]],
         rest    |-> 0]
  BY <1>3, TabletBytesRead
<1>5. Items(2, SerializeTimestamps(tablet.times, fast, hit), 0, n, {}).values =
        [i \in 1..n |-> tablet.times[i] \div 2]
  <2>1. AreTimes(tablet.times, n)
    BY <1>1, <1>2 DEF AreTimes
  <2> HIDE DEF n
  <2>2. AreHalved(tablet.times, n, SerializeTimestamps(tablet.times, fast, hit))
    BY <2>1, TimesWritten
  <2> QED
    BY <2>2 DEF AreHalved
<1> HIDE DEF read
<1>6. /\ read.rest = 0
      /\ \A i \in 1..n : read.times[i] = tablet.times[i] \div 2
      /\ \A c \in 1..count : \A i \in 1..n :
           read.columns[c][i] = IF i \in NullsIn(tablet.columns[c]) THEN Null
                                ELSE ColumnNumbers(tablet, c)[i]
  BY <1>4, <1>5
<1>7. ASSUME NEW i \in 1..n
      PROVE  2 * read.times[i] <= tablet.times[i] /\ tablet.times[i] < 2 * read.times[i] + 2
  <2> DEFINE x == tablet.times[i]
  <2>1. x \in Int /\ read.times[i] = x \div 2
    BY <1>2, <1>6
  <2> HIDE DEF x
  <2>2. 2 * (x \div 2) <= x /\ x < 2 * (x \div 2) + 2
    BY <2>1
  <2> QED
    BY <2>1, <2>2 DEF x
<1>8. ASSUME NEW c \in 1..count, NEW i \in 1..n
      PROVE  LET v == tablet.columns[c][i]
                 x == read.columns[c][i]
             IN  IF v # Null /\ tablet.types[c] = Date /\ tablet.dates
                 THEN x # Null /\ x * Day <= v /\ v < (x + 1) * Day
                 ELSE x = v
  <2> DEFINE v == tablet.columns[c][i]
             x == read.columns[c][i]
             type == tablet.types[c]
             number == Stored(type, tablet.dates, v)
  <2>1. v \in ValuesOf(type) \cup {Null} /\ DOMAIN tablet.columns[c] = 1..n
    BY TabletShape
  <2>2. ColumnNumbers(tablet, c)[i] = number
    BY ColumnWritten
  <2>3. x = IF v = Null THEN Null ELSE number
    BY <1>6, <2>1, <2>2 DEF NullsIn
  <2> HIDE DEF v, x, type
  <2>4. /\ number \in NumbersOf(type)
        /\ v # Null /\ ~ (type = Date /\ tablet.dates) => number = v
        /\ v # Null /\ type = Date /\ tablet.dates =>
             number * Day <= v /\ v < (number + 1) * Day
    BY <1>1, <2>1, StoredNumber
  <2>5. number # Null
    <3>1. number \in Int
      BY <2>4 DEF NumbersOf
    <3> HIDE DEF number
    <3> QED
      BY <3>1, NumberAssumption
  <2> HIDE DEF number
  <2>6. CASE v = Null
    BY <2>3, <2>6 DEF v, x, type
  <2>7. CASE v # Null
    <3>1. x = number
      BY <2>3, <2>7
    <3> QED
      BY <2>4, <2>5, <2>7, <3>1 DEF v, x, type
  <2> QED
    BY <2>6, <2>7
<1> QED
  BY <1>1, <1>6, <1>7, <1>8 DEF TabletArrives, read

-----------------------------------------------------------------------------
(* Results *)

\* Pieces of the same length are at multiples of it.
Multiples(at, off, n, w) == \A i \in 0..n : at[i] = off + i * w

LEMMA EvenlyPlaced ==
    ASSUME NEW buf, NEW off \in Nat, NEW pieces, NEW at, Placed(buf, off, pieces, at),
           NEW n \in Nat, Len(pieces) = n,
           NEW w \in {1, 4, 8}, \A i \in 1..n : Len(pieces[i]) = w
    PROVE  Multiples(at, off, n, w)
<1> DEFINE S == {k \in Nat : k <= n => at[k] = off + k * w}
<1>1. /\ at[0] = off
      /\ \A i \in 1..n : at[i] = at[i - 1] + w
  BY DEF Placed
<1>2. 0 \in S
  BY <1>1
<1>3. ASSUME NEW k \in Nat, k \in S PROVE k + 1 \in S
  <2> SUFFICES ASSUME k + 1 <= n PROVE at[k + 1] = off + (k + 1) * w
    OBVIOUS
  <2>1. k + 1 \in 1..n /\ (k + 1) - 1 = k /\ at[k] = off + k * w
    BY <1>3
  <2>2. at[k + 1] = (off + k * w) + w
    BY <1>1, <2>1
  <2>3. CASE w = 1
    BY <2>2, <2>3
  <2>4. CASE w = 4
    BY <2>2, <2>4
  <2>5. CASE w = 8
    BY <2>2, <2>5
  <2> QED
    BY <2>3, <2>4, <2>5
<1> HIDE DEF S
<1>4. \A k \in Nat : k \in S
  BY <1>2, <1>3, NatInd
<1> QED
  BY <1>4 DEF S, Multiples

\* What the program reads of a column: a null boolean is false.
ReadValues(type, values, n) ==
    [i \in 1..n |-> IF type = Boolean THEN IF values[i] = 1 THEN 1 ELSE 0 ELSE values[i]]

LEMMA ColumnShape ==
    ASSUME NEW values, NEW type, NEW n \in Nat, IsColumn(values, type, n)
    PROVE  /\ DOMAIN values = 1..n /\ Len(values) = n
           /\ \A i \in 1..n : values[i] \in ValuesOf(type) \cup {Null}
           /\ NullRows(values) \subseteq 1..n
           /\ \A i \in 1..n : i \in NullRows(values) <=> values[i] = Null
           /\ type # Boolean => Writable(type, values, n, NullRows(values))
<1>1. DOMAIN values = 1..n /\ \A i \in 1..n : values[i] \in ValuesOf(type) \cup {Null}
  <2> DEFINE V == ValuesOf(type) \cup {Null}
  <2>1. values \in Seq(V) /\ Len(values) = n
    BY DEF IsColumn
  <2> HIDE DEF V
  <2>2. DOMAIN values = 1..n /\ \A i \in 1..n : values[i] \in V
    BY <2>1, LenProperties, ElementOfSeq
  <2> QED
    BY <2>2 DEF V
<1>2. NullRows(values) \subseteq 1..n /\ \A i \in 1..n : i \in NullRows(values) <=> values[i] = Null
  BY <1>1 DEF NullRows
<1>3. ASSUME type # Boolean PROVE Writable(type, values, n, NullRows(values))
  <2>1. NumbersOf(type) = ValuesOf(type)
    BY <1>3 DEF NumbersOf, ValuesOf
  <2> QED
    BY <1>1, <1>2, <2>1 DEF Writable
<1>4. Len(values) = n
  BY DEF IsColumn
<1> QED
  BY <1>1, <1>2, <1>3, <1>4

\* What a column has without its null indicators.
Body(type, values, n) ==
    IF type = Boolean THEN Bits(TrueRows(values), n, HighFirst)
    ELSE FlattenSeq(Pieces(type, values, n, NullRows(values)))

LEMMA ArrayBytes ==
    ASSUME NEW type \in DataTypes, NEW values, NEW n \in Nat, IsColumn(values, type, n)
    PROVE  /\ ArraySent(type, values) = Flagged(NullRows(values), n, HighFirst) \o Body(type, values, n)
           /\ Flagged(NullRows(values), n, HighFirst) \in Seq(Cell)
           /\ Body(type, values, n) \in Seq(Cell)
           /\ ArraySent(type, values) \in Seq(Cell)
           /\ Len(ArraySent(type, values)) =
                Len(Flagged(NullRows(values), n, HighFirst)) + Len(Body(type, values, n))
<1> DEFINE F == Flagged(NullRows(values), n, HighFirst)
           B == Body(type, values, n)
<1>1. /\ DOMAIN values = 1..n /\ Len(values) = n
      /\ \A i \in 1..n : i \in NullRows(values) <=> values[i] = Null
      /\ type # Boolean => Writable(type, values, n, NullRows(values))
  BY ColumnShape
<1>2. HighFirst \in {LowFirst, HighFirst}
  OBVIOUS
<1>3. F \in Seq(Cell)
  BY <1>2, FlaggedBytes
<1>4. CASE type = Boolean
  <2>1. ArraySent(type, values) = F \o B
    BY <1>1, <1>4 DEF ArraySent, Indicators, Flagged, Body
  <2>2. B \in Seq(Cell)
    BY <1>2, <1>4, BitmapBytes DEF Body
  <2>3. Joined(Cell, F, B, F \o B)
    BY <1>3, <2>2, Concat
  <2> QED
    BY <1>3, <2>1, <2>2, <2>3 DEF Joined
<1>5. CASE type # Boolean
  <2>1. [i \in DOMAIN values |-> IF values[i] = Null THEN <<>> ELSE PutItem(type, values[i])] =
          Pieces(type, values, n, NullRows(values))
    BY <1>1 DEF Pieces
  <2>2. ArraySent(type, values) = F \o B
    BY <1>1, <1>5, <2>1 DEF ArraySent, Indicators, Flagged, Body
  <2>3. Pieces(type, values, n, NullRows(values)) \in Seq(Seq(Cell))
    BY <1>1, <1>5, PiecesBytes
  <2>4. B \in Seq(Cell)
    BY <1>5, <2>3, FlattenParts DEF Body
  <2>5. Joined(Cell, F, B, F \o B)
    BY <1>3, <2>4, Concat
  <2> QED
    BY <1>3, <2>2, <2>4, <2>5 DEF Joined
<1> QED
  BY <1>4, <1>5

\* A column is read as values, and len bytes are read.
ColumnIs(read, values, off, len) ==
    /\ read.values = values
    /\ read.off = off + len
    /\ read.failed = FALSE
    /\ read = [values |-> read.values, off |-> read.off, failed |-> read.failed]

LEMMA IndicatorsRead ==
    ASSUME NEW rows, NEW n \in Nat, rows \subseteq 1..n, NEW buf, NEW off,
           Holds(buf, off, Flagged(rows, n, HighFirst))
    PROVE  NullIndicators(buf, off, n) =
               [rows |-> rows, off |-> off + Len(Flagged(rows, n, HighFirst))]
<1>1. HighFirst \in {LowFirst, HighFirst}
  OBVIOUS
<1>2. FlagIs(buf, off, rows, n, HighFirst)
  BY <1>1, FlaggedRead
<1>3. Len(Flagged(rows, n, HighFirst)) = 1 + (IF rows = {} THEN 0 ELSE ByteCount(n))
  BY <1>1, FlaggedBytes
<1>4. ByteCount(n) \in Nat
  BY <1>1, BitmapBytes
<1>5. off \in Nat
  BY DEF Holds
<1>6. CASE rows = {}
  <2>1. Len(Flagged(rows, n, HighFirst)) = 1
    BY <1>3, <1>6
  <2> QED
    BY <1>2, <1>6, <2>1 DEF FlagIs, NullIndicators
<1>7. CASE rows # {}
  <2>1. Len(Flagged(rows, n, HighFirst)) = 1 + ByteCount(n)
    BY <1>3, <1>7
  <2>2. off + (1 + ByteCount(n)) = off + 1 + ByteCount(n)
    <3> DEFINE b == ByteCount(n)
    <3>1. b \in Nat
      BY <1>4
    <3> HIDE DEF b
    <3>2. off + (1 + b) = off + 1 + b
      BY <1>5, <3>1
    <3> QED
      BY <3>2 DEF b
  <2> QED
    BY <1>2, <1>7, <2>1, <2>2 DEF FlagIs, NullIndicators, BooleanArray
<1> QED
  BY <1>6, <1>7

\* The decoder of a type reads its array.
LEMMA ArrayRead ==
    ASSUME NEW type \in DataTypes, NEW values, NEW n \in Nat, IsColumn(values, type, n),
           NEW buf, NEW off, Holds(buf, off, ArraySent(type, values))
    PROVE  ColumnIs(ArrayColumn(EncodingOf(type), buf, off, type, n),
                    ReadValues(type, values, n), off, Len(ArraySent(type, values)))
<1> DEFINE rows == NullRows(values)
           F == Flagged(rows, n, HighFirst)
           B == Body(type, values, n)
           read == ArrayColumn(EncodingOf(type), buf, off, type, n)
           behind == off + Len(F)
<1>1. /\ DOMAIN values = 1..n
      /\ \A i \in 1..n : values[i] \in ValuesOf(type) \cup {Null}
      /\ rows \subseteq 1..n
      /\ \A i \in 1..n : i \in rows <=> values[i] = Null
      /\ type # Boolean => Writable(type, values, n, rows)
  BY ColumnShape
<1>2. /\ ArraySent(type, values) = F \o B /\ F \in Seq(Cell) /\ B \in Seq(Cell)
      /\ Len(ArraySent(type, values)) = Len(F) + Len(B)
  BY ArrayBytes
<1>3. Holds(buf, off, F) /\ Holds(buf, behind, B)
  BY <1>2, HoldsJoined
<1>4. NullIndicators(buf, off, n) = [rows |-> rows, off |-> behind]
  BY <1>1, <1>3, IndicatorsRead
<1>5. /\ off \in Nat /\ behind \in Nat /\ Len(B) \in Nat /\ Len(F) \in Nat
      /\ behind + Len(B) = off + (Len(F) + Len(B))
  <2>1. off \in Nat /\ behind \in Nat /\ Len(B) \in Nat /\ Len(F) \in Nat
    BY <1>3 DEF Holds
  <2> DEFINE x == Len(F)
             y == Len(B)
  <2>2. x \in Nat /\ y \in Nat
    BY <2>1
  <2> HIDE DEF x, y
  <2>3. (off + x) + y = off + (x + y)
    BY <2>1, <2>2
  <2> QED
    BY <2>1, <2>3 DEF x, y
<1>6. CASE type = Boolean
  <2>1. read = ByteArrayColumn(buf, off, type, n)
    BY <1>6 DEF ArrayColumn, EncodingOf, ByteArray, Int32Array, Int64Array, BinaryArray
  <2>2. Holds(buf, behind, Bits(TrueRows(values), n, HighFirst))
    BY <1>3, <1>6 DEF Body
  <2>3. HighFirst \in {LowFirst, HighFirst} /\ n <= 8 * ByteCount(n)
    BY BitmapBytes
  <2>4. BooleanArray(buf, behind, n) = {i \in 1..n : i \in TrueRows(values)}
    BY <2>2, <2>3, BitsRead DEF BooleanArray
  <2>5. ByteCount(n) = Len(B)
    BY <1>6, <2>3, BitmapBytes DEF Body
  <2>6. read = Success([i \in 1..n |-> IF i \in BooleanArray(buf, behind, n) THEN 1 ELSE 0],
                       behind + ByteCount(n))
    BY <1>4, <1>6, <2>1 DEF ByteArrayColumn
  <2>7. [i \in 1..n |-> IF i \in BooleanArray(buf, behind, n) THEN 1 ELSE 0] =
          ReadValues(type, values, n)
    BY <1>1, <1>6, <2>4 DEF ReadValues, TrueRows
  <2> HIDE DEF read, behind, B, F
  <2>8. read = Success(ReadValues(type, values, n), off + Len(ArraySent(type, values)))
    BY <1>2, <1>5, <2>5, <2>6, <2>7
  <2> QED
    BY <2>8 DEF ColumnIs, Success, read
<1>7. CASE type # Boolean
  <2>1. read = SkippingNulls(type, buf, off, n)
    <3>1. CASE type \in Fours
      BY <1>7, <3>1 DEF ArrayColumn, EncodingOf, ByteArray, Int32Array, Int64Array,
                        BinaryArray, Int32ArrayColumn
    <3>2. CASE type \in Eights
      <4>1. type \notin Fours
        BY <3>2 DEF Eights, Fours
      <4> QED
        BY <1>7, <3>2, <4>1 DEF ArrayColumn, EncodingOf, ByteArray, Int32Array, Int64Array,
                                BinaryArray, Int64ArrayColumn
    <3>3. CASE type \in Texts
      <4>1. type \notin Fours /\ type \notin Eights
        BY <3>3 DEF Eights, Fours, Texts
      <4> QED
        BY <1>7, <3>3, <4>1 DEF ArrayColumn, EncodingOf, ByteArray, Int32Array, Int64Array,
                                BinaryArray, BinaryArrayColumn
    <3> QED
      BY <1>7, <3>1, <3>2, <3>3 DEF DataTypes
  <2>2. Holds(buf, behind, FlattenSeq(Pieces(type, values, n, rows)))
    BY <1>3, <1>7 DEF Body
  <2>3. ItemsAre(type, buf, behind, n, values, rows)
    BY <1>1, <1>7, <2>2, ItemsRead
  <2>4. /\ Items(type, buf, behind, n, rows).values =
             [i \in 1..n |-> IF i \in rows THEN Null ELSE values[i]]
        /\ Items(type, buf, behind, n, rows).off = behind + Len(B)
    BY <1>7, <2>3 DEF ItemsAre, Body
  <2>5. [i \in 1..n |-> IF i \in rows THEN Null ELSE values[i]] = ReadValues(type, values, n)
    BY <1>1, <1>7 DEF ReadValues
  <2>6. read = Success(Items(type, buf, behind, n, rows).values,
                       Items(type, buf, behind, n, rows).off)
    BY <1>4, <2>1 DEF SkippingNulls
  <2> HIDE DEF read, behind, B, F, rows
  <2>7. read = Success(ReadValues(type, values, n), off + Len(ArraySent(type, values)))
    BY <1>2, <1>5, <2>4, <2>5, <2>6
  <2> QED
    BY <2>7 DEF ColumnIs, Success, read
<1> QED
  BY <1>6, <1>7

\* A column as the server sends it.
IsSendable(column, n) ==
    /\ column.type \in DataTypes
    /\ IsColumn(column.values, column.type, n)
    /\ \/ column.encoding = EncodingOf(column.type)
       \/ /\ column.encoding = Rle
          /\ \E v \in ToSet(column.values) : ToSet(column.values) = {v}

LEMMA EncodingIs ==
    ASSUME NEW type
    PROVE  EncodingOf(type) \in {ByteArray, Int32Array, Int64Array, BinaryArray}
           /\ EncodingOf(type) # Rle /\ EncodingOf(type) \in Int
BY DEF EncodingOf, ByteArray, Int32Array, Int64Array, BinaryArray, Rle

LEMMA ColumnRead ==
    ASSUME NEW n \in Nat, NEW column, IsSendable(column, n), NEW buf, NEW off
    PROVE  /\ ColumnSent(column) \in Seq(Cell)
           /\ Holds(buf, off, ColumnSent(column)) =>
                ColumnIs(ReadColumn(column.encoding, buf, off, column.type, n),
                         ReadValues(column.type, column.values, n), off, Len(ColumnSent(column)))
<1> DEFINE type == column.type
           values == column.values
           e == EncodingOf(type)
<1>1. type \in DataTypes /\ IsColumn(values, type, n)
  BY DEF IsSendable
<1>2. e # Rle /\ e \in Int
  BY EncodingIs
<1>3. CASE column.encoding = e
  <2>1. ColumnSent(column) = ArraySent(type, values)
    BY <1>2, <1>3 DEF ColumnSent
  <2>2. ReadColumn(column.encoding, buf, off, type, n) = ArrayColumn(e, buf, off, type, n)
    BY <1>2, <1>3 DEF ReadColumn
  <2>3. ArraySent(type, values) \in Seq(Cell)
    BY <1>1, ArrayBytes
  <2>4. ASSUME Holds(buf, off, ArraySent(type, values))
        PROVE  ColumnIs(ArrayColumn(e, buf, off, type, n),
                        ReadValues(type, values, n), off, Len(ArraySent(type, values)))
    BY <1>1, <2>4, ArrayRead
  <2> QED
    BY <2>1, <2>2, <2>3, <2>4
<1>4. CASE column.encoding # e
  <2> DEFINE first == SubSeq(values, 1, 1)
  <2>1. /\ column.encoding = Rle
        /\ \E v \in ToSet(values) : ToSet(values) = {v}
    BY <1>4 DEF IsSendable
  <2>2. /\ DOMAIN values = 1..n /\ Len(values) = n
        /\ \A i \in 1..n : values[i] \in ValuesOf(type) \cup {Null}
    BY <1>1, ColumnShape
  <2>3. ToSet(values) = {values[i] : i \in 1..n}
    BY <2>2 DEF ToSet
  <2>4. n >= 1 /\ \A i \in 1..n : values[i] = values[1]
    <3>1. PICK v \in {values[i] : i \in 1..n} : {values[i] : i \in 1..n} = {v}
      BY <2>1, <2>3
    <3>2. \A i \in 1..n : values[i] = v
      BY <3>1
    <3>3. \E i \in 1..n : TRUE
      BY <3>1
    <3> QED
      BY <3>2, <3>3
  <2>5. IsColumn(first, type, 1) /\ first[1] = values[1]
    <3> DEFINE V == ValuesOf(type) \cup {Null}
    <3>1. /\ first \in Seq(V)
          /\ Len(first) = IF 1 <= 1 THEN 1 - 1 + 1 ELSE 0
          /\ \A i \in 1..(1 - 1 + 1) : first[i] = values[1 + i - 1]
      <4>1. \A i \in 1..1 : values[i] \in V
        BY <2>2, <2>4
      <4> HIDE DEF V
      <4> QED
        BY <4>1, SubSeqProperties
    <3>2. Len(first) = 1 /\ first[1] = values[1]
      BY <3>1
    <3> HIDE DEF first
    <3> QED
      BY <3>1, <3>2 DEF IsColumn
  <2> DEFINE A == ArraySent(type, first)
             inner == ArrayColumn(e, buf, off + 1, type, 1)
  <2>6. A \in Seq(Cell)
    <3> HIDE DEF first
    <3> QED
      BY <1>1, <2>5, ArrayBytes
  <2>7. Put(e, 1) \in Seq(Cell) /\ Len(Put(e, 1)) = 1
    <3> HIDE DEF e
    <3> QED
      BY <1>2, PutBytes
  <2>8. ColumnSent(column) = Put(e, 1) \o A
    BY <2>1 DEF ColumnSent
  <2>9. /\ ColumnSent(column) \in Seq(Cell)
        /\ Len(ColumnSent(column)) = 1 + Len(A) /\ Len(A) \in Nat
    <3> HIDE DEF A
    <3>1. Joined(Cell, Put(e, 1), A, Put(e, 1) \o A)
      BY <2>6, <2>7, Concat
    <3> QED
      BY <2>7, <2>8, <3>1 DEF Joined
  <2>10. ASSUME Holds(buf, off, ColumnSent(column))
         PROVE  ColumnIs(ReadColumn(column.encoding, buf, off, type, n),
                         ReadValues(type, values, n), off, Len(ColumnSent(column)))
    <3>1. Holds(buf, off, Put(e, 1)) /\ Holds(buf, off + 1, A)
      <4>1. Holds(buf, off, Put(e, 1) \o A)
        BY <2>8, <2>10
      <4> HIDE DEF A, e
      <4> QED
        BY <4>1, <2>6, <2>7, HoldsJoined
    <3>2. Get(buf, off, 1) = e
      <4> HIDE DEF e
      <4> QED
        BY <1>2, <3>1, GetPut
    <3>3. ColumnIs(inner, ReadValues(type, first, 1), off + 1, Len(A))
      <4> HIDE DEF first
      <4> QED
        BY <1>1, <2>5, <3>1, ArrayRead
    <3>4. ReadColumn(column.encoding, buf, off, type, n) =
            [inner EXCEPT !.values = [i \in 1..n |-> inner.values[1]]]
      BY <2>1, <3>2 DEF ReadColumn, RunLengthColumn
    <3>5. /\ inner.values = ReadValues(type, first, 1)
          /\ inner.off = off + 1 + Len(A)
          /\ inner.failed = FALSE
          /\ inner = [values |-> inner.values, off |-> inner.off, failed |-> inner.failed]
      BY <3>3 DEF ColumnIs
    <3>6. [i \in 1..n |-> inner.values[1]] = ReadValues(type, values, n)
      <4> HIDE DEF inner, first
      <4>1. inner.values[1] =
              IF type = Boolean THEN IF values[1] = 1 THEN 1 ELSE 0 ELSE values[1]
        BY <2>5, <3>5 DEF ReadValues
      <4> QED
        BY <2>4, <4>1 DEF ReadValues
    <3>7. off + 1 + Len(A) = off + Len(ColumnSent(column))
      <4> DEFINE a == Len(A)
      <4>1. off \in Nat /\ a \in Nat /\ Len(ColumnSent(column)) = 1 + a
        BY <2>9, <2>10 DEF Holds
      <4> HIDE DEF a
      <4>2. off + 1 + a = off + (1 + a)
        BY <4>1
      <4> QED
        BY <4>1, <4>2 DEF a
    <3> HIDE DEF inner, A
    <3> QED
      BY <3>4, <3>5, <3>6, <3>7 DEF ColumnIs
  <2> QED
    BY <2>9, <2>10
<1> QED
  BY <1>3, <1>4

\* A sequence of numbers of the same width is read at multiples of it.
EvenNumbers(numbers, n, w) == FlattenSeq([i \in 1..n |-> Put(numbers[i], w)])

EvenlyRead(buf, off, numbers, n, w) ==
    \A i \in 1..n : Get(buf, off + (i - 1) * w, w) = numbers[i]

\* Pieces of the same length, one behind the other.
AreEven(P, n, w) ==
    P \in Seq(Seq(Cell)) /\ Len(P) = n /\ \A i \in 1..n : Len(P[i]) = w

LEMMA EvenPieces ==
    ASSUME NEW n \in Nat, NEW w \in {1, 4, 8}, NEW P, AreEven(P, n, w)
    PROVE  /\ FlattenSeq(P) \in Seq(Cell)
           /\ Len(FlattenSeq(P)) = n * w
           /\ \A buf, off : Holds(buf, off, FlattenSeq(P)) =>
                \A i \in 1..n : Holds(buf, off + (i - 1) * w, P[i])
<1> DEFINE s == FlattenSeq(P)
<1>3. P \in Seq(Seq(Cell)) /\ Len(P) = n
  BY DEF AreEven
<1>4. s \in Seq(Cell)
  BY <1>3, FlattenParts
<1>5. ASSUME NEW buf, NEW off, Holds(buf, off, s)
      PROVE  \E at : Placed(buf, off, P, at) /\ off \in Nat /\ \A i \in 0..n : at[i] = off + i * w
  <2>1. PICK at : Placed(buf, off, P, at)
    BY <1>3, <1>5, PartsPlaced
  <2>2. off \in Nat
    BY <1>5 DEF Holds
  <2>3. Multiples(at, off, n, w)
    <3>1. \A i \in 1..n : Len(P[i]) = w
      BY DEF AreEven
    <3>2. Len(P) = n
      BY <1>3
    <3> QED
      BY <2>1, <2>2, <3>1, <3>2, EvenlyPlaced
  <2> QED
    BY <2>1, <2>2, <2>3 DEF Multiples
<1>6. Len(s) = n * w
  <2>1. Holds(s, 0, s)
    BY <1>4, HoldsSelf
  <2>2. PICK at : Placed(s, 0, P, at) /\ \A i \in 0..n : at[i] = 0 + i * w
    BY <1>5, <2>1
  <2>3. at[n] = 0 + Len(s) /\ Len(s) \in Nat
    BY <1>3, <1>4, <2>2, LenProperties DEF Placed
  <2>4. at[n] = 0 + n * w
    BY <2>2
  <2>5. n * w \in Nat
    OBVIOUS
  <2> HIDE DEF s
  <2> QED
    BY <2>3, <2>4, <2>5
<1>7. ASSUME NEW buf, NEW off, Holds(buf, off, s), NEW i \in 1..n
      PROVE  Holds(buf, off + (i - 1) * w, P[i])
  <2>1. PICK at : Placed(buf, off, P, at) /\ \A j \in 0..n : at[j] = off + j * w
    BY <1>5, <1>7
  <2>2. Holds(buf, at[i - 1], P[i])
    BY <1>3, <2>1 DEF Placed
  <2>3. at[i - 1] = off + (i - 1) * w
    <3>1. i - 1 \in 0..n
      OBVIOUS
    <3> QED
      BY <2>1, <3>1
  <2> QED
    BY <2>2, <2>3
<1> QED
  BY <1>4, <1>6, <1>7 DEF s

LEMMA EvenNumbersRead ==
    ASSUME NEW n \in Nat, NEW w \in {1, 4, 8}, NEW numbers, \A i \in 1..n : numbers[i] \in Int
    PROVE  /\ EvenNumbers(numbers, n, w) \in Seq(Cell)
           /\ Len(EvenNumbers(numbers, n, w)) = n * w
           /\ \A buf, off : Holds(buf, off, EvenNumbers(numbers, n, w)) =>
                               EvenlyRead(buf, off, numbers, n, w)
<1> DEFINE P == [i \in 1..n |-> Put(numbers[i], w)]
<1>1. \A i \in 1..n : P[i] = Put(numbers[i], w) /\ P[i] \in Seq(Cell) /\ Len(P[i]) = w
  <2> TAKE i \in 1..n
  <2>1. numbers[i] \in Int /\ w \in Nat
    OBVIOUS
  <2>2. Put(numbers[i], w) \in Seq(Cell) /\ Len(Put(numbers[i], w)) = w
    BY <2>1, PutBytes
  <2> QED
    BY <2>2
<1>2. P = [i \in 1..n |-> P[i]]
  OBVIOUS
<1> HIDE DEF P
<1>3. /\ FlattenSeq(P) \in Seq(Cell)
      /\ Len(FlattenSeq(P)) = n * w
      /\ \A buf, off : Holds(buf, off, FlattenSeq(P)) =>
           \A i \in 1..n : Holds(buf, off + (i - 1) * w, P[i])
  <2>1. AreEven(P, n, w)
    BY <1>1, <1>2, SeqFrom DEF AreEven
  <2> QED
    BY <2>1, EvenPieces
<1>4. ASSUME NEW buf, NEW off, Holds(buf, off, FlattenSeq(P)), NEW i \in 1..n
      PROVE  Get(buf, off + (i - 1) * w, w) = numbers[i]
  <2>1. Holds(buf, off + (i - 1) * w, Put(numbers[i], w))
    BY <1>1, <1>3, <1>4
  <2>2. numbers[i] \in Int /\ w \in Nat /\ w >= 1
    OBVIOUS
  <2> QED
    BY <2>1, <2>2, GetPut
<1> QED
  BY <1>3, <1>4 DEF EvenNumbers, EvenlyRead, P

LEMMA JoinedBytes ==
    ASSUME NEW s \in Seq(Cell), NEW t \in Seq(Cell)
    PROVE  s \o t \in Seq(Cell) /\ Len(s \o t) = Len(s) + Len(t)
BY Concat DEF Joined

\* Columns of a block of n rows.
AreColumns(columns, n) ==
    /\ Len(columns) \in Nat /\ DOMAIN columns = 1..Len(columns)
    /\ \A c \in 1..Len(columns) : IsSendable(columns[c], n)

\* A block is read as rows of the times and the values.
RowsOf(times, columns, n, ignoreTimeStamp) ==
    [r \in 1..n |->
        (IF ignoreTimeStamp THEN <<>> ELSE <<times[r]>>)
            \o [c \in 1..Len(columns) |-> ReadValues(columns[c].type, columns[c].values, n)[r]]]

LEMMA RowsShape ==
    ASSUME NEW times, NEW columns, NEW n \in Nat, NEW ignoreTimeStamp
    PROVE  LET rows == RowsOf(times, columns, n, ignoreTimeStamp)
           IN  Len(rows) = n /\ rows = [i \in 1..n |-> rows[i]]
<1> DEFINE rows == RowsOf(times, columns, n, ignoreTimeStamp)
<1>1. DOMAIN rows = 1..n /\ rows = [i \in 1..n |-> rows[i]]
  BY DEF RowsOf
<1> HIDE DEF rows
<1>2. Len(rows) = n
  BY <1>1
<1> QED
  BY <1>1, <1>2 DEF rows

LEMMA TimeColumnSendable ==
    ASSUME NEW times \in Seq(Int)
    PROVE  /\ IsSendable(TimeColumn(times), Len(times))
           /\ ReadValues(Timestamp, times, Len(times)) = times
<1>1. /\ Timestamp \in DataTypes /\ Timestamp # Boolean /\ Timestamp \notin Texts
      /\ EncodingOf(Timestamp) = Int64Array
  BY DEF Timestamp, DataTypes, Boolean, Fours, Eights, Texts, EncodingOf
<1>2. ValuesOf(Timestamp) = Int
  BY <1>1 DEF ValuesOf
<1>3. times \in Seq(Int \cup {Null}) /\ Len(times) \in Nat
  BY LenProperties
<1>4. IsColumn(times, Timestamp, Len(times))
  BY <1>2, <1>3 DEF IsColumn
<1>5. ReadValues(Timestamp, times, Len(times)) = times
  BY <1>1 DEF ReadValues
<1> QED
  BY <1>1, <1>4, <1>5 DEF IsSendable, TimeColumn

LEMMA BlockRead ==
    ASSUME NEW times \in Seq(Int), NEW columns, AreColumns(columns, Len(times)),
           NEW ignoreTimeStamp \in BOOLEAN
    PROVE  ParseTsBlock(BlockSent(times, columns), ignoreTimeStamp) =
               RowsOf(times, columns, Len(times), ignoreTimeStamp)
<1> DEFINE n     == Len(times)
           count == Len(columns)
           types     == [c \in 1..count |-> columns[c].type]
           encodings == [c \in 1..count |-> columns[c].encoding]
           C  == [c \in 1..count |-> ColumnSent(columns[c])]
           A1 == Put(count, 4)
           A2 == EvenNumbers(types, count, 1)
           A3 == Put(n, 4)
           A4 == Put(Int64Array, 1)
           A5 == EvenNumbers(encodings, count, 1)
           A6 == ColumnSent(TimeColumn(times))
           A7 == FlattenSeq(C)
           B2 == A1 \o A2
           B3 == B2 \o A3
           B4 == B3 \o A4
           B5 == B4 \o A5
           B6 == B5 \o A6
           buf == B6 \o A7
           k  == Len(A6)
           values(c) == ReadValues(columns[c].type, columns[c].values, n)
<1>1. /\ n \in Nat /\ count \in Nat /\ DOMAIN columns = 1..count
      /\ \A c \in 1..count : IsSendable(columns[c], n)
  BY LenProperties DEF AreColumns
<1>2. BlockSent(times, columns) = buf
  <2>1. /\ [c \in DOMAIN columns |-> Put(columns[c].type, 1)] = [c \in 1..count |-> Put(types[c], 1)]
        /\ [c \in DOMAIN columns |-> Put(columns[c].encoding, 1)] =
             [c \in 1..count |-> Put(encodings[c], 1)]
        /\ [c \in DOMAIN columns |-> ColumnSent(columns[c])] = C
    BY <1>1
  <2> QED
    BY <2>1 DEF BlockSent, EvenNumbers
<1>3. ASSUME NEW c \in 1..count
      PROVE  /\ types[c] \in Int /\ types[c] = columns[c].type
             /\ encodings[c] \in Int /\ encodings[c] = columns[c].encoding
  <2>1. IsSendable(columns[c], n)
    BY <1>1
  <2>2. columns[c].type \in Int
    BY <2>1 DEF IsSendable, DataTypes, Boolean, Fours, Eights, Texts
  <2>3. columns[c].encoding \in Int
    BY <2>1, EncodingIs DEF IsSendable, Rle
  <2> QED
    BY <2>2, <2>3
<1>4. \A c \in 1..count : C[c] = ColumnSent(columns[c]) /\ C[c] \in Seq(Cell)
  <2> TAKE c \in 1..count
  <2>1. IsSendable(columns[c], n)
    BY <1>1
  <2>2. ColumnSent(columns[c]) \in Seq(Cell)
    <3> HIDE DEF n
    <3> QED
      BY <1>1, <2>1, ColumnRead
  <2> QED
    BY <2>2
<1>5. C = [c \in 1..count |-> C[c]]
  OBVIOUS
<1>6. IsSendable(TimeColumn(times), n)
  BY TimeColumnSendable
<1>7. A6 \in Seq(Cell)
  <2> HIDE DEF n
  <2> QED
    BY <1>1, <1>6, ColumnRead
<1> HIDE DEF types, encodings, C, n, count
<1>8. C \in Seq(Seq(Cell)) /\ Len(C) = count
  BY <1>1, <1>4, <1>5, SeqFrom
<1>9. A7 \in Seq(Cell)
  BY <1>8, FlattenParts
<1>10. /\ A1 \in Seq(Cell) /\ Len(A1) = 4
       /\ A2 \in Seq(Cell) /\ Len(A2) = count * 1
       /\ A3 \in Seq(Cell) /\ Len(A3) = 4
       /\ A4 \in Seq(Cell) /\ Len(A4) = 1
       /\ A5 \in Seq(Cell) /\ Len(A5) = count * 1
  <2>1. /\ count \in Int /\ n \in Int /\ 4 \in Nat /\ 1 \in Nat /\ Int64Array \in Int
        /\ 1 \in {1, 4, 8}
    BY <1>1 DEF Int64Array
  <2>2. A1 \in Seq(Cell) /\ Len(A1) = 4 /\ A3 \in Seq(Cell) /\ Len(A3) = 4
    BY <2>1, PutBytes
  <2>3. A4 \in Seq(Cell) /\ Len(A4) = 1
    BY <2>1, PutBytes
  <2>4. A2 \in Seq(Cell) /\ Len(A2) = count * 1
    BY <1>1, <1>3, <2>1, EvenNumbersRead
  <2>5. A5 \in Seq(Cell) /\ Len(A5) = count * 1
    BY <1>1, <1>3, <2>1, EvenNumbersRead
  <2> QED
    BY <2>2, <2>3, <2>4, <2>5
<1>11. k \in Nat /\ Len(A6) = k
  BY <1>7, LenProperties
<1> HIDE DEF A1, A2, A3, A4, A5, A6, A7, k
<1>12. /\ B2 \in Seq(Cell) /\ Len(B2) = 4 + count
       /\ B3 \in Seq(Cell) /\ Len(B3) = 8 + count
       /\ B4 \in Seq(Cell) /\ Len(B4) = 9 + count
       /\ B5 \in Seq(Cell) /\ Len(B5) = 9 + 2 * count
       /\ B6 \in Seq(Cell) /\ Len(B6) = 9 + 2 * count + k
       /\ buf \in Seq(Cell)
  <2>1. B2 \in Seq(Cell) /\ Len(B2) = 4 + count
    <3>1. B2 \in Seq(Cell) /\ Len(B2) = Len(A1) + Len(A2)
      BY <1>10, JoinedBytes
    <3> HIDE DEF B2
    <3> QED
      BY <1>1, <1>10, <3>1
  <2> HIDE DEF B2
  <2>2. B3 \in Seq(Cell) /\ Len(B3) = 8 + count
    <3>1. B3 \in Seq(Cell) /\ Len(B3) = Len(B2) + Len(A3)
      BY <1>10, <2>1, JoinedBytes
    <3> HIDE DEF B3
    <3> QED
      BY <1>1, <1>10, <2>1, <3>1
  <2> HIDE DEF B3
  <2>3. B4 \in Seq(Cell) /\ Len(B4) = 9 + count
    <3>1. B4 \in Seq(Cell) /\ Len(B4) = Len(B3) + Len(A4)
      BY <1>10, <2>2, JoinedBytes
    <3> HIDE DEF B4
    <3> QED
      BY <1>1, <1>10, <2>2, <3>1
  <2> HIDE DEF B4
  <2>4. B5 \in Seq(Cell) /\ Len(B5) = 9 + 2 * count
    <3>1. B5 \in Seq(Cell) /\ Len(B5) = Len(B4) + Len(A5)
      BY <1>10, <2>3, JoinedBytes
    <3> HIDE DEF B5
    <3> QED
      BY <1>1, <1>10, <2>3, <3>1
  <2> HIDE DEF B5
  <2>5. B6 \in Seq(Cell) /\ Len(B6) = 9 + 2 * count + k
    <3>1. B6 \in Seq(Cell) /\ Len(B6) = Len(B5) + Len(A6)
      BY <1>7, <2>4, JoinedBytes
    <3> HIDE DEF B6
    <3> QED
      BY <1>1, <1>11, <2>4, <3>1
  <2> HIDE DEF B6
  <2>6. buf \in Seq(Cell)
    BY <1>9, <2>5, JoinedBytes
  <2> QED
    BY <2>1, <2>2, <2>3, <2>4, <2>5, <2>6
<1>13. Holds(buf, 0, B6) /\ Holds(buf, 0 + Len(B6), A7)
  <2>1. Holds(buf, 0, buf)
    BY <1>12, HoldsSelf
  <2> HIDE DEF B6
  <2> QED
    BY <1>9, <1>12, <2>1, HoldsJoined
<1> HIDE DEF buf
<1>14. Holds(buf, 0, B5) /\ Holds(buf, 0 + Len(B5), A6)
  <2> HIDE DEF B5
  <2> QED
    BY <1>7, <1>12, <1>13, HoldsJoined
<1> HIDE DEF B6
<1>15. Holds(buf, 0, B4) /\ Holds(buf, 0 + Len(B4), A5)
  <2> HIDE DEF B4
  <2> QED
    BY <1>10, <1>12, <1>14, HoldsJoined
<1> HIDE DEF B5
<1>16. Holds(buf, 0, B3) /\ Holds(buf, 0 + Len(B3), A4)
  <2> HIDE DEF B3
  <2> QED
    BY <1>10, <1>12, <1>15, HoldsJoined
<1> HIDE DEF B4
<1>17. Holds(buf, 0, B2) /\ Holds(buf, 0 + Len(B2), A3)
  <2> HIDE DEF B2
  <2> QED
    BY <1>10, <1>12, <1>16, HoldsJoined
<1> HIDE DEF B3
<1>18. Holds(buf, 0, A1) /\ Holds(buf, 0 + Len(A1), A2)
  BY <1>10, <1>12, <1>17, HoldsJoined
<1> HIDE DEF B2
<1>19. /\ Holds(buf, 4, A2) /\ Holds(buf, 4 + count, A3) /\ Holds(buf, 8 + count, A4)
       /\ Holds(buf, 9 + count, A5) /\ Holds(buf, 9 + 2 * count, A6)
       /\ Holds(buf, 9 + 2 * count + k, A7)
  <2>1. /\ 0 + 4 = 4 /\ 0 + (4 + count) = 4 + count /\ 0 + (8 + count) = 8 + count
        /\ 0 + (9 + count) = 9 + count /\ 0 + (9 + 2 * count) = 9 + 2 * count
        /\ 0 + (9 + 2 * count + k) = 9 + 2 * count + k
    BY <1>1, <1>11
  <2> QED
    BY <1>10, <1>12, <1>13, <1>14, <1>15, <1>16, <1>17, <1>18, <2>1
<1>20. /\ Get(buf, 0, 4) = count
       /\ Get(buf, 4 + count, 4) = n
       /\ Get(buf, 8 + count, 1) = Int64Array
  <2>1. count \in Int /\ n \in Int /\ 4 \in Nat /\ 1 \in Nat /\ Int64Array \in Int
    BY <1>1 DEF Int64Array
  <2>2. Get(buf, 0, 4) = count
    BY <1>18, <2>1, GetPut DEF A1
  <2>3. Get(buf, 4 + count, 4) = n
    BY <1>19, <2>1, GetPut DEF A3
  <2>4. Get(buf, 8 + count, 1) = Int64Array
    BY <1>19, <2>1, GetPut DEF A4
  <2> QED
    BY <2>2, <2>3, <2>4
<1>21. ASSUME NEW c \in 1..count
       PROVE  /\ Get(buf, 4 + c - 1, 1) = columns[c].type
              /\ Get(buf, 9 + count + c - 1, 1) = columns[c].encoding
  <2>1. 1 \in {1, 4, 8}
    OBVIOUS
  <2>2. Get(buf, 4 + (c - 1) * 1, 1) = types[c]
    BY <1>1, <1>3, <1>19, <2>1, EvenNumbersRead DEF A2, EvenlyRead
  <2>3. Get(buf, (9 + count) + (c - 1) * 1, 1) = encodings[c]
    <3> DEFINE o == 9 + count
    <3>1. Holds(buf, o, A5)
      BY <1>19
    <3> HIDE DEF o
    <3>2. EvenlyRead(buf, o, encodings, count, 1)
      BY <1>1, <1>3, <2>1, <3>1, EvenNumbersRead DEF A5
    <3>3. Get(buf, o + (c - 1) * 1, 1) = encodings[c]
      BY <3>2 DEF EvenlyRead
    <3> QED
      BY <3>3 DEF o
  <2>4. /\ 4 + (c - 1) * 1 = 4 + c - 1
        /\ (9 + count) + (c - 1) * 1 = 9 + count + c - 1
    BY <1>1
  <2> QED
    BY <1>3, <2>2, <2>3, <2>4
<1>22. PICK p : Placed(buf, 9 + 2 * count + k, C, p)
  BY <1>8, <1>19, PartsPlaced DEF A7
<1>23. /\ p[0] = 9 + 2 * count + k
       /\ p \in [0..count -> Nat]
       /\ \A c \in 1..count : p[c] = p[c - 1] + Len(C[c]) /\ Holds(buf, p[c - 1], C[c])
  BY <1>8, <1>22 DEF Placed
<1>24. ASSUME NEW c \in 1..count
       PROVE  /\ ReadColumn(columns[c].encoding, buf, p[c - 1], columns[c].type, n).values = values(c)
              /\ ReadColumn(columns[c].encoding, buf, p[c - 1], columns[c].type, n).off = p[c]
  <2>1. IsSendable(columns[c], n) /\ Holds(buf, p[c - 1], ColumnSent(columns[c]))
    BY <1>1, <1>4, <1>23
  <2>2. ColumnIs(ReadColumn(columns[c].encoding, buf, p[c - 1], columns[c].type, n),
                 values(c), p[c - 1], Len(ColumnSent(columns[c])))
    BY <1>1, <2>1, ColumnRead
  <2>3. p[c] = p[c - 1] + Len(ColumnSent(columns[c]))
    BY <1>4, <1>23
  <2> QED
    BY <2>2, <2>3 DEF ColumnIs
<1>25. /\ ReadColumn(Int64Array, buf, 9 + 2 * count, Timestamp, n).values = times
       /\ ReadColumn(Int64Array, buf, 9 + 2 * count, Timestamp, n).off = p[0]
  <2> DEFINE column == TimeColumn(times)
  <2>1. column.encoding = Int64Array /\ column.type = Timestamp /\ column.values = times
    BY DEF TimeColumn
  <2>2. Holds(buf, 9 + 2 * count, ColumnSent(column))
    BY <1>19 DEF A6
  <2>3. ReadValues(Timestamp, times, n) = times
    BY TimeColumnSendable DEF n
  <2>4. IsSendable(column, n)
    BY <1>6
  <2>5. k = Len(ColumnSent(column))
    BY DEF k, A6
  <2> HIDE DEF column
  <2>6. ColumnIs(ReadColumn(column.encoding, buf, 9 + 2 * count, column.type, n),
                 ReadValues(column.type, column.values, n), 9 + 2 * count, Len(ColumnSent(column)))
    BY <1>1, <2>2, <2>4, ColumnRead
  <2> QED
    BY <1>23, <2>1, <2>3, <2>5, <2>6 DEF ColumnIs
<1> HIDE DEF values
<1> DEFINE Count == Get(buf, 0, 4)
           N     == Get(buf, 4 + Count, 4)
           Type(c)     == Get(buf, 4 + c - 1, 1)
           Encoding(c) == Get(buf, 9 + Count + c - 1, 1)
           head  == 9 + 2 * Count
           time  == IF HasTimeColumn(ignoreTimeStamp)
                    THEN ReadColumn(Get(buf, 8 + Count, 1), buf, head, Timestamp, N)
                    ELSE Success(<<>>, head)
           IsEnds(ends) == ends = [c \in 0..Count |->
               IF c = 0 THEN time.off ELSE ReadColumn(Encoding(c), buf, ends[c - 1], Type(c), N).off]
           ends == CHOOSE f : IsEnds(f)
           read == [c \in 1..Count |-> ReadColumn(Encoding(c), buf, ends[c - 1], Type(c), N)]
<1>26. ParseTsBlock(buf, ignoreTimeStamp) =
         [r \in 1..N |->
            (IF ignoreTimeStamp THEN <<>> ELSE <<time.values[r]>>)
                \o [c \in 1..Count |-> read[c].values[r]]]
  BY DEF ParseTsBlock
<1>27. /\ Count = count /\ N = n
       /\ \A c \in 1..count : Type(c) = columns[c].type /\ Encoding(c) = columns[c].encoding
       /\ time.values = times /\ time.off = p[0]
  <2>1. Count = count /\ N = n
    BY <1>20
  <2>2. \A c \in 1..count : Type(c) = columns[c].type /\ Encoding(c) = columns[c].encoding
    BY <1>21, <2>1
  <2>3. time = ReadColumn(Int64Array, buf, 9 + 2 * count, Timestamp, n)
    BY <1>20 DEF HasTimeColumn
  <2> QED
    BY <1>25, <2>1, <2>2, <2>3
<1> HIDE DEF time, Count, N, Type, Encoding
<1>28. \A c \in 0..count : ends[c] = p[c]
  <2>1. 0 \in 0..count /\ \A c \in 1..count : c \in 0..count /\ c - 1 \in 0..count /\ c # 0
    BY <1>1
  <2>2. p = [c \in 0..Count |->
               IF c = 0 THEN time.off ELSE ReadColumn(Encoding(c), buf, p[c - 1], Type(c), N).off]
    <3>1. \A c \in 1..count : ReadColumn(Encoding(c), buf, p[c - 1], Type(c), N).off = p[c]
      BY <1>24, <1>27
    <3> QED
      BY <1>1, <1>23, <1>27, <3>1
  <2>3. IsEnds(p)
    BY <2>2
  <2>4. IsEnds(ends)
    <3> HIDE DEF IsEnds
    <3> QED
      BY <2>3
  <2>5. /\ ends[0] = p[0]
        /\ \A c \in 1..count : ends[c] = ReadColumn(Encoding(c), buf, ends[c - 1], Type(c), N).off
    <3> HIDE DEF ends
    <3> QED
      BY <1>27, <2>1, <2>4
  <2> HIDE DEF ends, IsEnds, read
  <2>6. \A c \in 1..count : ends[c - 1] = p[c - 1] => ends[c] = p[c]
    <3>1. ASSUME NEW c \in 1..count, ends[c - 1] = p[c - 1] PROVE ends[c] = p[c]
      BY <1>24, <1>27, <2>5, <3>1
    <3> QED
      BY <3>1
  <2>7. count \in Nat /\ ends[0] = p[0]
    BY <1>1, <2>5
  <2> QED
    BY <2>6, <2>7, SameSteps
<1> HIDE DEF ends, IsEnds
<1>29. ASSUME NEW c \in 1..count PROVE read[c].values = values(c)
  <2>1. ends[c - 1] = p[c - 1]
    <3>1. c - 1 \in 0..count
      BY <1>1
    <3> QED
      BY <1>28, <3>1
  <2>2. read[c] = ReadColumn(columns[c].encoding, buf, p[c - 1], columns[c].type, n)
    BY <1>27, <2>1
  <2> HIDE DEF read
  <2> QED
    BY <1>24, <2>2
<1> HIDE DEF read
<1>30. [r \in 1..N |->
            (IF ignoreTimeStamp THEN <<>> ELSE <<time.values[r]>>)
                \o [c \in 1..Count |-> read[c].values[r]]] =
       RowsOf(times, columns, n, ignoreTimeStamp)
  <2>1. ASSUME NEW r \in 1..n
        PROVE  [c \in 1..Count |-> read[c].values[r]] =
               [c \in 1..count |-> ReadValues(columns[c].type, columns[c].values, n)[r]]
    BY <1>27, <1>29 DEF values
  <2> QED
    BY <1>27, <2>1 DEF RowsOf, count
<1> QED
  BY <1>2, <1>26, <1>30 DEF n

\* The pieces of X and of Y have the same lengths, so their elements are at the same places.
Paired(X, Y) ==
    /\ Len(FlattenSeq(X)) = Len(FlattenSeq(Y))
    /\ DOMAIN FlattenSeq(X) = 1..Len(FlattenSeq(X))
    /\ \A r \in 1..Len(FlattenSeq(X)) :
         \E b \in 1..Len(X) : \E i \in 1..Len(X[b]) :
            FlattenSeq(X)[r] = X[b][i] /\ FlattenSeq(Y)[r] = Y[b][i]

LEMMA SameLayout ==
    ASSUME NEW V, NEW X \in Seq(Seq(V)), NEW W, NEW Y \in Seq(Seq(W)), Len(X) = Len(Y),
           \A b \in 1..Len(X) : Len(X[b]) = Len(Y[b])
    PROVE  Paired(X, Y)
<1> DEFINE n == Len(X)
           s == FlattenSeq(X)
           t == FlattenSeq(Y)
<1>1. n \in Nat
  BY LenProperties
<1>2. s \in Seq(V) /\ \E at : Laid(s, X, at)
  BY FlattenParts
<1>3. t \in Seq(W) /\ \E at : Laid(t, Y, at)
  BY FlattenParts
<1>4. PICK p : Laid(s, X, p)
  BY <1>2
<1>5. PICK q : Laid(t, Y, q)
  BY <1>3
<1>6. /\ p \in [0..n -> Nat] /\ p[0] = 0 /\ p[n] = Len(s)
      /\ \A b \in 1..n : p[b] = p[b - 1] + Len(X[b])
      /\ \A b \in 1..n : \A k \in 1..Len(X[b]) : s[p[b - 1] + k] = X[b][k]
      /\ \A j \in 1..Len(s) : \E b \in 1..n : \E k \in 1..Len(X[b]) : j = p[b - 1] + k
  BY <1>4 DEF Laid
<1>7. /\ q \in [0..n -> Nat] /\ q[0] = 0 /\ q[n] = Len(t)
      /\ \A b \in 1..n : q[b] = q[b - 1] + Len(X[b])
      /\ \A b \in 1..n : \A k \in 1..Len(X[b]) : t[q[b - 1] + k] = Y[b][k]
  BY <1>5 DEF Laid
<1> HIDE DEF n, s, t
<1>8. \A b \in 0..n : p[b] = q[b]
  <2>1. p[0] = q[0]
    BY <1>6, <1>7
  <2>2. \A b \in 1..n : p[b - 1] = q[b - 1] => p[b] = q[b]
    BY <1>6, <1>7
  <2> QED
    BY <1>1, <2>1, <2>2, SameSteps
<1>9. Len(s) = Len(t)
  <2>1. n \in 0..n
    BY <1>1
  <2> QED
    BY <1>6, <1>7, <1>8, <2>1
<1>10. ASSUME NEW r \in 1..Len(s)
       PROVE  \E b \in 1..n : \E i \in 1..Len(X[b]) : s[r] = X[b][i] /\ t[r] = Y[b][i]
  <2>1. PICK b \in 1..n : \E k \in 1..Len(X[b]) : r = p[b - 1] + k
    BY <1>6
  <2>2. PICK k \in 1..Len(X[b]) : r = p[b - 1] + k
    BY <2>1
  <2>3. p[b - 1] = q[b - 1]
    <3>1. b - 1 \in 0..n
      BY <1>1
    <3> QED
      BY <1>8, <3>1
  <2>4. s[r] = X[b][k]
    BY <1>6, <2>2
  <2>5. t[r] = Y[b][k]
    BY <1>7, <2>2, <2>3
  <2> QED
    BY <2>4, <2>5
<1>11. DOMAIN s = 1..Len(s)
  BY <1>2, LenProperties
<1> QED
  BY <1>9, <1>10, <1>11 DEF Paired, n, s, t

\* What next() makes of a row.
LEMMA RowParts ==
    ASSUME NEW t, NEW count \in Nat, NEW fields, fields = [c \in 1..count |-> fields[c]],
           NEW ignoreTimeStamp \in BOOLEAN
    PROVE  LET row == (IF ignoreTimeStamp THEN <<>> ELSE <<t>>) \o fields
           IN  /\ TimestampOf(row, ignoreTimeStamp) = IF ignoreTimeStamp THEN 0 ELSE t
               /\ FieldsOf(row, ignoreTimeStamp) = fields
<1> DEFINE V == {t} \cup {fields[c] : c \in 1..count}
<1>1. <<t>> \in Seq(V) /\ fields \in Seq(V) /\ Len(fields) = count
  <2>1. \A c \in 1..count : fields[c] \in V
    OBVIOUS
  <2>2. t \in V
    OBVIOUS
  <2> HIDE DEF V
  <2>3. <<t>> \in Seq(V)
    BY <2>2
  <2> QED
    BY <2>1, <2>3, SeqFrom
<1> HIDE DEF V
<1>2. CASE ignoreTimeStamp
  <2>1. <<>> \o fields = fields
    BY <1>1, ConcatEmptySeq
  <2> QED
    BY <1>2, <2>1 DEF TimestampOf, FieldsOf
<1>3. CASE ~ ignoreTimeStamp
  <2> DEFINE row == <<t>> \o fields
  <2>1. Joined(V, <<t>>, fields, row)
    BY <1>1, Concat
  <2>2. Len(<<t>>) = 1 /\ <<t>>[1] = t
    OBVIOUS
  <2>3. row \in Seq(V) /\ Len(row) = 1 + count /\ row[1] = t /\ \A c \in 1..count : row[1 + c] = fields[c]
    <3> HIDE DEF row
    <3>1. 1 \in 1..1
      OBVIOUS
    <3> QED
      BY <1>1, <2>1, <2>2, <3>1 DEF Joined
  <2> HIDE DEF row
  <2>4. row # <<>>
    BY <2>3
  <2>5. Tail(row) \in Seq(V) /\ Len(Tail(row)) = count /\ \A c \in 1..count : Tail(row)[c] = fields[c]
    <3>1. /\ Tail(row) \in Seq(V) /\ Len(Tail(row)) = Len(row) - 1
          /\ \A c \in 1..Len(Tail(row)) : Tail(row)[c] = row[c + 1]
      BY <2>3, <2>4, HeadTailProperties
    <3>2. Len(Tail(row)) = count
      BY <2>3, <3>1
    <3>3. \A c \in 1..count : c + 1 = 1 + c
      OBVIOUS
    <3> QED
      BY <2>3, <3>1, <3>2, <3>3
  <2>6. Tail(row) = fields
    BY <1>1, <2>5, SeqEqual
  <2> QED
    BY <1>3, <2>3, <2>6 DEF TimestampOf, FieldsOf, row
<1> QED
  BY <1>2, <1>3

LEMMA TableShape ==
    ASSUME NEW table, IsTable(table)
    PROVE  /\ table.times \in Seq(Int) /\ Len(table.times) \in Nat
           /\ DOMAIN table.times = 1..Len(table.times)
           /\ AreColumns(table.columns, Len(table.times))
<1>1. /\ table.times \in Seq(Int)
      /\ table.columns \in Seq([type : DataTypes, encoding : Nat, values : Seq(Int \cup {Null})])
  BY DEF IsTable
<1>2. /\ Len(table.times) \in Nat /\ DOMAIN table.times = 1..Len(table.times)
      /\ Len(table.columns) \in Nat /\ DOMAIN table.columns = 1..Len(table.columns)
  BY <1>1, LenProperties
<1>3. ASSUME NEW c \in 1..Len(table.columns) PROVE IsSendable(table.columns[c], Len(table.times))
  <2>1. table.columns[c] \in [type : DataTypes, encoding : Nat, values : Seq(Int \cup {Null})]
    BY <1>1, ElementOfSeq
  <2>2. table.columns[c].type \in DataTypes
    BY <2>1
  <2>3. /\ IsColumn(table.columns[c].values, table.columns[c].type, Len(table.times))
        /\ \/ table.columns[c].encoding = EncodingOf(table.columns[c].type)
           \/ /\ table.columns[c].encoding = Rle
              /\ \E v \in ToSet(table.columns[c].values) : ToSet(table.columns[c].values) = {v}
    BY <1>2 DEF IsTable
  <2> QED
    BY <2>2, <2>3 DEF IsSendable
<1> QED
  BY <1>1, <1>2, <1>3 DEF AreColumns

\* A value that is read is the one that was sent, or it is a null boolean.
LEMMA ValueRead ==
    ASSUME NEW n \in Nat, NEW column, IsSendable(column, n), NEW i \in 1..n
    PROVE  LET v == column.values[i]
               x == ReadValues(column.type, column.values, n)[i]
           IN  IF v = Null THEN x = Null \/ column.type = Boolean ELSE x = v
<1> DEFINE v == column.values[i]
           x == ReadValues(column.type, column.values, n)[i]
<1>1. v \in ValuesOf(column.type) \cup {Null}
  BY ColumnShape DEF IsSendable
<1>2. x = IF column.type = Boolean THEN IF v = 1 THEN 1 ELSE 0 ELSE v
  BY DEF ReadValues
<1>3. column.type = Boolean /\ v # Null => v \in {0, 1}
  BY <1>1 DEF ValuesOf
<1> HIDE DEF v, x
<1>4. IF v = Null THEN x = Null \/ column.type = Boolean ELSE x = v
  BY <1>2, <1>3
<1> QED
  BY <1>4 DEF v, x

\* A name has a place in the row, and there is the column with this name.
LEMMA IndexIs ==
    ASSUME ResultSample, NEW b \in DOMAIN sample, AreColumns(sample[b].columns, Len(sample[b].times)),
           NEW c \in ColumnNames(b)
    PROVE  /\ IndexOf(options.mapping, c) \in 1..Len(sample[b].columns)
           /\ Named(b, c) = sample[b].columns[IndexOf(options.mapping, c)]
<1> DEFINE mapping == options.mapping
<1>1. /\ Len(sample[b].columns) \in Nat
      /\ DOMAIN sample[b].columns = 1..Len(sample[b].columns)
  BY DEF AreColumns
<1>2. mapping \in Mappings \cup {<<>>}
  BY DEF ResultSample
<1>3. \A k \in DOMAIN mapping : mapping[k] < Len(sample[b].columns)
  BY DEF ResultSample
<1> HIDE DEF mapping
<1>4. CASE mapping = <<>>
  <2>1. c \in DOMAIN sample[b].columns
    BY <1>4 DEF ColumnNames, mapping
  <2> QED
    BY <1>1, <1>4, <2>1 DEF IndexOf, Named, mapping
<1>5. CASE mapping # <<>>
  <2>1. c \in DOMAIN mapping
    BY <1>5 DEF ColumnNames, mapping
  <2>2. mapping \in Seq(Nat)
    BY <1>2, <1>5, SampleAssumption
  <2>3. mapping[c] \in Nat
    BY <2>1, <2>2, LenProperties, ElementOfSeq
  <2>4. mapping[c] + 1 \in 1..Len(sample[b].columns)
    BY <1>1, <1>3, <2>1, <2>3
  <2> QED
    BY <1>5, <2>4 DEF IndexOf, Named, mapping
<1> QED
  BY <1>4, <1>5

\* A row arrives when its values do.
LEMMA RowArrivesWhen ==
    ASSUME ResultSample, NEW b \in DOMAIN sample, AreColumns(sample[b].columns, Len(sample[b].times)),
           NEW i, NEW fields, fields = [c \in 1..Len(sample[b].columns) |-> fields[c]],
           \A c \in 1..Len(sample[b].columns) : ValueArrives(sample[b].columns[c], i, fields[c]),
           NEW t, kind = "blocks" \/ options.littleTimes => t = sample[b].times[i]
    PROVE  RowArrives((IF options.ignoreTimeStamp THEN <<>> ELSE <<t>>) \o fields, Place(b, i))
<1> DEFINE ign == options.ignoreTimeStamp
           row == (IF ign THEN <<>> ELSE <<t>>) \o fields
           count == Len(sample[b].columns)
<1>1. ign \in BOOLEAN
  BY DEF ResultSample
<1>2. count \in Nat
  BY DEF AreColumns
<1>3. TimestampOf(row, ign) = (IF ign THEN 0 ELSE t) /\ FieldsOf(row, ign) = fields
  <2> HIDE DEF ign, count
  <2>1. fields = [c \in 1..count |-> fields[c]]
    BY DEF count
  <2> QED
    BY <1>1, <1>2, <2>1, RowParts
<1>4. ASSUME NEW c \in ColumnNames(b)
      PROVE  ValueArrives(Named(b, c), i, GetValue(row, ign, options.mapping, c))
  <2> DEFINE k == IndexOf(options.mapping, c)
  <2>1. k \in 1..count /\ Named(b, c) = sample[b].columns[k]
    BY IndexIs
  <2>2. GetValue(row, ign, options.mapping, c) = fields[k]
    BY <1>3 DEF GetValue
  <2> HIDE DEF k, row, ign
  <2>3. ValueArrives(sample[b].columns[k], i, fields[k])
    BY <2>1
  <2> QED
    BY <2>1, <2>2, <2>3
<1>5. Place(b, i).block = b /\ Place(b, i).row = i
  BY DEF Place
<1> HIDE DEF row
<1>6. RowArrives(row, Place(b, i))
  BY <1>3, <1>4, <1>5 DEF RowArrives, TimeArrives
<1> QED
  BY <1>6 DEF row

\* The places of the rows, block by block.
PlacesOf(b) == [i \in 1..Len(sample[b].times) |-> Place(b, i)]

LEMMA PlacesAre ==
    ASSUME NEW m \in Nat, DOMAIN sample = 1..m,
           \A b \in 1..m : DOMAIN sample[b].times = 1..Len(sample[b].times) /\ Len(sample[b].times) \in Nat
    PROVE  \E W : /\ [b \in 1..m |-> PlacesOf(b)] \in Seq(Seq(W))
                  /\ Len([b \in 1..m |-> PlacesOf(b)]) = m
                  /\ Places = FlattenSeq([b \in 1..m |-> PlacesOf(b)])
                  /\ \A b \in 1..m : Len(PlacesOf(b)) = Len(sample[b].times)
<1> DEFINE W == [block : 1..m, row : Nat]
           Y == [b \in 1..m |-> PlacesOf(b)]
<1>1. ASSUME NEW b \in 1..m PROVE PlacesOf(b) \in Seq(W) /\ Len(PlacesOf(b)) = Len(sample[b].times)
  <2> DEFINE n == Len(sample[b].times)
  <2>1. n \in Nat
    OBVIOUS
  <2> HIDE DEF n
  <2>2. \A i \in 1..n : Place(b, i) \in W
    BY DEF Place
  <2>3. PlacesOf(b) = [i \in 1..n |-> Place(b, i)]
    BY DEF PlacesOf, n
  <2> HIDE DEF W
  <2>4. PlacesOf(b) \in Seq(W) /\ Len(PlacesOf(b)) = n
    BY <2>1, <2>2, <2>3
  <2> QED
    BY <2>4 DEF n
<1>2. Y = [b \in 1..m |-> Y[b]] /\ \A b \in 1..m : Y[b] = PlacesOf(b)
  OBVIOUS
<1>3. [b \in DOMAIN sample |-> [i \in DOMAIN sample[b].times |-> Place(b, i)]] = Y
  BY DEF PlacesOf
<1>4. Places = FlattenSeq(Y)
  BY <1>3 DEF Places
<1> HIDE DEF Y, W
<1>5. Y \in Seq(Seq(W)) /\ Len(Y) = m
  BY <1>1, <1>2, SeqFrom
<1> QED
  BY <1>1, <1>4, <1>5 DEF Y

\* The rows of blocks arrive.
LEMMA BlocksArrive ==
    ASSUME ResultSample, kind = "blocks",
           got = ParseQueryResult([b \in DOMAIN sample |->
                                      BlockSent(sample[b].times, sample[b].columns)],
                                  options.ignoreTimeStamp)
    PROVE  /\ Len(got) = Len(Places)
           /\ \A r \in DOMAIN got : RowArrives(got[r], Places[r])
<1> DEFINE m == Len(sample)
           ign == options.ignoreTimeStamp
           X == [b \in 1..m |-> RowsOf(sample[b].times, sample[b].columns,
                                       Len(sample[b].times), ign)]
           Y == [b \in 1..m |-> PlacesOf(b)]
<1>1. /\ m \in Nat /\ DOMAIN sample = 1..m /\ ign \in BOOLEAN
      /\ \A b \in 1..m : IsTable(sample[b])
  <2>1. sample \in BlockResults /\ ign \in BOOLEAN
    BY DEF ResultSample
  <2>2. /\ sample = [b \in 1..Len(sample) |-> sample[b]] /\ Len(sample) \in Nat
        /\ \A b \in DOMAIN sample : IsTable(sample[b])
    BY <2>1, SampleAssumption
  <2> QED
    BY <2>1, <2>2
<1> HIDE DEF m, ign
<1>2. ASSUME NEW b \in 1..m
      PROVE  /\ sample[b].times \in Seq(Int) /\ Len(sample[b].times) \in Nat
             /\ DOMAIN sample[b].times = 1..Len(sample[b].times)
             /\ AreColumns(sample[b].columns, Len(sample[b].times))
  <2> DEFINE table == sample[b]
  <2>1. IsTable(table)
    BY <1>1
  <2> HIDE DEF table
  <2>2. /\ table.times \in Seq(Int) /\ Len(table.times) \in Nat
        /\ DOMAIN table.times = 1..Len(table.times)
        /\ AreColumns(table.columns, Len(table.times))
    BY <2>1, TableShape
  <2> QED
    BY <2>2 DEF table
<1>3. \A b \in 1..m : ParseTsBlock(BlockSent(sample[b].times, sample[b].columns), ign) = X[b]
  <2> TAKE b \in 1..m
  <2>1. ParseTsBlock(BlockSent(sample[b].times, sample[b].columns), ign) =
          RowsOf(sample[b].times, sample[b].columns, Len(sample[b].times), ign)
    BY <1>1, <1>2, BlockRead
  <2> QED
    BY <2>1
<1>4. X = [b \in 1..m |-> X[b]]
  OBVIOUS
<1>5. got = FlattenSeq(X)
  <2> DEFINE S == [b \in 1..m |-> BlockSent(sample[b].times, sample[b].columns)]
  <2>1. got = ParseQueryResult(S, ign)
    BY <1>1 DEF ign
  <2>2. DOMAIN S = 1..m /\ \A b \in 1..m : S[b] = BlockSent(sample[b].times, sample[b].columns)
    OBVIOUS
  <2> HIDE DEF S, X
  <2>3. [b \in DOMAIN S |-> ParseTsBlock(S[b], ign)] = X
    BY <1>3, <1>4, <2>2
  <2> QED
    BY <2>1, <2>3 DEF ParseQueryResult
<1>6. \A b \in 1..m : /\ Len(X[b]) = Len(sample[b].times)
                      /\ X[b] = [i \in 1..Len(sample[b].times) |-> X[b][i]]
  <2> TAKE b \in 1..m
  <2> DEFINE n == Len(sample[b].times)
             rows == RowsOf(sample[b].times, sample[b].columns, n, ign)
  <2>1. X[b] = rows /\ n \in Nat
    BY <1>2
  <2> HIDE DEF X
  <2>2. Len(rows) = n /\ rows = [i \in 1..n |-> rows[i]]
    <3> HIDE DEF n
    <3> QED
      BY <2>1, RowsShape
  <2> HIDE DEF rows
  <2> QED
    BY <2>1, <2>2
<1> DEFINE V == UNION {{X[b][i] : i \in 1..Len(sample[b].times)} : b \in 1..m}
<1>7. \A b \in 1..m : \A i \in 1..Len(sample[b].times) : X[b][i] \in V
  OBVIOUS
<1> HIDE DEF X, V
<1>8. ASSUME NEW b \in 1..m PROVE X[b] \in Seq(V)
  <2> DEFINE n == Len(sample[b].times)
             s == X[b]
  <2>1. n \in Nat /\ s = [i \in 1..n |-> s[i]] /\ \A i \in 1..n : s[i] \in V
    BY <1>2, <1>6, <1>7
  <2> HIDE DEF n, s
  <2>2. s \in Seq(V)
    BY <2>1, SeqFrom
  <2> QED
    BY <2>2 DEF s
<1>9. X \in Seq(Seq(V)) /\ Len(X) = m
  BY <1>1, <1>4, <1>8, SeqFrom
<1>10. \A b \in 1..m : DOMAIN sample[b].times = 1..Len(sample[b].times) /\ Len(sample[b].times) \in Nat
  BY <1>2
<1>11. PICK W : /\ Y \in Seq(Seq(W)) /\ Len(Y) = m
                /\ Places = FlattenSeq(Y)
                /\ \A b \in 1..m : Len(PlacesOf(b)) = Len(sample[b].times)
  BY <1>1, <1>10, PlacesAre
<1>12. \A b \in 1..m : Y[b] = PlacesOf(b)
  OBVIOUS
<1> HIDE DEF Y
<1>13. Paired(X, Y)
  <2>1. Len(X) = Len(Y) /\ \A b \in 1..Len(X) : Len(X[b]) = Len(Y[b])
    BY <1>6, <1>9, <1>11, <1>12
  <2> QED
    BY <1>9, <1>11, <2>1, SameLayout
<1>14. ASSUME NEW b \in 1..m, NEW i \in 1..Len(sample[b].times)
       PROVE  RowArrives(X[b][i], Place(b, i))
  <2> DEFINE n == Len(sample[b].times)
             columns == sample[b].columns
             fields == [c \in 1..Len(columns) |-> ReadValues(columns[c].type, columns[c].values, n)[i]]
  <2>1. X[b][i] = (IF ign THEN <<>> ELSE <<sample[b].times[i]>>) \o fields
    BY DEF X, RowsOf
  <2>2. fields = [c \in 1..Len(columns) |-> fields[c]]
    OBVIOUS
  <2>3. AreColumns(columns, n) /\ n \in Nat
    BY <1>2
  <2>4. ASSUME NEW c \in 1..Len(columns) PROVE ValueArrives(columns[c], i, fields[c])
    <3> DEFINE column == columns[c]
               x == ReadValues(column.type, column.values, n)[i]
    <3>1. IsSendable(column, n)
      BY <2>3 DEF AreColumns
    <3>2. fields[c] = x
      OBVIOUS
    <3> HIDE DEF column, fields, n
    <3>3. IF column.values[i] = Null THEN x = Null \/ column.type = Boolean ELSE x = column.values[i]
      <4>1. i \in 1..n
        BY DEF n
      <4> QED
        BY <2>3, <3>1, <4>1, ValueRead
    <3> HIDE DEF x
    <3>4. kind = "blocks" /\ kind # "dataset"
      OBVIOUS
    <3>5. ValueArrives(column, i, x)
      BY <3>3, <3>4 DEF ValueArrives, IsNull
    <3> QED
      BY <3>2, <3>5 DEF column
  <2> HIDE DEF fields
  <2>5. RowArrives((IF options.ignoreTimeStamp THEN <<>> ELSE <<sample[b].times[i]>>) \o fields,
                   Place(b, i))
    BY <1>1, <2>2, <2>3, <2>4, RowArrivesWhen
  <2> QED
    BY <2>1, <2>5 DEF ign
<1>15. ASSUME NEW r \in DOMAIN got PROVE RowArrives(got[r], Places[r])
  <2>1. r \in 1..Len(FlattenSeq(X))
    BY <1>5, <1>13 DEF Paired
  <2>2. PICK b \in 1..Len(X) : \E i \in 1..Len(X[b]) :
           FlattenSeq(X)[r] = X[b][i] /\ FlattenSeq(Y)[r] = Y[b][i]
    BY <1>13, <2>1 DEF Paired
  <2>3. PICK i \in 1..Len(X[b]) : FlattenSeq(X)[r] = X[b][i] /\ FlattenSeq(Y)[r] = Y[b][i]
    BY <2>2
  <2>4. b \in 1..m /\ i \in 1..Len(sample[b].times)
    BY <1>6, <1>9
  <2>5. Y[b][i] = Place(b, i)
    BY <1>12, <2>4 DEF PlacesOf
  <2> QED
    BY <1>5, <1>11, <1>14, <2>3, <2>4, <2>5
<1>16. Len(got) = Len(Places)
  BY <1>5, <1>11, <1>13 DEF Paired
<1> QED
  BY <1>15, <1>16

-----------------------------------------------------------------------------
(* Data sets *)

\* Where a value is missing, there was a null; the others are those that were sent.
DataColumnIs(read, type, values, n) ==
    \A i \in 1..n : IF values[i] = Null THEN i \in DOMAIN read => read[i] = Null
                    ELSE i \in DOMAIN read /\ read[i] = Converted(type, values[i])

\* The bitmap of a column shows its nulls.
LEMMA BitmapRead ==
    ASSUME NEW n \in Nat, NEW column, IsSendable(column, n)
    PROVE  {i \in 1..n : AtBit(DataSetColumnSent(column).bitmap, i)} = NullRows(column.values)
<1> DEFINE values == column.values
           nulls == NullRows(values)
           rows == DOMAIN values \ nulls
           bitmap == DataSetColumnSent(column).bitmap
           c == ByteCount(n)
<1>1. /\ DOMAIN values = 1..n /\ Len(values) = n /\ nulls \subseteq 1..n
  BY ColumnShape DEF IsSendable
<1>2. bitmap = IF nulls = {} THEN <<>> ELSE Bits(rows, n, LowFirst)
  BY <1>1 DEF DataSetColumnSent
<1> HIDE DEF bitmap, nulls, rows
<1>3. CASE nulls = {}
  <2>1. bitmap = <<>>
    BY <1>2, <1>3
  <2> QED
    BY <1>3, <2>1 DEF AtBit, nulls, bitmap
<1>4. CASE nulls # {}
  <2>1. LowFirst \in {LowFirst, HighFirst}
    OBVIOUS
  <2>2. bitmap = Bits(rows, n, LowFirst)
    BY <1>2, <1>4
  <2>3. /\ c \in Nat /\ n <= 8 * c /\ (c = 0 <=> n = 0)
        /\ bitmap \in Seq(Cell) /\ Len(bitmap) = c
    BY <2>1, <2>2, BitmapBytes
  <2>4. n # 0 /\ bitmap # <<>>
    <3>1. n # 0
      BY <1>1, <1>4 DEF nulls
    <3>2. Len(bitmap) # 0
      BY <2>3, <3>1
    <3> QED
      BY <3>1, <3>2, EmptySeq
  <2>5. Holds(bitmap, 0, Bits(rows, n, LowFirst))
    BY <2>2, <2>3, HoldsSelf
  <2>6. RowsSet(bitmap, 0, 8 * c, LowFirst) = {i \in 1..(8 * c) : i \in rows}
    <3> DEFINE m == 8 * c
    <3>1. m \in Nat /\ m <= 8 * ByteCount(n)
      BY <2>3
    <3> HIDE DEF m
    <3>2. RowsSet(bitmap, 0, m, LowFirst) = {i \in 1..m : i \in rows}
      BY <2>1, <2>5, <3>1, BitsRead
    <3> QED
      BY <3>2 DEF m
  <2> HIDE DEF c
  <2>7. ASSUME NEW i \in 1..n PROVE AtBit(bitmap, i) <=> i \in nulls
    <3>1. i \in 1..(8 * c) /\ i <= 8 * c
      BY <2>3
    <3>2. i \in rows <=> i \notin nulls
      BY <1>1 DEF rows
    <3> QED
      BY <2>3, <2>4, <2>6, <3>1, <3>2 DEF AtBit
  <2> QED
    BY <1>1, <2>7 DEF bitmap, nulls
<1> QED
  BY <1>3, <1>4

\* Values of fixed width are read at their rows.
LEMMA FixedRead ==
    ASSUME NEW n \in Nat, NEW column, IsSendable(column, n), column.type \notin Texts
    PROVE  DataColumnIs(DeserializeColumn(DataSetColumnSent(column).valueBuffer, column.type, n,
                                          DataSetColumnSent(column).bitmap),
                        column.type, column.values, n)
<1> DEFINE values == column.values
           type == column.type
           w == Width(type)
           numbers == [i \in 1..n |-> IF values[i] # Null THEN values[i] ELSE 0]
           buffer == DataSetColumnSent(column).valueBuffer
           bitmap == DataSetColumnSent(column).bitmap
           nulls == {i \in 1..n : AtBit(bitmap, i)}
           read == DeserializeColumn(buffer, type, n, bitmap)
<1>1. /\ DOMAIN values = 1..n
      /\ \A i \in 1..n : values[i] \in ValuesOf(type) \cup {Null}
      /\ \A i \in 1..n : i \in NullRows(values) <=> values[i] = Null
  BY ColumnShape DEF IsSendable
<1>2. nulls = NullRows(values)
  BY BitmapRead
<1>3. \A i \in 1..n : numbers[i] \in Int
  BY <1>1 DEF ValuesOf
<1>4. buffer = EvenNumbers(numbers, n, w)
  <2>1. \A i \in 1..n :
          (IF values[i] # Null THEN PutItem(type, values[i])
           ELSE IF type \in Texts THEN <<>> ELSE Put(0, w)) = Put(numbers[i], w)
    BY DEF PutItem
  <2> HIDE DEF numbers
  <2>2. [i \in DOMAIN values |->
            IF values[i] # Null THEN PutItem(type, values[i])
            ELSE IF type \in Texts THEN <<>> ELSE Put(0, w)] =
        [i \in 1..n |-> Put(numbers[i], w)]
    BY <1>1, <2>1
  <2>3. buffer = FlattenSeq([i \in 1..n |-> Put(numbers[i], w)])
    BY <2>2 DEF DataSetColumnSent
  <2> QED
    BY <2>3 DEF EvenNumbers
<1>5. read = [i \in 1..n |-> IF i \in nulls THEN Null
                            ELSE Converted(type, Get(buffer, (i - 1) * w, w))]
  BY DEF DeserializeColumn
<1>6. w \in {1, 4, 8}
  BY DEF Width
<1>7. ASSUME NEW i \in 1..n, values[i] # Null
      PROVE  Get(buffer, (i - 1) * w, w) = values[i]
  <2>1. numbers[i] = values[i]
    BY <1>7
  <2> HIDE DEF numbers, w, buffer
  <2>2. Holds(buffer, 0, EvenNumbers(numbers, n, w))
    BY <1>3, <1>4, <1>6, EvenNumbersRead, HoldsSelf
  <2>3. Get(buffer, 0 + (i - 1) * w, w) = numbers[i]
    BY <1>3, <1>6, <2>2, EvenNumbersRead DEF EvenlyRead
  <2>4. 0 + (i - 1) * w = (i - 1) * w
    <3>1. w \in Int
      BY <1>6
    <3> QED
      BY <3>1
  <2> QED
    BY <2>1, <2>3, <2>4
<1> HIDE DEF read, nulls, buffer, w
<1>8. DataColumnIs(read, type, values, n)
  <2> SUFFICES ASSUME NEW i \in 1..n
               PROVE  IF values[i] = Null THEN i \in DOMAIN read => read[i] = Null
                      ELSE i \in DOMAIN read /\ read[i] = Converted(type, values[i])
    BY DEF DataColumnIs
  <2>1. CASE values[i] = Null
    BY <1>1, <1>2, <1>5, <2>1
  <2>2. CASE values[i] # Null
    BY <1>1, <1>2, <1>5, <1>7, <2>2
  <2> QED
    BY <2>1, <2>2
<1> QED
  BY <1>8 DEF read, buffer

\* Texts are read one behind the other, as long as there are some.
LEMMA TextsRead ==
    ASSUME NEW n \in Nat, NEW column, IsSendable(column, n), column.type \in Texts
    PROVE  DataColumnIs(DeserializeColumn(DataSetColumnSent(column).valueBuffer, column.type, n,
                                          DataSetColumnSent(column).bitmap),
                        column.type, column.values, n)
<1> DEFINE values == column.values
           type == column.type
           P == Pieces(type, values, n, NullRows(values))
           buffer == DataSetColumnSent(column).valueBuffer
           bitmap == DataSetColumnSent(column).bitmap
           nulls == {i \in 1..n : AtBit(bitmap, i)}
           read == DeserializeColumn(buffer, type, n, bitmap)
           IsAt(at) == at = [i \in 0..n |->
               IF i = 0 THEN 0
               ELSE LET here == at[i - 1]
                    IN  IF here >= Len(buffer) \/ i \in nulls THEN here
                        ELSE here + 4 + GetText(buffer, here)]
           at == CHOOSE f : IsAt(f)
           Text(i) == IF i \in nulls THEN Null ELSE GetText(buffer, at[i - 1])
<1>1. /\ DOMAIN values = 1..n
      /\ \A i \in 1..n : values[i] \in ValuesOf(type) \cup {Null}
      /\ \A i \in 1..n : i \in NullRows(values) <=> values[i] = Null
      /\ type # Boolean /\ type # Date
      /\ Writable(type, values, n, NullRows(values))
  <2>1. type # Boolean /\ type # Date
    BY DEF Texts, Boolean, Date
  <2> QED
    BY <2>1, ColumnShape DEF IsSendable
<1>2. nulls = NullRows(values)
  BY BitmapRead
<1>3. read = [i \in {k \in 1..n : at[k - 1] < Len(buffer)} |-> Text(i)]
  BY DEF DeserializeColumn
<1>4. buffer = FlattenSeq(P)
  <2>1. [i \in DOMAIN values |->
            IF values[i] # Null THEN PutItem(type, values[i])
            ELSE IF type \in Texts THEN <<>> ELSE Put(0, Width(type))] = P
    BY <1>1 DEF Pieces
  <2> QED
    BY <2>1 DEF DataSetColumnSent
<1>5. /\ P \in Seq(Seq(Cell)) /\ Len(P) = n
      /\ \A i \in 1..n : P[i] = IF i \in NullRows(values) THEN <<>> ELSE PutItem(type, values[i])
  BY <1>1, PiecesBytes
<1> HIDE DEF P
<1>6. Holds(buffer, 0, FlattenSeq(P))
  <2> HIDE DEF buffer
  <2> QED
    BY <1>4, <1>5, FlattenParts, HoldsSelf
<1> HIDE DEF buffer, bitmap, read
<1>7. PICK p : Placed(buffer, 0, P, p)
  BY <1>5, <1>6, PartsPlaced
<1>8. /\ p \in [0..n -> Nat] /\ p[0] = 0
      /\ \A i \in 1..n : p[i] = p[i - 1] + Len(P[i]) /\ Holds(buffer, p[i - 1], P[i])
  BY <1>5, <1>7 DEF Placed
<1>9. ASSUME NEW i \in 1..n
      PROVE  /\ i \in nulls <=> values[i] = Null
             /\ values[i] = Null => p[i] = p[i - 1]
             /\ values[i] # Null =>
                  /\ p[i - 1] < Len(buffer)
                  /\ GetText(buffer, p[i - 1]) = values[i]
                  /\ p[i] = p[i - 1] + 4 + values[i]
  <2>1. i \in nulls <=> values[i] = Null
    BY <1>1, <1>2
  <2>2. p[i - 1] \in Nat
    <3>1. i - 1 \in 0..n
      OBVIOUS
    <3> QED
      BY <1>8, <3>1
  <2>3. ASSUME values[i] = Null PROVE p[i] = p[i - 1]
    <3>1. Len(P[i]) = 0
      BY <1>1, <1>5, <2>3
    <3> QED
      BY <1>8, <2>2, <3>1
  <2>4. ASSUME values[i] # Null
        PROVE  /\ p[i - 1] < Len(buffer)
               /\ GetText(buffer, p[i - 1]) = values[i]
               /\ p[i] = p[i - 1] + 4 + values[i]
    <3> DEFINE v == values[i]
    <3>1. P[i] = PutItem(type, v) /\ v \in NumbersOf(type)
      BY <1>1, <1>5, <2>4 DEF Writable
    <3>2. v \in Nat
      BY <3>1 DEF NumbersOf
    <3> HIDE DEF v
    <3>3. Len(P[i]) = 4 + v
      BY <3>1, ItemBytes DEF SizeOf
    <3>4. Holds(buffer, p[i - 1], PutItem(type, v))
      BY <1>8, <3>1
    <3>5. GetText(buffer, p[i - 1]) = v
      BY <3>1, <3>4, GetPutItem DEF GetItem
    <3>6. p[i - 1] + (4 + v) <= Len(buffer) /\ Len(buffer) \in Nat
      BY <3>1, <3>3, <3>4 DEF Holds
    <3>7. p[i - 1] < Len(buffer) /\ p[i] = p[i - 1] + 4 + v
      <4> DEFINE here == p[i - 1]
                 m == Len(buffer)
      <4>1. here \in Nat /\ m \in Nat /\ here + (4 + v) <= m /\ p[i] = here + (4 + v)
        BY <1>8, <2>2, <3>3, <3>6
      <4> HIDE DEF here, m
      <4>2. here < m /\ p[i] = here + 4 + v
        BY <3>2, <4>1
      <4> QED
        BY <4>2 DEF here, m
    <3> QED
      BY <3>5, <3>7 DEF v
  <2> QED
    BY <2>1, <2>3, <2>4
<1> HIDE DEF nulls
<1>10. \A i \in 0..n : at[i] = p[i]
  <2> DEFINE Behind(i, here) == IF here >= Len(buffer) \/ i \in nulls THEN here
                                ELSE here + 4 + GetText(buffer, here)
  <2>1. \A i \in 1..n : Behind(i, p[i - 1]) = p[i]
    <3> TAKE i \in 1..n
    <3>1. p[i - 1] \in Nat /\ Len(buffer) \in Nat
      <4>1. i - 1 \in 0..n
        OBVIOUS
      <4> QED
        BY <1>6, <1>8, <4>1 DEF Holds
    <3>2. CASE values[i] = Null
      BY <1>9, <3>2
    <3>3. CASE values[i] # Null
      BY <1>9, <3>1, <3>3
    <3> QED
      BY <3>2, <3>3
  <2>2. p = [i \in 0..n |-> IF i = 0 THEN 0 ELSE Behind(i, p[i - 1])]
    <3> HIDE DEF Behind
    <3> QED
      BY <1>8, <2>1
  <2>3. IsAt(p)
    BY <2>2
  <2>4. IsAt(at)
    <3> HIDE DEF IsAt
    <3> QED
      BY <2>3
  <2>5. at[0] = 0 /\ \A i \in 1..n : at[i] = Behind(i, at[i - 1])
    <3>1. 0 \in 0..n /\ \A i \in 1..n : i \in 0..n /\ i # 0
      OBVIOUS
    <3> HIDE DEF at
    <3> QED
      BY <2>4, <3>1
  <2> HIDE DEF at, IsAt
  <2>6. \A i \in 1..n : at[i - 1] = p[i - 1] => at[i] = p[i]
    BY <2>1, <2>5
  <2>7. at[0] = p[0]
    BY <1>8, <2>5
  <2> QED
    BY <2>6, <2>7, SameSteps
<1> HIDE DEF at, IsAt
<1>11. DataColumnIs(read, type, values, n)
  <2> SUFFICES ASSUME NEW i \in 1..n
               PROVE  IF values[i] = Null THEN i \in DOMAIN read => read[i] = Null
                      ELSE i \in DOMAIN read /\ read[i] = Converted(type, values[i])
    BY DEF DataColumnIs
  <2>1. at[i - 1] = p[i - 1]
    <3>1. i - 1 \in 0..n
      OBVIOUS
    <3> QED
      BY <1>10, <3>1
  <2>2. CASE values[i] = Null
    BY <1>3, <1>9, <2>2
  <2>3. CASE values[i] # Null
    <3>1. i \in DOMAIN read /\ read[i] = values[i]
      BY <1>3, <1>9, <2>1, <2>3
    <3> QED
      BY <1>1, <2>3, <3>1 DEF Converted
  <2> QED
    BY <2>2, <2>3
<1> QED
  BY <1>11 DEF read, buffer, bitmap

LEMMA FlattenOne ==
    ASSUME NEW V, NEW s \in Seq(V)
    PROVE  FlattenSeq(<<s>>) = s
<1>1. <<s>> \in Seq(Seq(V)) /\ Len(<<s>>) = 1 /\ <<s>>[1] = s
  OBVIOUS
<1> DEFINE seqs == <<s>>
<1> HIDE DEF seqs
<1>2. PICK h \in [0..Len(seqs) -> Seq(V)] :
              /\ h[0] = <<>>
              /\ \A i \in 1..Len(seqs) : h[i] = h[i - 1] \o seqs[i]
              /\ FlattenSeq(seqs) = h[Len(seqs)]
  BY <1>1, FlattenSteps DEF seqs
<1>3. 1 \in 1..Len(seqs) /\ 1 - 1 = 0
  BY <1>1 DEF seqs
<1>4. FlattenSeq(seqs) = <<>> \o s
  BY <1>1, <1>2, <1>3 DEF seqs
<1> QED
  BY <1>4, ConcatEmptySeq DEF seqs

\* The values of a data set's column, as the program gets them.
DataSetRead(column, n) ==
    DeserializeColumn(DataSetColumnSent(column).valueBuffer, column.type, n,
                      DataSetColumnSent(column).bitmap)
DataSetValue(column, n, i) ==
    IF i \in DOMAIN DataSetRead(column, n) THEN DataSetRead(column, n)[i] ELSE Undefined

LEMMA DataSetColumnRead ==
    ASSUME NEW n \in Nat, NEW column, IsSendable(column, n), NEW i \in 1..n
    PROVE  LET v == column.values[i]
               x == DataSetValue(column, n, i)
           IN  IF v = Null THEN IsNull(x) ELSE x = Converted(column.type, v)
<1>1. DataColumnIs(DataSetRead(column, n), column.type, column.values, n)
  BY FixedRead, TextsRead DEF DataSetRead
<1> QED
  BY <1>1 DEF DataColumnIs, DataSetValue, IsNull

\* The rows of a data set arrive.
LEMMA DataSetArrives ==
    ASSUME ResultSample, kind = "dataset",
           got = ParseDataSet(DataSetSent(sample[1].times, sample[1].columns, options.littleTimes),
                              [c \in DOMAIN sample[1].columns |-> sample[1].columns[c].type])
    PROVE  /\ Len(got) = Len(Places)
           /\ \A r \in DOMAIN got : RowArrives(got[r], Places[r])
<1> DEFINE table == sample[1]
           times == table.times
           columns == table.columns
           n == Len(times)
           count == Len(columns)
           little == options.littleTimes
           P == [i \in 1..n |-> IF little THEN PutLE(times[i], 8) ELSE Put(times[i], 8)]
           time == FlattenSeq(P)
           S == [c \in DOMAIN columns |-> DataSetColumnSent(columns[c])]
           types == [c \in DOMAIN columns |-> columns[c].type]
           dataset == [time |-> time, columns |-> S]
<1>1. /\ sample = <<table>> /\ IsTable(table)
      /\ options.ignoreTimeStamp = FALSE
  <2>1. PICK t \in DataSets : sample = <<t>>
    BY DEF ResultSample
  <2>2. table = t /\ IsTable(t)
    BY <2>1, SampleAssumption
  <2>3. options.ignoreTimeStamp = FALSE
    BY DEF ResultSample
  <2> QED
    BY <2>1, <2>2, <2>3
<1> HIDE DEF table
<1>3. /\ times \in Seq(Int) /\ n \in Nat /\ DOMAIN times = 1..n
      /\ AreColumns(columns, n)
  BY <1>1, TableShape
<1>4. /\ count \in Nat /\ DOMAIN columns = 1..count
      /\ \A c \in 1..count : IsSendable(columns[c], n)
  BY <1>3 DEF AreColumns
<1>5. \A i \in 1..n : times[i] \in Int
  BY <1>3, ElementOfSeq
<1> HIDE DEF times, columns, n, count
<1> HIDE DEF P
<1>6. /\ time \in Seq(Cell) /\ Len(time) = n * 8
      /\ \A i \in 1..n : Holds(time, (i - 1) * 8, P[i])
  <2>1. \A i \in 1..n : P[i] \in Seq(Cell) /\ Len(P[i]) = 8
    <3> TAKE i \in 1..n
    <3>1. Put(times[i], 8) \in Seq(Cell) /\ Len(Put(times[i], 8)) = 8
      BY <1>5, PutBytes
    <3>2. PutLE(times[i], 8) \in Seq(Cell) /\ Len(PutLE(times[i], 8)) = 8
      BY <1>5, PutLEBytes
    <3> QED
      BY <3>1, <3>2 DEF P
  <2>2. P = [i \in 1..n |-> P[i]]
    BY DEF P
  <2> DEFINE w == 8
  <2>3. w \in {1, 4, 8} /\ \A i \in 1..n : P[i] \in Seq(Cell) /\ Len(P[i]) = w
    BY <2>1
  <2> HIDE DEF w
  <2>4. /\ time \in Seq(Cell) /\ Len(time) = n * w
        /\ \A buf, off : Holds(buf, off, time) =>
             \A i \in 1..n : Holds(buf, off + (i - 1) * w, P[i])
    <3>1. AreEven(P, n, w)
      BY <1>3, <2>2, <2>3, SeqFrom DEF AreEven
    <3> QED
      BY <1>3, <2>3, <3>1, EvenPieces
  <2>5. Holds(time, 0, time)
    BY <2>4, HoldsSelf
  <2> HIDE DEF time
  <2>6. ASSUME NEW i \in 1..n PROVE Holds(time, (i - 1) * w, P[i])
    <3>1. 0 + (i - 1) * w = (i - 1) * w
      BY <1>3, <2>3
    <3> QED
      BY <2>4, <2>5, <3>1
  <2> QED
    BY <2>4, <2>6 DEF w
<1>7. Len(time) \div 8 = n
  <2> HIDE DEF time
  <2> QED
    BY <1>3, <1>6
<1>8. ASSUME NEW i \in 1..n, little PROVE GetLE(time, (i - 1) * 8, 8) = times[i]
  <2>1. P[i] = PutLE(times[i], 8)
    BY <1>8 DEF P
  <2> HIDE DEF time
  <2> QED
    BY <1>5, <1>6, <2>1, GetPutLE
<1>2. got = ParseDataSet(dataset, types)
  <2>1. [i \in DOMAIN times |-> IF little THEN PutLE(times[i], 8) ELSE Put(times[i], 8)] = P
    BY <1>3 DEF P
  <2> QED
    BY <2>1 DEF DataSetSent, table, times, columns
<1> HIDE DEF little
<1> DEFINE rowCount == Len(dataset.time) \div 8
           parsed == [c \in DOMAIN dataset.columns |->
                         DeserializeColumn(dataset.columns[c].valueBuffer, types[c], rowCount,
                                           dataset.columns[c].bitmap)]
           ValueAt(c, i) == IF i \in DOMAIN parsed[c] THEN parsed[c][i] ELSE Undefined
<1>9. got = [i \in 1..rowCount |->
                <<GetLE(dataset.time, (i - 1) * 8, 8)>> \o [c \in DOMAIN parsed |-> ValueAt(c, i)]]
  BY <1>2 DEF ParseDataSet
<1>10. rowCount = n /\ dataset.time = time
  BY <1>7
<1>11. DOMAIN parsed = 1..count /\ \A c \in 1..count : parsed[c] = DataSetRead(columns[c], n)
  <2>1. dataset.columns = S /\ DOMAIN S = 1..count
    BY <1>4
  <2>2. \A c \in 1..count : S[c] = DataSetColumnSent(columns[c]) /\ types[c] = columns[c].type
    BY <1>4
  <2> HIDE DEF dataset, S, types
  <2>3. parsed = [c \in 1..count |->
                     DeserializeColumn(S[c].valueBuffer, types[c], n, S[c].bitmap)]
    BY <1>10, <2>1
  <2> QED
    BY <2>2, <2>3 DEF DataSetRead
<1> HIDE DEF parsed, rowCount, time, dataset
<1> DEFINE fields(i) == [c \in 1..count |-> DataSetValue(columns[c], n, i)]
<1>12. \A i \in 1..n : [c \in DOMAIN parsed |-> ValueAt(c, i)] = fields(i)
  BY <1>11 DEF DataSetValue
<1> HIDE DEF ValueAt, fields
<1> DEFINE TimeRead(i) == GetLE(time, (i - 1) * 8, 8)
<1>13. got = [i \in 1..n |-> <<TimeRead(i)>> \o fields(i)]
  BY <1>9, <1>10, <1>12
<1> HIDE DEF TimeRead
<1>14. ASSUME NEW i \in 1..n PROVE RowArrives(got[i], Place(1, i))
  <2> DEFINE f == fields(i)
  <2>1. 1 \in DOMAIN sample /\ sample[1] = table
    BY <1>1
  <2>2. f = [c \in 1..count |-> f[c]] /\ \A c \in 1..count : f[c] = DataSetValue(columns[c], n, i)
    BY DEF fields
  <2> HIDE DEF f
  <2>3. ASSUME NEW c \in 1..count PROVE ValueArrives(columns[c], i, f[c])
    <3> DEFINE column == columns[c]
    <3>1. IsSendable(column, n)
      BY <1>4
    <3> HIDE DEF column
    <3>2. IF column.values[i] = Null THEN IsNull(DataSetValue(column, n, i))
          ELSE DataSetValue(column, n, i) = Converted(column.type, column.values[i])
      BY <1>3, <3>1, DataSetColumnRead
    <3>3. ValueArrives(column, i, DataSetValue(column, n, i))
      BY <3>2 DEF ValueArrives
    <3> QED
      BY <2>2, <3>3 DEF column
  <2>6. kind = "blocks" \/ options.littleTimes => TimeRead(i) = sample[1].times[i]
    BY <1>8, <2>1 DEF TimeRead, little, times
  <2>4. RowArrives((IF options.ignoreTimeStamp THEN <<>> ELSE <<TimeRead(i)>>) \o f, Place(1, i))
    BY <1>3, <2>1, <2>2, <2>3, <2>6, RowArrivesWhen DEF table, times, columns, n, count
  <2>5. (IF options.ignoreTimeStamp THEN <<>> ELSE <<TimeRead(i)>>) \o f = got[i]
    BY <1>1, <1>13, <2>1 DEF f
  <2> QED
    BY <2>4, <2>5
<1>15. Places = [i \in 1..n |-> Place(1, i)]
  <2> DEFINE s == [i \in 1..n |-> Place(1, i)]
             W == {Place(1, i) : i \in 1..n}
  <2>1. \A i \in 1..n : s[i] \in W
    OBVIOUS
  <2>2. s = [i \in 1..n |-> s[i]]
    OBVIOUS
  <2>3. [b \in DOMAIN sample |-> [i \in DOMAIN sample[b].times |-> Place(b, i)]] = <<s>>
    <3>1. DOMAIN sample = 1..1 /\ sample[1].times = times
      BY <1>1 DEF times
    <3>2. \A b \in 1..1 : b = 1
      OBVIOUS
    <3> QED
      BY <1>3, <3>1, <3>2
  <2> HIDE DEF W, s
  <2>4. s \in Seq(W)
    BY <1>3, <2>1, <2>2, SeqFrom
  <2>5. Places = FlattenSeq(<<s>>)
    BY <2>3 DEF Places
  <2> QED
    BY <2>4, <2>5, FlattenOne DEF s
<1>16. DOMAIN got = 1..n /\ Len(got) = n /\ Len(Places) = n
  <2>1. DOMAIN got = 1..n
    BY <1>13
  <2>2. Len(got) = n
    BY <1>3, <2>1
  <2>3. Len(Places) = n
    BY <1>3, <1>15
  <2> QED
    BY <2>1, <2>2, <2>3
<1> QED
  BY <1>14, <1>15, <1>16

-----------------------------------------------------------------------------
(* The specification *)

\* What is on the wire for the sample, and what the other side makes of it.
OnItsWay ==
    IF kind = "tablet"
    THEN /\ \A t \in DOMAIN sample : ~ Throws(sample[t])
         /\ sent = TabletsRequest(sample, options.fast, options.hit)
    ELSE sent = IF kind = "blocks"
                THEN [b \in DOMAIN sample |-> BlockSent(sample[b].times, sample[b].columns)]
                ELSE DataSetSent(sample[1].times, sample[1].columns, options.littleTimes)

IsRead ==
    got = IF kind = "tablet" THEN [t \in DOMAIN sample |-> TabletRead(sent, t)]
          ELSE IF kind = "blocks" THEN ParseQueryResult(sent, options.ignoreTimeStamp)
          ELSE ParseDataSet(sent, [c \in DOMAIN sample[1].columns |-> sample[1].columns[c].type])

CodecInv ==
    /\ TabletSample \/ ResultSample
    /\ phase \in {"sent", "read"} => OnItsWay
    /\ phase = "read" => IsRead

LEMMA TabletsArrive ==
    ASSUME CodecInv, phase = "read", kind = "tablet", NEW t \in DOMAIN sample
    PROVE  TabletArrives(sample[t], got[t])
<1> DEFINE tablet == sample[t]
<1>1. sample \in TabletRequests /\ options.fast \in BOOLEAN /\ options.hit \in BOOLEAN
  BY DEF CodecInv, TabletSample, ResultSample
<1>2. IsTablet(tablet)
  BY <1>1, SampleAssumption
<1>3. ~ Throws(tablet) /\ sent = TabletsRequest(sample, options.fast, options.hit)
  BY DEF CodecInv, OnItsWay
<1>4. got[t] = TabletRead(sent, t)
  BY DEF CodecInv, IsRead
<1>5. /\ sent.typesList[t] = tablet.types /\ sent.sizeList[t] = Len(tablet.times)
      /\ sent.timestampsList[t] = SerializeTimestamps(tablet.times, options.fast, options.hit)
      /\ sent.valuesList[t] = SerializeTabletValues(tablet, options.fast, options.hit)
  BY <1>3 DEF TabletsRequest
<1> HIDE DEF tablet
<1>6. TabletArrives(tablet, TabletRead(sent, t))
  BY <1>1, <1>2, <1>3, <1>5, TabletGetsThrough
<1> QED
  BY <1>4, <1>6 DEF tablet

LEMMA CodecInvSuffices == CodecInv => CodecSound
<1> SUFFICES ASSUME CodecInv, phase = "read" PROVE CodecSound
  BY DEF CodecSound
<1>1. CASE kind = "tablet"
  BY <1>1, TabletsArrive DEF CodecSound
<1>2. CASE kind # "tablet"
  <2>1. ResultSample /\ kind \in {"blocks", "dataset"}
    BY <1>2 DEF CodecInv, TabletSample, ResultSample
  <2>2. Len(got) = Len(Places) /\ \A r \in DOMAIN got : RowArrives(got[r], Places[r])
    <3>1. CASE kind = "blocks"
      <4>1. got = ParseQueryResult([b \in DOMAIN sample |->
                                       BlockSent(sample[b].times, sample[b].columns)],
                                   options.ignoreTimeStamp)
        BY <3>1 DEF CodecInv, OnItsWay, IsRead
      <4> QED
        BY <2>1, <3>1, <4>1, BlocksArrive
    <3>2. CASE kind = "dataset"
      <4>1. got = ParseDataSet(DataSetSent(sample[1].times, sample[1].columns,
                                           options.littleTimes),
                               [c \in DOMAIN sample[1].columns |-> sample[1].columns[c].type])
        BY <3>2 DEF CodecInv, OnItsWay, IsRead
      <4> QED
        BY <2>1, <3>2, <4>1, DataSetArrives
    <3> QED
      BY <2>1, <3>1, <3>2
  <2> QED
    BY <1>2, <2>2 DEF CodecSound
<1> QED
  BY <1>1, <1>2

LEMMA CodecInvKept == CodecInv /\ [CodecNext]_codecVars => CodecInv'
<1> SUFFICES ASSUME CodecInv, [CodecNext]_codecVars PROVE CodecInv'
  OBVIOUS
<1> USE DEF CodecInv
<1>1. CASE SendTablets
  BY <1>1 DEF SendTablets, OnItsWay, IsRead, TabletSample, ResultSample
<1>2. CASE ServerReads
  BY <1>2 DEF ServerReads, OnItsWay, IsRead, TabletSample, ResultSample
<1>3. CASE ServerSends
  BY <1>3 DEF ServerSends, OnItsWay, IsRead, TabletSample, ResultSample
<1>4. CASE ParseRows
  BY <1>4 DEF ParseRows, OnItsWay, IsRead, TabletSample, ResultSample
<1>5. CASE UNCHANGED codecVars
  BY <1>5 DEF codecVars, OnItsWay, IsRead, TabletSample, ResultSample
<1> QED
  BY <1>1, <1>2, <1>3, <1>4, <1>5 DEF CodecNext

\* Values, nulls and times of tablets, blocks and data sets of any size arrive at
\* their places, with either serializer and whatever buffer the pool has, but for
\* the null booleans of a block, and for the times of a data set whose server does
\* not write them little-endian (Session.ts:592-878, 892-1048, 1112-1370,
\* FastSerializer.ts, ColumnDecoder.ts).
THEOREM CodecIsSound == CodecSpec => []CodecSound
<1>1. CodecInit => CodecInv
  BY DEF CodecInit, CodecInv
<1>2. CodecInv /\ [CodecNext]_codecVars => CodecInv'
  BY CodecInvKept
<1>3. CodecInv => CodecSound
  BY CodecInvSuffices
<1> QED
  BY <1>1, <1>2, <1>3, PTL DEF CodecSpec
=============================================================================

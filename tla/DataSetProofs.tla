----------------------------- MODULE DataSetProofs -----------------------------
(***************************************************************************)
(* Theorems about DataSet and the thrift client under it, for every number *)
(* of readers and rows, every fetch size and every row limit.              *)
(***************************************************************************)
EXTENDS DataSet, TLAPS, FiniteSetTheorems, SequenceTheorems

-----------------------------------------------------------------------------
(* The inductive invariant, part by part *)

\* The calls a caller of a data set makes.
Requests == {<<Owner, "query">>} \cup (Readers \X {"fetch"}) \cup (Callers \X {"close"})
Request  == [seq : Nat, call : Requests]

\* A wire w whose seqids ascend up to n, and the table R of its callbacks.
Wired(w, R, n) ==
    /\ n \in Nat
    /\ w \in Seq(Request)
    /\ \A i \in 1..Len(w) : w[i].seq <= n
    /\ \A i, j \in 1..Len(w) : i < j => w[i].seq < w[j].seq
    /\ R = ToSet(w)
    /\ IsFiniteSet(R)
    /\ Cardinality(R) = Len(w)

RpcInv == Wired(wire, reqs, seqid)

Places == {"idle", "ready", "fetching", "closing", "ending", "failing", "complete", "threw",
           "ended", "truncated"}

\* A caller that waits for the answer to its closeOperation.
Closing(c) == at[c] \in DOMAIN After

SetTypes ==
    /\ style \in [Readers -> {"iterator", "columnar"}]
    /\ query \in {"asking", "asked", "open", "failed"}
    /\ currentRows \in Seq(Nat)
    /\ rowIndex \in 0..Len(currentRows)
    /\ hasMoreData \in BOOLEAN
    /\ isClosed \in BOOLEAN
    /\ released \in Nat
    /\ at \in [Callers -> Places]
    /\ readBy \in [Readers -> Nat]
    /\ cursor \in 0..Rows
    /\ delivered \in Seq(Nat)
    /\ overlapped \in BOOLEAN
    /\ gap \in BOOLEAN

\* A call in flight and the place of its caller belong together.
CallPlace(request) ==
    /\ request[2] = "query" => query = "asked"
    /\ request[2] = "fetch" => at[request[1]] = "fetching"
    /\ request[2] = "close" => Closing(request[1])

InFlight ==
    /\ \A r \in reqs : CallPlace(r.call)
    /\ \A q, r \in reqs : q.call = r.call => q = r

\* Before the set is open nothing else happens.
Before ==
    query # "open" =>
        /\ ~ isClosed /\ released = (IF query = "failed" THEN 1 ELSE 0)
        /\ \A c \in Callers : at[c] = "idle"

\* One caller closes; when it is answered it releases the session.
OneCloser ==
    query = "open" =>
        /\ ~ isClosed => released = 0 /\ \A c \in Callers : ~ Closing(c)
        /\ isClosed =>
            \/ released = 1 /\ \A c \in Callers : ~ Closing(c)
            \/ /\ released = 0
               /\ \E c \in Callers : Closing(c) /\ \A d \in Callers : Closing(d) => d = c

BackInv == RpcInv /\ SetTypes /\ InFlight /\ Before /\ OneCloser

\* The rows before the one that is read next.
Read == cursor - Len(currentRows) + rowIndex

\* The batch ends with the last row sent, and all rows read are before the rest.
Batch ==
    /\ Read >= 0
    /\ \A i \in 1..Len(currentRows) : currentRows[i] = cursor - Len(currentRows) + i
    /\ \A i \in 1..Len(delivered) : delivered[i] <= Read
    /\ query = "open" /\ ~ hasMoreData => cursor = Rows
    /\ query # "open" => cursor = 0 /\ currentRows = <<>> /\ delivered = <<>>

\* As long as no two fetches overlap, all of them have been read.
Fetching(r) == at[r] = "fetching"

NoneMissed ==
    ~ overlapped =>
        /\ Len(delivered) = Read
        /\ \A i \in 1..Len(delivered) : delivered[i] = i
        /\ \A r \in Readers : Fetching(r) =>
            /\ rowIndex = Len(currentRows)
            /\ \A q \in Readers : Fetching(q) => q = r

\* A reader that is told of a truncation, or of the end.
Told ==
    ~ overlapped => \A r \in Readers :
        /\ at[r] = "truncated" /\ (\A q \in Readers \ {r} : readBy[q] = 0) =>
               rowIndex < Len(currentRows)
        /\ at[r] \in {"ending", "complete"} /\ ~ gap => Len(delivered) = Rows

RowsInv == Ascending /\ Batch /\ NoneMissed /\ Told

-----------------------------------------------------------------------------
(* The thrift client *)

\* The requests of a wire have seqids of their own.
LEMMA WireSeqids ==
    ASSUME NEW w, NEW R, NEW n, Wired(w, R, n)
    PROVE  /\ R \subseteq Request
           /\ \A r \in R : r.seq \in Nat /\ r.seq <= n
           /\ \A q, r \in R : q.seq = r.seq => q = r
<1>1. /\ DOMAIN w = 1..Len(w) /\ Len(w) \in Nat
      /\ \A i \in 1..Len(w) : w[i] \in Request
  BY LenProperties, ElementOfSeq DEF Wired
<1>2. \A r \in R : \E i \in 1..Len(w) : r = w[i]
  BY <1>1 DEF Wired, ToSet
<1>3. R \subseteq Request
  BY <1>1, <1>2
<1>4. \A r \in Request : r.seq \in Nat
  BY DEF Request
<1>5. \A r \in R : r.seq <= n
  BY <1>2 DEF Wired
<1>6. ASSUME NEW q \in R, NEW r \in R, q.seq = r.seq PROVE q = r
  <2>1. PICK i \in 1..Len(w), j \in 1..Len(w) : q = w[i] /\ r = w[j]
    BY <1>2
  <2>2. ~ i < j /\ ~ j < i
    <3>1. w[i].seq \in Nat /\ w[j].seq \in Nat /\ w[i].seq = w[j].seq
      BY <1>1, <1>4, <1>6, <2>1
    <3>2. (i < j => w[i].seq < w[j].seq) /\ (j < i => w[j].seq < w[i].seq)
      BY DEF Wired
    <3> DEFINE x == w[i].seq
               y == w[j].seq
    <3> HIDE DEF x, y
    <3>3. x \in Nat /\ y \in Nat /\ x = y /\ (i < j => x < y) /\ (j < i => y < x)
      BY <3>1, <3>2 DEF x, y
    <3> QED
      BY <3>3
  <2>3. i = j
    BY <1>1, <2>2
  <2> QED
    BY <2>1, <2>3
<1> QED
  BY <1>3, <1>4, <1>5, <1>6

\* A request is sent under the next seqid (IClientRPCService.js:6695-6711).
LEMMA Sending ==
    ASSUME NEW w, NEW R, NEW n, Wired(w, R, n), NEW c \in Requests
    PROVE  LET x == [seq |-> n + 1, call |-> c]
           IN  Wired(Append(w, x), R \cup {x}, n + 1)
<1> DEFINE x == [seq |-> n + 1, call |-> c]
           v == Append(w, x)
<1>1. n \in Nat /\ x \in Request /\ x.seq = n + 1
  BY DEF Wired, Request
<1> HIDE DEF x
<1>2. /\ Len(w) \in Nat /\ DOMAIN w = 1..Len(w)
      /\ v \in Seq(Request) /\ Len(v) = Len(w) + 1 /\ DOMAIN v = 1..(Len(w) + 1)
      /\ \A i \in 1..Len(w) : v[i] = w[i]
      /\ v[Len(w) + 1] = x
  BY <1>1, LenProperties, AppendProperties DEF Wired
<1> HIDE DEF v
<1>3. \A i \in 1..Len(v) : i \in 1..Len(w) \/ i = Len(w) + 1
  BY <1>2
<1>4. \A i \in 1..Len(w) : w[i].seq \in Nat /\ w[i].seq <= n
  <2>1. \A i \in 1..Len(w) : w[i] \in Request
    BY ElementOfSeq DEF Wired
  <2> QED
    BY <2>1 DEF Wired, Request
<1>5. \A i \in 1..Len(v) : v[i].seq \in Nat /\ v[i].seq <= n + 1
  <2>1. ASSUME NEW i \in 1..Len(w) PROVE v[i].seq \in Nat /\ v[i].seq <= n + 1
    <3>1. w[i].seq \in Nat /\ w[i].seq <= n /\ v[i] = w[i]
      BY <1>2, <1>4
    <3> DEFINE y == w[i].seq
    <3> HIDE DEF y
    <3>2. y \in Nat /\ y <= n
      BY <3>1 DEF y
    <3>3. y <= n + 1
      BY <3>2, <1>1
    <3> QED
      BY <3>1, <3>2, <3>3 DEF y
  <2> QED
    BY <1>1, <1>2, <1>3, <2>1
<1>6. ASSUME NEW i \in 1..Len(v), NEW j \in 1..Len(v), i < j PROVE v[i].seq < v[j].seq
  <2>1. i \in 1..Len(w) /\ v[i] = w[i]
    BY <1>2, <1>6
  <2>2. CASE j = Len(w) + 1
    <3>1. v[j].seq = n + 1 /\ w[i].seq \in Nat /\ w[i].seq <= n
      BY <1>1, <1>2, <1>4, <2>1, <2>2
    <3> DEFINE y == w[i].seq
    <3> HIDE DEF y
    <3>2. y \in Nat /\ y <= n
      BY <3>1 DEF y
    <3>3. y < n + 1
      BY <3>2, <1>1
    <3> QED
      BY <2>1, <3>1, <3>3 DEF y
  <2>3. CASE j # Len(w) + 1
    <3>1. j \in 1..Len(w) /\ v[j] = w[j]
      BY <1>2, <1>3, <2>3
    <3>2. w[i].seq < w[j].seq
      BY <1>6, <2>1, <3>1 DEF Wired
    <3> QED
      BY <2>1, <3>1, <3>2
  <2> QED
    BY <2>2, <2>3
<1>7. R \cup {x} = ToSet(v)
  <2>1. \A y \in R : \E i \in 1..Len(w) : y = w[i]
    BY <1>2 DEF Wired, ToSet
  <2>2. \A i \in 1..Len(w) : w[i] \in R
    BY <1>2 DEF Wired, ToSet
  <2>3. \A y \in R : y \in ToSet(v)
    BY <1>2, <2>1 DEF ToSet
  <2>4. x \in ToSet(v)
    BY <1>2 DEF ToSet
  <2>5. \A y \in ToSet(v) : y \in R \cup {x}
    BY <1>2, <1>3, <2>2 DEF ToSet
  <2> QED
    BY <2>3, <2>4, <2>5
<1>8. x \notin R
  <2>1. \A r \in R : r.seq \in Nat /\ r.seq <= n
    BY WireSeqids
  <2>2. ~ (n + 1 <= n)
    BY <1>1
  <2> QED
    BY <1>1, <2>1, <2>2
<1>9. IsFiniteSet(R \cup {x}) /\ Cardinality(R \cup {x}) = Len(v)
  <2>1. IsFiniteSet(R) /\ Cardinality(R) = Len(w)
    BY DEF Wired
  <2>2. IsFiniteSet(R \cup {x}) /\ Cardinality(R \cup {x}) = Cardinality(R) + 1
    BY <1>8, <2>1, FS_AddElement
  <2> QED
    BY <1>2, <2>1, <2>2
<1> QED
  BY <1>1, <1>2, <1>5, <1>6, <1>7, <1>9 DEF Wired, v, x

\* The oldest request is answered (IClientRPCService.js:6713-6763).
LEMMA Answering ==
    ASSUME NEW w, NEW R, NEW n, Wired(w, R, n), w # <<>>
    PROVE  /\ Head(w) \in R
           /\ {r \in R : r.seq # Head(w).seq} = R \ {Head(w)}
           /\ Wired(Tail(w), R \ {Head(w)}, n)
<1> DEFINE h == Head(w)
           v == Tail(w)
           m == Len(w)
<1>1. /\ m \in Nat /\ DOMAIN w = 1..m /\ h = w[1]
      /\ v \in Seq(Request) /\ Len(v) = m - 1
      /\ \A i \in 1..Len(v) : v[i] = w[i + 1]
  BY LenProperties, HeadTailProperties DEF Wired
<1>2. m # 0 /\ DOMAIN v = 1..Len(v)
  BY <1>1, EmptySeq, LenProperties DEF Wired
<1>w. /\ n \in Nat /\ w \in Seq(Request)
      /\ \A i \in 1..m : w[i].seq <= n
      /\ \A i, j \in 1..m : i < j => w[i].seq < w[j].seq
      /\ R = {w[i] : i \in 1..m}
      /\ IsFiniteSet(R) /\ Cardinality(R) = m
  BY <1>1 DEF Wired, ToSet
<1> HIDE DEF h, v, m
<1>3. 1 \in 1..m /\ h \in R
  BY <1>1, <1>2, <1>w
<1>4. {r \in R : r.seq # h.seq} = R \ {h}
  BY <1>3, WireSeqids
<1>5. \A i \in 1..(m - 1) : i + 1 \in 1..m /\ v[i] = w[i + 1]
  BY <1>1, <1>2
<1>6. \A i \in 1..Len(v) : v[i].seq <= n
  BY <1>1, <1>5, <1>w
<1>7. ASSUME NEW i \in 1..Len(v), NEW j \in 1..Len(v), i < j PROVE v[i].seq < v[j].seq
  <2>1. i + 1 \in 1..m /\ j + 1 \in 1..m /\ i + 1 < j + 1
    BY <1>1, <1>2, <1>7
  <2>2. v[i] = w[i + 1] /\ v[j] = w[j + 1]
    BY <1>1, <1>5
  <2> QED
    BY <2>1, <2>2, <1>w
<1>8. R \ {h} = ToSet(v)
  <2>1. ASSUME NEW r \in R \ {h} PROVE r \in ToSet(v)
    <3>1. PICK i \in 1..m : r = w[i]
      BY <1>w
    <3>2. i # 1
      BY <1>1, <2>1, <3>1
    <3>3. i - 1 \in 1..(m - 1) /\ (i - 1) + 1 = i
      BY <1>1, <3>2
    <3>4. v[i - 1] = r
      BY <1>5, <3>1, <3>3
    <3> QED
      BY <1>1, <1>2, <3>3, <3>4 DEF ToSet
  <2>2. ASSUME NEW r \in ToSet(v) PROVE r \in R \ {h}
    <3>1. PICK i \in 1..(m - 1) : r = v[i]
      BY <1>1, <1>2 DEF ToSet
    <3>2. i + 1 \in 1..m /\ r = w[i + 1] /\ 1 < i + 1
      BY <1>1, <1>5, <3>1
    <3>3. w[1].seq < w[i + 1].seq /\ w[1] \in Request
      BY <1>3, <1>w, <3>2, ElementOfSeq, <1>1, <1>2
    <3>4. w[1].seq \in Nat
      BY <3>3 DEF Request
    <3>5. r # h
      <4> DEFINE y == w[1].seq
      <4> HIDE DEF y
      <4>1. y \in Nat /\ ~ (y < y)
        BY <3>4 DEF y
      <4> QED
        BY <1>1, <3>2, <3>3, <4>1 DEF y
    <3> QED
      BY <1>w, <3>2, <3>5
  <2> QED
    BY <2>1, <2>2
<1>9. IsFiniteSet(R \ {h}) /\ Cardinality(R \ {h}) = Len(v)
  <2>1. IsFiniteSet(R) /\ Cardinality(R) = m
    BY <1>w
  <2>2. IsFiniteSet(R \ {h}) /\ Cardinality(R \ {h}) = Cardinality(R) - 1
    BY <1>3, <2>1, FS_RemoveElement
  <2> QED
    BY <1>1, <2>1, <2>2
<1> QED
  BY <1>1, <1>3, <1>4, <1>6, <1>7, <1>8, <1>9, <1>w DEF Wired, h, v

-----------------------------------------------------------------------------
(* What a step does to the table of callbacks *)

NewRequest(c) == [seq |-> seqid + 1, call |-> c]

LEMMA CallStep ==
    ASSUME RpcInv, NEW c \in Requests, Call(c)
    PROVE  RpcInv' /\ reqs' = reqs \cup {NewRequest(c)}
<1>1. /\ seqid' = seqid + 1 /\ reqs' = reqs \cup {NewRequest(c)}
      /\ wire' = Append(wire, NewRequest(c))
  BY DEF Call, NewSeqid, NewRequest
<1>2. Wired(Append(wire, NewRequest(c)), reqs \cup {NewRequest(c)}, seqid + 1)
  BY Sending DEF RpcInv, NewRequest
<1> QED
  BY <1>1, <1>2 DEF RpcInv

LEMMA RecvStep ==
    ASSUME RpcInv, NEW c, Recv(c)
    PROVE  RpcInv' /\ \E h \in reqs : h.call = c /\ reqs' = reqs \ {h}
<1>1. /\ wire # <<>> /\ wire' = Tail(wire) /\ seqid' = seqid
      /\ reqs' = {r \in reqs : r.seq # Head(wire).seq}
      /\ \E r \in reqs : r.seq = Head(wire).seq /\ r.call = c
  BY DEF Recv, Forgotten
<1>2. /\ Head(wire) \in reqs
      /\ {r \in reqs : r.seq # Head(wire).seq} = reqs \ {Head(wire)}
      /\ Wired(Tail(wire), reqs \ {Head(wire)}, seqid)
  BY <1>1, Answering DEF RpcInv
<1>3. Head(wire).call = c
  BY <1>1, <1>2, WireSeqids DEF RpcInv
<1> QED
  BY <1>1, <1>2, <1>3 DEF RpcInv

LEMMA RecvAndCallStep ==
    ASSUME RpcInv, NEW c, NEW d \in Requests, RecvAndCall(c, d)
    PROVE  RpcInv' /\ \E h \in reqs : h.call = c /\ reqs' = (reqs \ {h}) \cup {NewRequest(d)}
<1>1. /\ wire # <<>> /\ wire' = Append(Tail(wire), NewRequest(d)) /\ seqid' = seqid + 1
      /\ reqs' = {r \in reqs : r.seq # Head(wire).seq} \cup {NewRequest(d)}
      /\ \E r \in reqs : r.seq = Head(wire).seq /\ r.call = c
  BY DEF RecvAndCall, Forgotten, NewSeqid, NewRequest
<1>2. /\ Head(wire) \in reqs
      /\ {r \in reqs : r.seq # Head(wire).seq} = reqs \ {Head(wire)}
      /\ Wired(Tail(wire), reqs \ {Head(wire)}, seqid)
  BY <1>1, Answering DEF RpcInv
<1>3. Head(wire).call = c
  BY <1>1, <1>2, WireSeqids DEF RpcInv
<1>4. Wired(Append(Tail(wire), NewRequest(d)), (reqs \ {Head(wire)}) \cup {NewRequest(d)}, seqid + 1)
  BY <1>2, Sending DEF NewRequest
<1> QED
  BY <1>1, <1>2, <1>3, <1>4 DEF RpcInv

-----------------------------------------------------------------------------
(* The callers of a data set *)

\* What a request says.
LEMMA CallForm ==
    \A x \in Requests :
        /\ x = <<x[1], x[2]>> /\ x[1] \in Callers
        /\ x[2] \in {"query", "fetch", "close"}
        /\ x[2] = "query" => x = <<Owner, "query">>
        /\ x[2] = "fetch" => x[1] \in Readers
  BY DEF Requests, Callers

LEMMA CallForms ==
    ASSUME RpcInv
    PROVE  \A r \in reqs :
               /\ r.call \in Requests
               /\ r.call = <<r.call[1], r.call[2]>> /\ r.call[1] \in Callers
               /\ r.call[2] \in {"query", "fetch", "close"}
               /\ r.call[2] = "query" => r.call = <<Owner, "query">>
<1>1. \A r \in reqs : r \in Request
  BY WireSeqids DEF RpcInv
<1>2. \A r \in reqs : r.call \in Requests
  BY <1>1 DEF Request
<1> QED
  BY <1>2, CallForm

\* Closing ends.
LEMMA AfterClose ==
    /\ DOMAIN After = {"closing", "ending", "failing"}
    /\ \A p \in DOMAIN After : After[p] \in {"idle", "complete", "threw"}
    /\ After["closing"] = "idle" /\ After["ending"] = "complete" /\ After["failing"] = "threw"
    /\ DOMAIN After \subseteq Places
    /\ \A p \in DOMAIN After : After[p] \in Places \ DOMAIN After
<1>1. /\ DOMAIN After = {"closing", "ending", "failing"}
      /\ After["closing"] = "idle" /\ After["ending"] = "complete" /\ After["failing"] = "threw"
  BY DEF After
<1> QED
  BY <1>1 DEF Places

\* Of the calls in S, caller c waits for the query at most.
Silent(c, S) == \A r \in S : r.call[1] = c => r.call[2] = "query"

\* A caller that neither fetches nor closes has at most the query in flight.
LEMMA NothingSent ==
    ASSUME RpcInv, InFlight, NEW c, at[c] # "fetching", ~ Closing(c)
    PROVE  Silent(c, reqs)
  BY CallForms DEF InFlight, CallPlace, Silent

\* One that does has the one call.
LEMMA OneSent ==
    ASSUME RpcInv, InFlight, NEW c, NEW k \in {"fetch", "close"},
           NEW h \in reqs, h.call = <<c, k>>
    PROVE  /\ k = "fetch" => at[c] = "fetching"
           /\ k = "close" => Closing(c)
           /\ c \in Callers
           /\ Silent(c, reqs \ {h})
<1>1. h.call[1] = c /\ h.call[2] = k
  OBVIOUS
<1>2. (k = "fetch" => at[c] = "fetching") /\ (k = "close" => Closing(c)) /\ c \in Callers
  BY <1>1, CallForms DEF InFlight, CallPlace
<1>3. ~ (at[c] = "fetching" /\ Closing(c))
  BY AfterClose DEF Closing
<1>4. ASSUME NEW r \in reqs \ {h}, r.call[1] = c PROVE r.call[2] = "query"
  <2>1. CASE r.call[2] = "fetch"
    <3>1. at[c] = "fetching"
      BY <1>4, <2>1 DEF InFlight, CallPlace
    <3>2. r.call = h.call
      BY <1>2, <1>3, <1>4, <2>1, <3>1, CallForms
    <3> QED
      BY <3>2, <1>4 DEF InFlight
  <2>2. CASE r.call[2] = "close"
    <3>1. Closing(c)
      BY <1>4, <2>2 DEF InFlight, CallPlace
    <3>2. r.call = h.call
      BY <1>2, <1>3, <1>4, <2>2, <3>1, CallForms
    <3> QED
      BY <3>2, <1>4 DEF InFlight
  <2> QED
    BY <2>1, <2>2, <1>4, CallForms
<1> QED
  BY <1>2, <1>4 DEF Silent

\* Caller c goes to place p, and has nothing in flight afterwards.
LEMMA GoesOn ==
    ASSUME RpcInv, SetTypes, InFlight, NEW c \in Callers, NEW p,
           at' = [at EXCEPT ![c] = p], query' = query,
           reqs' \subseteq reqs, Silent(c, reqs')
    PROVE  InFlight'
<1>1. \A q, r \in reqs' : q.call = r.call => q = r
  BY DEF InFlight
<1>2. ASSUME NEW r \in reqs' PROVE CallPlace(r.call)'
  <2>1. CallPlace(r.call) /\ r.call[1] \in Callers
    BY CallForms DEF InFlight
  <2>2. CASE r.call[1] = c
    BY <1>2, <2>1, <2>2 DEF CallPlace, Silent
  <2>3. CASE r.call[1] # c
    <3>1. at'[r.call[1]] = at[r.call[1]]
      BY <2>1, <2>3 DEF SetTypes
    <3> QED
      BY <2>1, <3>1 DEF CallPlace, Closing
  <2> QED
    BY <2>2, <2>3
<1> QED
  BY <1>1, <1>2 DEF InFlight

\* Caller c goes to place p and sends a fetch or a close.
LEMMA Sends ==
    ASSUME RpcInv, SetTypes, InFlight, NEW c \in Callers, NEW p, NEW k \in {"fetch", "close"},
           at' = [at EXCEPT ![c] = p], query' = query,
           NEW S \in SUBSET reqs, Silent(c, S),
           reqs' = S \cup {NewRequest(<<c, k>>)},
           k = "fetch" => p = "fetching",
           k = "close" => p \in DOMAIN After
    PROVE  InFlight'
<1>0. PICK x : x = NewRequest(<<c, k>>)
  OBVIOUS
<1>1. x.call = <<c, k>> /\ x.call[1] = c /\ x.call[2] = k
  BY <1>0 DEF NewRequest
<1>2. \A r \in S : r.call # <<c, k>>
  <2>1. \A r \in S : r.call[1] = c => r.call[2] # k
    BY DEF Silent
  <2> QED
    BY <2>1
<1>3. \A q, r \in reqs' : q.call = r.call => q = r
  <2>1. \A q, r \in S : q.call = r.call => q = r
    BY DEF InFlight
  <2>2. reqs' = S \cup {x}
    BY <1>0
  <2> QED
    BY <1>1, <1>2, <2>1, <2>2
<1>4. ASSUME NEW r \in S PROVE CallPlace(r.call)'
  <2>1. CallPlace(r.call) /\ r.call[1] \in Callers
    BY CallForms DEF InFlight
  <2>2. CASE r.call[1] = c
    BY <1>4, <2>1, <2>2 DEF CallPlace, Silent
  <2>3. CASE r.call[1] # c
    <3>1. at'[r.call[1]] = at[r.call[1]]
      BY <2>1, <2>3 DEF SetTypes
    <3> QED
      BY <2>1, <3>1 DEF CallPlace, Closing
  <2> QED
    BY <2>2, <2>3
<1>5. CallPlace(x.call)'
  <2>1. at'[c] = p
    BY DEF SetTypes
  <2>2. /\ x.call[2] # "query"
        /\ x.call[2] = "fetch" => at'[x.call[1]] = "fetching"
        /\ x.call[2] = "close" => at'[x.call[1]] \in DOMAIN After
    BY <1>1, <2>1
  <2> QED
    BY <2>2 DEF CallPlace, Closing
<1> QED
  BY <1>0, <1>3, <1>4, <1>5 DEF InFlight

\* The closing and the release of the session, step by step: another caller moves
\* on, ...
LEMMA StaysClosed ==
    ASSUME SetTypes, OneCloser, NEW c \in Callers, ~ Closing(c),
           NEW p \in Places \ DOMAIN After,
           at' = [at EXCEPT ![c] = p], UNCHANGED <<query, isClosed, released>>
    PROVE  OneCloser'
<1>1. \A d \in Callers : Closing(d)' <=> Closing(d)
  BY DEF Closing, SetTypes
<1> QED
  BY <1>1 DEF OneCloser

\* ... a caller begins to close an open set, ...
LEMMA Begins ==
    ASSUME SetTypes, OneCloser, NEW c \in Callers, query = "open", ~ isClosed,
           NEW p \in DOMAIN After,
           at' = [at EXCEPT ![c] = p], UNCHANGED <<query, released>>, isClosed' = TRUE
    PROVE  OneCloser'
<1>1. released = 0 /\ \A d \in Callers : ~ Closing(d)
  BY DEF OneCloser
<1>2. \A d \in Callers : Closing(d)' <=> d = c
  BY <1>1 DEF Closing, SetTypes
<1> QED
  BY <1>1, <1>2 DEF OneCloser

\* ... or does it at once, without a connection, ...
LEMMA BeginsAndEnds ==
    ASSUME SetTypes, OneCloser, NEW c \in Callers, query = "open", ~ isClosed,
           NEW p \in Places \ DOMAIN After,
           at' = [at EXCEPT ![c] = p], query' = query, released' = released + 1, isClosed' = TRUE
    PROVE  OneCloser'
<1>1. released = 0 /\ \A d \in Callers : ~ Closing(d)
  BY DEF OneCloser
<1>2. \A d \in Callers : ~ Closing(d)'
  BY <1>1 DEF Closing, SetTypes
<1> QED
  BY <1>1, <1>2 DEF OneCloser

\* ... or is told that the set is closed.
LEMMA Ends ==
    ASSUME SetTypes, OneCloser, NEW c \in Callers, query = "open", Closing(c),
           NEW p \in Places \ DOMAIN After,
           at' = [at EXCEPT ![c] = p], released' = released + 1,
           UNCHANGED <<query, isClosed>>
    PROVE  OneCloser'
<1>1. isClosed /\ released = 0 /\ \A d \in Callers : Closing(d) => d = c
  BY DEF OneCloser
<1>2. \A d \in Callers : ~ Closing(d)'
  BY <1>1 DEF Closing, SetTypes
<1> QED
  BY <1>1, <1>2 DEF OneCloser

\* Where a caller can be, it can go.
LEMMA PlaceType ==
    ASSUME SetTypes, NEW c \in Callers, NEW p \in Places, at' = [at EXCEPT ![c] = p]
    PROVE  at' \in [Callers -> Places]
  BY DEF SetTypes

BackParts == RpcInv /\ InFlight /\ OneCloser
CloseTypes ==
    /\ at \in [Callers -> Places]
    /\ isClosed \in BOOLEAN
    /\ released \in Nat

\* close(), in its three ways (SessionDataSet.ts:399-444).
LEMMA ClosesWell ==
    ASSUME RpcInv, SetTypes, InFlight, OneCloser, NEW c \in Callers, NEW how \in DOMAIN After,
           at[c] \in {"idle", "ready"}, query = "open", query' = query,
           CloseNothing(c, how) \/ CloseAsks(c, how) \/ CloseAtOnce(c, how)
    PROVE  BackParts' /\ CloseTypes'
<1>1. /\ at[c] # "fetching" /\ ~ Closing(c)
      /\ how \in Places /\ After[how] \in Places \ DOMAIN After
      /\ how \in {"closing", "ending", "failing"}
  BY AfterClose DEF Closing
<1>2. Silent(c, reqs)
  BY <1>1, NothingSent
<1>t. isClosed \in BOOLEAN /\ released \in Nat
  BY DEF SetTypes
<1>3. CASE CloseNothing(c, how)
  <2>1. at' = [at EXCEPT ![c] = After[how]] /\ UNCHANGED <<isClosed, released, rpcVars>>
    BY <1>3 DEF CloseNothing
  <2>2. RpcInv' /\ reqs' = reqs
    BY <2>1 DEF RpcInv, rpcVars
  <2>3. InFlight'
    BY <1>1, <1>2, <2>1, <2>2, GoesOn
  <2>4. OneCloser'
    BY <1>1, <2>1, StaysClosed
  <2>5. at' \in [Callers -> Places]
    BY <1>1, <2>1, PlaceType
  <2> QED
    BY <1>t, <2>1, <2>2, <2>3, <2>4, <2>5 DEF BackParts, CloseTypes
<1>4. CASE CloseAsks(c, how)
  <2>1. /\ ~ isClosed /\ isClosed' = TRUE /\ Call(<<c, "close">>)
        /\ at' = [at EXCEPT ![c] = how] /\ released' = released
    BY <1>4 DEF CloseAsks, StillOpen
  <2>2. <<c, "close">> \in Requests
    BY DEF Requests
  <2>3. RpcInv' /\ reqs' = reqs \cup {NewRequest(<<c, "close">>)}
    BY <2>1, <2>2, CallStep
  <2>4. InFlight'
    BY <1>1, <1>2, <2>1, <2>3, Sends
  <2>5. OneCloser'
    BY <2>1, Begins
  <2>6. at' \in [Callers -> Places]
    BY <1>1, <2>1, PlaceType
  <2> QED
    BY <1>t, <2>1, <2>3, <2>4, <2>5, <2>6 DEF BackParts, CloseTypes
<1>5. CASE CloseAtOnce(c, how)
  <2>1. /\ ~ isClosed /\ isClosed' = TRUE /\ released' = released + 1
        /\ at' = [at EXCEPT ![c] = After[how]] /\ UNCHANGED rpcVars
    BY <1>5 DEF CloseAtOnce, StillOpen
  <2>2. RpcInv' /\ reqs' = reqs
    BY <2>1 DEF RpcInv, rpcVars
  <2>3. InFlight'
    BY <1>1, <1>2, <2>1, <2>2, GoesOn
  <2>4. OneCloser'
    BY <1>1, <2>1, BeginsAndEnds
  <2>5. at' \in [Callers -> Places]
    BY <1>1, <2>1, PlaceType
  <2> QED
    BY <1>t, <2>1, <2>2, <2>3, <2>4, <2>5 DEF BackParts, CloseTypes
<1> QED
  BY <1>3, <1>4, <1>5

-----------------------------------------------------------------------------
(* The batches *)

LEMMA MinBound ==
    ASSUME NEW a \in Int, NEW b \in Int
    PROVE  Min({a, b}) \in Int /\ Min({a, b}) <= a /\ Min({a, b}) <= b
<1>1. \E x \in {a, b} : \A y \in {a, b} : x <= y
  <2>1. CASE a <= b
    BY <2>1
  <2>2. CASE ~ (a <= b)
    BY <2>2
  <2> QED
    BY <2>1, <2>2
<1>2. Min({a, b}) \in {a, b} /\ \A y \in {a, b} : Min({a, b}) <= y
  BY <1>1 DEF Min
<1> QED
  BY <1>2

\* What the server sends next.
LEMMA SentBatch ==
    ASSUME cursor \in 0..Rows, gap \in BOOLEAN, NEW n, NEW more, Sent(n, more)
    PROVE  /\ n \in Nat /\ more \in BOOLEAN
           /\ cursor' = cursor + n /\ cursor' \in 0..Rows
           /\ currentRows' \in Seq(Nat) /\ Len(currentRows') = n
           /\ \A i \in 1..n : currentRows'[i] = cursor + i
           /\ rowIndex' = 0 /\ rowIndex' \in 0..n
           /\ hasMoreData' = more /\ (~ hasMoreData' => cursor' = Rows)
           /\ gap' \in BOOLEAN /\ (n = 0 /\ ~ gap' => ~ hasMoreData') /\ (gap => gap')
<1>1. /\ n \in 0..Min({Fetch, Rows - cursor})
      /\ more \in BOOLEAN /\ (cursor + n < Rows => more)
      /\ cursor' = cursor + n
      /\ gap' = (gap \/ (n = 0 /\ more))
      /\ currentRows' = [i \in 1..n |-> cursor + i]
      /\ rowIndex' = 0 /\ hasMoreData' = more
  BY DEF Sent, FirstRow
<1>2. Fetch \in Int /\ Rows \in Nat /\ cursor \in Nat /\ cursor <= Rows /\ Rows - cursor \in Int
  BY RowsAssumption
<1>3. n \in Nat /\ n <= Rows - cursor
  <2>1. Min({Fetch, Rows - cursor}) \in Int /\ Min({Fetch, Rows - cursor}) <= Rows - cursor
    BY <1>2, MinBound
  <2> DEFINE m == Min({Fetch, Rows - cursor})
  <2> HIDE DEF m
  <2>2. m \in Int /\ m <= Rows - cursor /\ n \in 0..m
    BY <1>1, <2>1 DEF m
  <2> QED
    BY <1>2, <2>2
<1>4. cursor' \in 0..Rows /\ (~ (cursor + n < Rows) => cursor' = Rows)
  BY <1>1, <1>2, <1>3
<1>5. /\ currentRows' \in Seq(Nat) /\ Len(currentRows') = n
      /\ \A i \in 1..n : currentRows'[i] = cursor + i
  <2>1. currentRows' \in [1..n -> Nat]
    BY <1>1, <1>2, <1>3
  <2>2. currentRows' \in Seq(Nat)
    BY <1>3, <2>1, SeqDef
  <2>3. DOMAIN currentRows' = 1..Len(currentRows') /\ Len(currentRows') \in Nat
    BY <2>2, LenProperties
  <2>4. Len(currentRows') = n
    BY <1>3, <2>1, <2>3
  <2> QED
    BY <1>1, <2>2, <2>4
<1> QED
  BY <1>1, <1>3, <1>4, <1>5

-----------------------------------------------------------------------------
(* The first inductive invariant *)

LEMMA BackInit == DataSetInit => BackInv
<1> SUFFICES ASSUME DataSetInit PROVE BackInv
  OBVIOUS
<1>1. RpcInv /\ InFlight
  <2>1. seqid = 0 /\ reqs = {} /\ wire = <<>>
    BY DEF DataSetInit, RpcInit
  <2>2. Wired(<<>>, {}, 0)
    <3>1. <<>> \in Seq(Request) /\ Len(<<>>) = 0 /\ DOMAIN <<>> = 1..0
      BY EmptySeq, LenProperties
    <3>2. ToSet(<<>>) = {}
      BY <3>1 DEF ToSet
    <3>3. IsFiniteSet({}) /\ Cardinality({}) = 0
      BY FS_EmptySet
    <3> QED
      BY <3>1, <3>2, <3>3 DEF Wired
  <2> QED
    BY <2>1, <2>2 DEF RpcInv, InFlight
<1>2. SetTypes
  <2>1. <<>> \in Seq(Nat) /\ Len(<<>>) = 0
    BY EmptySeq
  <2>2. 0 \in 0..Len(<<>>) /\ 0 \in 0..Rows
    BY <2>1, RowsAssumption
  <2>3. at \in [Callers -> Places] /\ readBy \in [Readers -> Nat]
    BY DEF DataSetInit, Places
  <2> QED
    BY <2>1, <2>2, <2>3 DEF DataSetInit, SetTypes
<1>3. Before /\ OneCloser
  <2>1. query = "asking" /\ isClosed = FALSE /\ released = 0 /\ at = [c \in Callers |-> "idle"]
    BY DEF DataSetInit
  <2> QED
    BY <2>1 DEF Before, OneCloser
<1> QED
  BY <1>1, <1>2, <1>3 DEF BackInv

\* What has been typed stays typed when only a close happens.
LEMMA TypesKept ==
    ASSUME SetTypes, CloseTypes',
           UNCHANGED <<style, query, currentRows, rowIndex, hasMoreData, readBy, cursor, delivered,
                       gap>>,
           overlapped' \in BOOLEAN
    PROVE  SetTypes'
  BY DEF SetTypes, CloseTypes

\* A caller that is somewhere is so because the set is open.
LEMMA OpenWhen ==
    ASSUME SetTypes, Before, NEW c \in Callers, at[c] # "idle"
    PROVE  query = "open"
  BY DEF Before, SetTypes

LEMMA BackParted == BackInv <=> BackParts /\ SetTypes /\ Before
  BY DEF BackInv, BackParts

\* The query (BaseSessionPool.ts:365-398).
LEMMA BackAsk == ASSUME BackInv, Ask PROVE BackInv'
<1>1. RpcInv /\ SetTypes /\ InFlight /\ Before /\ OneCloser
  BY DEF BackInv
<1>2. /\ query = "asking" /\ query' = "asked" /\ Call(<<Owner, "query">>)
      /\ UNCHANGED <<style, currentRows, rowIndex, hasMoreData, isClosed, released, at, readBy,
                     cursor, delivered, overlapped, gap>>
  BY DEF Ask
<1>3. /\ ~ isClosed /\ released = 0
      /\ \A c \in Callers : at[c] = "idle"
  BY <1>1, <1>2 DEF Before
<1>4. <<Owner, "query">> \in Requests
  BY DEF Requests
<1>5. RpcInv' /\ reqs' = reqs \cup {NewRequest(<<Owner, "query">>)}
  BY <1>1, <1>2, <1>4, CallStep
<1>6. reqs = {}
  <2>1. ASSUME NEW r \in reqs PROVE FALSE
    <3>1. CallPlace(r.call) /\ at[r.call[1]] = "idle" /\ r.call[2] \in {"query", "fetch", "close"}
      BY <1>1, <1>3, CallForms DEF InFlight
    <3> QED
      BY <1>2, <3>1, AfterClose DEF CallPlace, Closing
  <2> QED
    BY <2>1
<1>7. InFlight'
  <2>1. PICK x : x = NewRequest(<<Owner, "query">>)
    OBVIOUS
  <2>2. x.call[2] = "query"
    BY <2>1 DEF NewRequest
  <2>3. CallPlace(x.call)'
    BY <1>2, <2>2 DEF CallPlace
  <2> QED
    BY <1>5, <1>6, <2>1, <2>3 DEF InFlight
<1>8. SetTypes'
  BY <1>1, <1>2 DEF SetTypes
<1>9. Before' /\ OneCloser'
  BY <1>2, <1>3 DEF Before, OneCloser
<1> QED
  BY <1>5, <1>7, <1>8, <1>9 DEF BackInv

LEMMA BackAnswer == ASSUME BackInv, Answer PROVE BackInv'
<1>1. RpcInv /\ SetTypes /\ InFlight /\ Before /\ OneCloser
  BY DEF BackInv
<1>2. query = "asked" /\ Recv(<<Owner, "query">>)
      /\ UNCHANGED <<style, isClosed, at, readBy, delivered, overlapped>>
  BY DEF Answer
<1>3. /\ ~ isClosed /\ released = 0
      /\ \A c \in Callers : at[c] = "idle"
  BY <1>1, <1>2 DEF Before
<1>4. RpcInv'
  BY <1>1, <1>2, RecvStep
<1>5. PICK h \in reqs : h.call = <<Owner, "query">> /\ reqs' = reqs \ {h}
  BY <1>1, <1>2, RecvStep
<1>6. reqs' = {}
  <2>1. ASSUME NEW r \in reqs PROVE r = h
    <3>1. CallPlace(r.call) /\ at[r.call[1]] = "idle"
      BY <1>1, <1>3, CallForms DEF InFlight
    <3>2. r.call[2] = "query"
      BY <1>1, <3>1, CallForms, AfterClose DEF CallPlace, Closing
    <3>3. r.call = h.call
      BY <1>1, <1>5, <3>2, CallForms
    <3> QED
      BY <1>1, <3>3 DEF InFlight
  <2> QED
    BY <1>5, <2>1
<1>7. InFlight'
  BY <1>6 DEF InFlight
<1>8. \A c \in Callers : ~ Closing(c)
  BY <1>3, AfterClose DEF Closing
<1>9. CASE query' = "open"
  <2>1. released' = released /\ \E n \in 0..Fetch, more \in BOOLEAN : Sent(n, more)
    BY <1>9 DEF Answer
  <2>2. PICK n, more : Sent(n, more)
    BY <2>1
  <2>3. /\ currentRows' \in Seq(Nat) /\ rowIndex' \in 0..Len(currentRows')
        /\ hasMoreData' \in BOOLEAN /\ cursor' \in 0..Rows /\ gap' \in BOOLEAN
    BY <1>1, <2>2, SentBatch DEF SetTypes
  <2>4. SetTypes'
    BY <1>1, <1>2, <1>9, <2>1, <2>3 DEF SetTypes
  <2>5. Before' /\ OneCloser'
    BY <1>2, <1>3, <1>8, <1>9, <2>1 DEF Before, OneCloser, Closing
  <2> QED
    BY <1>4, <1>7, <2>4, <2>5 DEF BackInv
<1>10. CASE query' # "open"
  <2>1. /\ query' = "failed" /\ released' = released + 1
        /\ UNCHANGED <<cursor, gap, currentRows, rowIndex, hasMoreData>>
    BY <1>10 DEF Answer
  <2>2. SetTypes'
    BY <1>1, <1>2, <2>1 DEF SetTypes
  <2>3. Before' /\ OneCloser'
    BY <1>2, <1>3, <2>1 DEF Before, OneCloser
  <2> QED
    BY <1>4, <1>7, <2>2, <2>3 DEF BackInv
<1> QED
  BY <1>9, <1>10

\* A turn of a caller that neither closes nor gets an answer.
LEMMA BackMoves ==
    ASSUME BackInv, NEW c \in Callers, at[c] \in {"idle", "ready"}, query = "open",
           NEW p \in Places \ DOMAIN After, at' = [at EXCEPT ![c] = p],
           UNCHANGED <<rpcVars, query, isClosed, released>>
    PROVE  BackParts' /\ Before' /\ CloseTypes'
<1>1. RpcInv /\ SetTypes /\ InFlight /\ Before /\ OneCloser
  BY DEF BackInv
<1>2. at[c] # "fetching" /\ ~ Closing(c)
  BY AfterClose DEF Closing
<1>3. RpcInv' /\ reqs' = reqs
  BY <1>1 DEF RpcInv, rpcVars
<1>4. Silent(c, reqs)
  BY <1>1, <1>2, NothingSent
<1>5. InFlight'
  BY <1>1, <1>3, <1>4, GoesOn
<1>6. OneCloser'
  BY <1>1, <1>2, StaysClosed
<1>7. at' \in [Callers -> Places]
  BY <1>1, PlaceType
<1>8. Before'
  BY DEF Before
<1>9. isClosed' \in BOOLEAN /\ released' \in Nat
  BY <1>1 DEF SetTypes
<1> QED
  BY <1>3, <1>5, <1>6, <1>7, <1>8, <1>9 DEF BackParts, CloseTypes

\* The turns of close(), hasNext() and next() (SessionDataSet.ts:138-444).
LEMMA BackClose == ASSUME BackInv, NEW c \in Callers, Close(c) PROVE BackInv'
<1>1. /\ query = "open" /\ at[c] \in {"idle", "ready"}
      /\ CloseNothing(c, "closing") \/ CloseAsks(c, "closing") \/ CloseAtOnce(c, "closing")
      /\ UNCHANGED <<style, query, currentRows, rowIndex, hasMoreData, readBy, cursor, delivered,
                     overlapped, gap>>
  BY DEF Close
<1>2. RpcInv /\ SetTypes /\ InFlight /\ Before /\ OneCloser
  BY DEF BackInv
<1>3. "closing" \in DOMAIN After
  BY AfterClose
<1>4. BackParts' /\ CloseTypes'
  BY <1>1, <1>2, <1>3, ClosesWell
<1>5. Before'
  BY <1>1 DEF Before
<1>6. SetTypes'
  BY <1>1, <1>2, <1>4, TypesKept DEF SetTypes
<1> QED
  BY <1>4, <1>5, <1>6, BackParted DEF BackInv, BackParts

LEMMA BackClosed == ASSUME BackInv, NEW c \in Callers, Closed(c) PROVE BackInv'
<1>1. /\ Recv(<<c, "close">>) /\ released' = released + 1
      /\ at' = [at EXCEPT ![c] = After[at[c]]]
      /\ UNCHANGED <<style, query, currentRows, rowIndex, hasMoreData, isClosed, readBy, cursor,
                     delivered, overlapped, gap>>
  BY DEF Closed
<1>2. RpcInv /\ SetTypes /\ InFlight /\ Before /\ OneCloser
  BY DEF BackInv
<1>3. RpcInv'
  BY <1>1, <1>2, RecvStep
<1>4. PICK h \in reqs : h.call = <<c, "close">> /\ reqs' = reqs \ {h}
  BY <1>1, <1>2, RecvStep
<1>5. Closing(c) /\ Silent(c, reqs')
  BY <1>2, <1>4, OneSent
<1>6. query = "open"
  BY <1>2, <1>5, OpenWhen, AfterClose DEF Closing
<1>7. PICK p : p = After[at[c]]
  OBVIOUS
<1>8. p \in Places \ DOMAIN After /\ at' = [at EXCEPT ![c] = p]
  BY <1>1, <1>5, <1>7, AfterClose DEF Closing
<1>9. InFlight'
  BY <1>1, <1>2, <1>4, <1>5, <1>8, GoesOn
<1>10. OneCloser'
  BY <1>1, <1>2, <1>5, <1>6, <1>8, Ends
<1>11. Before'
  BY <1>1, <1>6 DEF Before
<1>12. SetTypes'
  <2>1. at' \in [Callers -> Places]
    BY <1>2, <1>8, PlaceType
  <2>2. isClosed' \in BOOLEAN /\ released' \in Nat /\ overlapped' \in BOOLEAN
    BY <1>1, <1>2 DEF SetTypes
  <2> QED
    BY <1>1, <1>2, <2>1, <2>2, TypesKept DEF CloseTypes
<1> QED
  BY <1>3, <1>9, <1>10, <1>11, <1>12 DEF BackInv

LEMMA HasOnePlace == \A r : HasOne(r) \in {"truncated", "ready"}
  BY DEF HasOne

LEMMA GoodPlaces ==
    {"idle", "ready", "fetching", "complete", "threw", "ended", "truncated"}
        \subseteq Places \ DOMAIN After
  BY AfterClose DEF Places

LEMMA BackLook == ASSUME BackInv, NEW r \in Readers, Look(r) PROVE BackInv'
<1>1. /\ query = "open" /\ at[r] = "idle"
      /\ UNCHANGED <<rpcVars, style, query, currentRows, rowIndex, hasMoreData, isClosed, released,
                     readBy, cursor, delivered, overlapped, gap>>
  BY DEF Look
<1>2. PICK p \in {"ended", "truncated", "ready"} : at' = [at EXCEPT ![r] = p]
  BY HasOnePlace DEF Look
<1>3. r \in Callers /\ p \in Places \ DOMAIN After
  BY GoodPlaces DEF Callers
<1>4. BackParts' /\ Before' /\ CloseTypes'
  BY <1>1, <1>2, <1>3, BackMoves
<1>5. SetTypes'
  BY <1>1, <1>4, TypesKept DEF BackInv, SetTypes
<1> QED
  BY <1>4, <1>5 DEF BackInv, BackParts

LEMMA BackFinished == ASSUME BackInv, NEW r \in Readers, Finished(r) PROVE BackInv'
<1>1. /\ query = "open" /\ at[r] = "idle"
      /\ CloseAsks(r, "ending") \/ CloseAtOnce(r, "ending")
      /\ UNCHANGED <<style, query, currentRows, rowIndex, hasMoreData, readBy, cursor, delivered,
                     overlapped, gap>>
  BY DEF Finished, Exhausted
<1>2. RpcInv /\ SetTypes /\ InFlight /\ Before /\ OneCloser
  BY DEF BackInv
<1>3. "ending" \in DOMAIN After /\ r \in Callers
  BY AfterClose DEF Callers
<1>4. BackParts' /\ CloseTypes'
  BY <1>1, <1>2, <1>3, ClosesWell
<1>5. Before'
  BY <1>1 DEF Before
<1>6. SetTypes'
  BY <1>1, <1>2, <1>4, TypesKept DEF SetTypes
<1> QED
  BY <1>4, <1>5, <1>6 DEF BackInv, BackParts

LEMMA BackFetch == ASSUME BackInv, NEW r \in Readers, FetchNextBatch(r) PROVE BackInv'
<1>1. /\ query = "open" /\ at[r] = "idle"
      /\ UNCHANGED <<style, query, currentRows, rowIndex, hasMoreData, readBy, cursor, delivered,
                     gap>>
  BY DEF FetchNextBatch, Exhausted
<1>2. RpcInv /\ SetTypes /\ InFlight /\ Before /\ OneCloser /\ r \in Callers
  BY DEF BackInv, Callers
<1>3. Before'
  BY <1>1 DEF Before
<1>4. overlapped' \in BOOLEAN
  BY <1>2 DEF FetchNextBatch, SetTypes
<1>5. CASE CloseAtOnce(r, "failing")
  <2>1. "failing" \in DOMAIN After
    BY AfterClose
  <2>2. BackParts' /\ CloseTypes'
    BY <1>1, <1>2, <1>5, <2>1, ClosesWell
  <2>3. SetTypes'
    BY <1>1, <1>2, <1>4, <2>2, TypesKept
  <2> QED
    BY <1>3, <2>2, <2>3 DEF BackInv, BackParts
<1>6. CASE ~ CloseAtOnce(r, "failing")
  <2>1. /\ Call(<<r, "fetch">>) /\ at' = [at EXCEPT ![r] = "fetching"]
        /\ UNCHANGED <<isClosed, released>>
    BY <1>6 DEF FetchNextBatch
  <2>2. <<r, "fetch">> \in Requests /\ at[r] # "fetching" /\ ~ Closing(r)
    BY <1>1, AfterClose DEF Requests, Closing
  <2>3. RpcInv' /\ reqs' = reqs \cup {NewRequest(<<r, "fetch">>)}
    BY <1>2, <2>1, <2>2, CallStep
  <2>4. Silent(r, reqs)
    BY <1>2, <2>2, NothingSent
  <2>5. InFlight'
    BY <1>1, <1>2, <2>1, <2>3, <2>4, Sends
  <2>6. "fetching" \in Places \ DOMAIN After
    BY GoodPlaces
  <2>7. OneCloser'
    BY <1>1, <1>2, <2>1, <2>2, <2>6, StaysClosed
  <2>8. at' \in [Callers -> Places]
    BY <1>2, <2>1, <2>6, PlaceType
  <2>9. CloseTypes'
    BY <1>2, <2>1, <2>8 DEF CloseTypes, SetTypes
  <2>10. SetTypes'
    BY <1>1, <1>2, <1>4, <2>9, TypesKept
  <2> QED
    BY <1>3, <2>3, <2>5, <2>7, <2>10 DEF BackInv
<1> QED
  BY <1>5, <1>6

LEMMA BackFetched == ASSUME BackInv, NEW r \in Readers, Fetched(r) PROVE BackInv'
<1>1. /\ Recv(<<r, "fetch">>)
      /\ UNCHANGED <<style, query, isClosed, released, readBy, delivered, overlapped>>
  BY DEF Fetched
<1>2. RpcInv /\ SetTypes /\ InFlight /\ Before /\ OneCloser /\ r \in Callers
  BY DEF BackInv, Callers
<1>3. PICK n \in 0..Fetch, more \in BOOLEAN :
          Sent(n, more) /\ at' = [at EXCEPT ![r] = IF n > 0 THEN HasOne(r) ELSE "complete"]
  BY DEF Fetched
<1>4. RpcInv'
  BY <1>1, <1>2, RecvStep
<1>5. PICK h \in reqs : h.call = <<r, "fetch">> /\ reqs' = reqs \ {h}
  BY <1>1, <1>2, RecvStep
<1>6. at[r] = "fetching" /\ Silent(r, reqs')
  BY <1>2, <1>5, OneSent
<1>7. query = "open" /\ ~ Closing(r)
  BY <1>2, <1>6, OpenWhen, AfterClose DEF Closing
<1>8. PICK p : p = IF n > 0 THEN HasOne(r) ELSE "complete"
  OBVIOUS
<1>9. p \in Places \ DOMAIN After /\ at' = [at EXCEPT ![r] = p]
  BY <1>3, <1>8, HasOnePlace, GoodPlaces
<1>10. InFlight'
  BY <1>1, <1>2, <1>5, <1>6, <1>9, GoesOn
<1>11. OneCloser'
  BY <1>1, <1>2, <1>7, <1>9, StaysClosed
<1>12. Before'
  BY <1>1, <1>7 DEF Before
<1>13. SetTypes'
  <2>1. at' \in [Callers -> Places]
    BY <1>2, <1>9, PlaceType
  <2>2. /\ currentRows' \in Seq(Nat) /\ rowIndex' \in 0..Len(currentRows')
        /\ hasMoreData' \in BOOLEAN /\ cursor' \in 0..Rows /\ gap' \in BOOLEAN
    BY <1>2, <1>3, SentBatch DEF SetTypes
  <2> QED
    BY <1>1, <1>2, <2>1, <2>2 DEF SetTypes
<1> QED
  BY <1>4, <1>10, <1>11, <1>12, <1>13 DEF BackInv

LEMMA BackFetchFails == ASSUME BackInv, NEW r \in Readers, FetchFails(r) PROVE BackInv'
<1>1. UNCHANGED <<style, query, currentRows, rowIndex, hasMoreData, released, readBy, cursor,
                  delivered, overlapped, gap>>
  BY DEF FetchFails
<1>2. RpcInv /\ SetTypes /\ InFlight /\ Before /\ OneCloser /\ r \in Callers
      /\ isClosed \in BOOLEAN /\ released \in Nat /\ overlapped \in BOOLEAN
  BY DEF BackInv, Callers, SetTypes
<1>3. CASE ~ isClosed
  <2>1. /\ RecvAndCall(<<r, "fetch">>, <<r, "close">>) /\ isClosed' = TRUE
        /\ at' = [at EXCEPT ![r] = "failing"]
    BY <1>3 DEF FetchFails, StillOpen
  <2>2. <<r, "close">> \in Requests
    BY <1>2 DEF Requests
  <2>3. RpcInv'
    BY <1>2, <2>1, <2>2, RecvAndCallStep
  <2>4. PICK h \in reqs : /\ h.call = <<r, "fetch">>
                          /\ reqs' = (reqs \ {h}) \cup {NewRequest(<<r, "close">>)}
    BY <1>2, <2>1, <2>2, RecvAndCallStep
  <2>5. at[r] = "fetching" /\ Silent(r, reqs \ {h})
    BY <1>2, <2>4, OneSent
  <2>6. query = "open"
    BY <1>2, <2>5, OpenWhen
  <2>7. "failing" \in DOMAIN After /\ "failing" \in Places /\ reqs \ {h} \in SUBSET reqs
    BY AfterClose
  <2>8. InFlight'
    BY <1>1, <1>2, <2>1, <2>4, <2>5, <2>7, Sends
  <2>9. OneCloser'
    BY <1>1, <1>2, <1>3, <2>1, <2>6, <2>7, Begins
  <2>10. at' \in [Callers -> Places]
    BY <1>2, <2>1, <2>7, PlaceType
  <2>11. SetTypes'
    BY <1>1, <1>2, <2>1, <2>10, TypesKept DEF CloseTypes
  <2>12. Before'
    BY <1>1, <2>6 DEF Before
  <2> QED
    BY <2>3, <2>8, <2>9, <2>11, <2>12 DEF BackInv
<1>4. CASE isClosed
  <2>1. /\ Recv(<<r, "fetch">>) /\ isClosed' = isClosed
        /\ at' = [at EXCEPT ![r] = "threw"]
    BY <1>4 DEF FetchFails, StillOpen
  <2>2. RpcInv'
    BY <1>2, <2>1, RecvStep
  <2>3. PICK h \in reqs : h.call = <<r, "fetch">> /\ reqs' = reqs \ {h}
    BY <1>2, <2>1, RecvStep
  <2>4. at[r] = "fetching" /\ Silent(r, reqs')
    BY <1>2, <2>3, OneSent
  <2>5. query = "open" /\ ~ Closing(r) /\ "threw" \in Places \ DOMAIN After
    BY <1>2, <2>4, OpenWhen, AfterClose, GoodPlaces DEF Closing
  <2>6. InFlight'
    BY <1>1, <1>2, <2>1, <2>3, <2>4, <2>5, GoesOn
  <2>7. OneCloser'
    BY <1>1, <1>2, <2>1, <2>5, StaysClosed
  <2>8. at' \in [Callers -> Places]
    BY <1>2, <2>1, <2>5, PlaceType
  <2>9. SetTypes'
    BY <1>1, <1>2, <2>1, <2>8, TypesKept DEF CloseTypes
  <2>10. Before'
    BY <1>1, <2>5 DEF Before
  <2> QED
    BY <2>2, <2>6, <2>7, <2>9, <2>10 DEF BackInv
<1> QED
  BY <1>3, <1>4

LEMMA BackTake == ASSUME BackInv, NEW r \in Readers, Take(r) PROVE BackInv'
<1>1. /\ at[r] = "ready"
      /\ UNCHANGED <<rpcVars, style, query, currentRows, hasMoreData, isClosed, released, cursor,
                     overlapped, gap>>
  BY DEF Take
<1>2. SetTypes /\ Before /\ r \in Callers
  BY DEF BackInv, Callers
<1>3. PICK p \in {"idle", "threw"} : at' = [at EXCEPT ![r] = p]
  BY DEF Take
<1>4. query = "open" /\ p \in Places \ DOMAIN After
  BY <1>1, <1>2, OpenWhen, GoodPlaces
<1>5. BackParts' /\ Before' /\ CloseTypes'
  BY <1>1, <1>2, <1>3, <1>4, BackMoves
<1>6. readBy' \in [Readers -> Nat] /\ rowIndex' \in 0..Len(currentRows) /\ delivered' \in Seq(Nat)
  <2>t. /\ readBy \in [Readers -> Nat] /\ rowIndex \in 0..Len(currentRows)
        /\ delivered \in Seq(Nat) /\ currentRows \in Seq(Nat) /\ Len(currentRows) \in Nat
    BY <1>2, LenProperties DEF SetTypes
  <2>1. readBy' = readBy \/ readBy' = [readBy EXCEPT ![r] = @ + 1]
    BY DEF Take
  <2>2. \/ UNCHANGED <<rowIndex, delivered>>
        \/ /\ rowIndex < Len(currentRows) /\ rowIndex' = rowIndex + 1
           /\ delivered' = Append(delivered, currentRows[rowIndex + 1])
    BY DEF Take
  <2>3. readBy' \in [Readers -> Nat]
    BY <2>t, <2>1
  <2>4. CASE UNCHANGED <<rowIndex, delivered>>
    BY <2>t, <2>3, <2>4
  <2>5. CASE /\ rowIndex < Len(currentRows) /\ rowIndex' = rowIndex + 1
             /\ delivered' = Append(delivered, currentRows[rowIndex + 1])
    <3>1. rowIndex + 1 \in 1..Len(currentRows)
      BY <2>t, <2>5
    <3>2. currentRows[rowIndex + 1] \in Nat
      BY <2>t, <3>1, ElementOfSeq
    <3>3. delivered' \in Seq(Nat)
      BY <2>t, <2>5, <3>2, AppendProperties
    <3> QED
      BY <2>t, <2>3, <2>5, <3>1, <3>3
  <2> QED
    BY <2>2, <2>4, <2>5
<1>7. SetTypes'
  BY <1>1, <1>2, <1>5, <1>6 DEF SetTypes, CloseTypes
<1> QED
  BY <1>5, <1>7 DEF BackInv, BackParts

LEMMA BackStill ==
    ASSUME BackInv, UNCHANGED <<setVars, seqid, reqs, wire>>
    PROVE  BackInv'
<1>1. UNCHANGED <<style, query, currentRows, rowIndex, hasMoreData, isClosed, released, at, readBy,
                  cursor, delivered, overlapped, gap>>
  BY DEF setVars
<1>2. RpcInv'
  BY DEF BackInv, RpcInv
<1>3. SetTypes'
  BY <1>1 DEF BackInv, SetTypes
<1>4. InFlight' /\ Before' /\ OneCloser'
  BY <1>1 DEF BackInv, InFlight, CallPlace, Closing, Before, OneCloser
<1> QED
  BY <1>2, <1>3, <1>4 DEF BackInv

LEMMA BackNext == BackInv /\ [DataSetNext]_dataSetVars => BackInv'
<1> SUFFICES ASSUME BackInv, [DataSetNext]_dataSetVars PROVE BackInv'
  OBVIOUS
<1>1. CASE Lost \/ UNCHANGED dataSetVars
  BY <1>1, BackStill DEF Lost, LinkLost, dataSetVars, rpcVars
<1> QED
  BY <1>1, BackAsk, BackAnswer, BackClose, BackClosed, BackLook, BackFinished, BackFetch,
     BackFetched, BackFetchFails, BackTake
  DEF DataSetNext

LEMMA BackAlways == DataSetSpec => []BackInv
<1> QED
  BY BackInit, BackNext, PTL DEF DataSetSpec

\* Seqids tell the calls apart, and the table of callbacks holds the calls that
\* have no answer yet, and no others (IClientRPCService.js:6695-6763).
THEOREM CallbacksExact == DataSetSpec => []RpcExact
<1>1. BackInv => RpcExact
  BY WireSeqids DEF BackInv, RpcInv, RpcExact, Wired
<1> QED
  BY <1>1, BackAlways, PTL

\* Whoever closes the set, and however often, its session goes back to the pool
\* once (BaseSessionPool.ts:379-394, SessionDataSet.ts:399-444).
THEOREM SessionGivenBack == DataSetSpec => []SessionBackOnce
<1>1. BackInv => SessionBackOnce
  <2> SUFFICES ASSUME BackInv PROVE SessionBackOnce
    OBVIOUS
  <2>1. CASE query = "open"
    <3>1. \/ ~ isClosed /\ released = 0
          \/ isClosed /\ released = 1
          \/ isClosed /\ released = 0 /\ \E c \in Callers : Closing(c)
      BY <2>1 DEF BackInv, OneCloser
    <3> QED
      BY <3>1 DEF SessionBackOnce, Closing
  <2>2. CASE query # "open"
    BY <2>2 DEF BackInv, Before, SessionBackOnce
  <2> QED
    BY <2>1, <2>2
<1> QED
  BY <1>1, BackAlways, PTL

-----------------------------------------------------------------------------
(* The rows *)

\* The numbers involved, and how they are related.
LEMMA RowNumbers ==
    ASSUME SetTypes
    PROVE  /\ Len(currentRows) \in Nat /\ Len(delivered) \in Nat
           /\ rowIndex \in Nat /\ rowIndex <= Len(currentRows)
           /\ cursor \in Nat /\ cursor <= Rows /\ Rows \in Nat
           /\ Read \in Int /\ Read <= cursor
           /\ (rowIndex = Len(currentRows) => Read = cursor)
           /\ (rowIndex < Len(currentRows) => Read < cursor)
           /\ DOMAIN delivered = 1..Len(delivered)
           /\ \A i \in 1..Len(delivered) : delivered[i] \in Nat
           /\ at \in [Callers -> Places]
<1>1. /\ Len(currentRows) \in Nat /\ Len(delivered) \in Nat
      /\ DOMAIN delivered = 1..Len(delivered)
      /\ \A i \in 1..Len(delivered) : delivered[i] \in Nat
  BY LenProperties, ElementOfSeq DEF SetTypes
<1>2. rowIndex \in 0..Len(currentRows) /\ cursor \in 0..Rows /\ Rows \in Nat
  BY RowsAssumption DEF SetTypes
<1> DEFINE n == Len(currentRows)
<1> HIDE DEF n
<1>3. /\ rowIndex \in Nat /\ rowIndex <= n /\ cursor \in Nat /\ cursor <= Rows /\ n \in Nat
  BY <1>1, <1>2 DEF n
<1>4. /\ cursor - n + rowIndex \in Int /\ cursor - n + rowIndex <= cursor
      /\ (rowIndex = n => cursor - n + rowIndex = cursor)
      /\ (rowIndex < n => cursor - n + rowIndex < cursor)
  BY <1>3
<1> QED
  BY <1>1, <1>2, <1>3, <1>4 DEF Read, n, SetTypes

\* A caller goes to place p, other than to fetch, and no row moves.
LEMMA RowsMove ==
    ASSUME SetTypes, RowsInv, NEW c \in Callers, NEW p, p # "fetching",
           at' = [at EXCEPT ![c] = p],
           UNCHANGED <<query, currentRows, rowIndex, hasMoreData, readBy, cursor, delivered,
                       overlapped, gap>>,
           p = "truncated" => rowIndex < Len(currentRows),
           c \in Readers /\ p \in {"ending", "complete"} /\ ~ overlapped /\ ~ gap =>
               Len(delivered) = Rows
    PROVE  RowsInv'
<1>1. Ascending' /\ Batch' /\ Read' = Read
  BY DEF RowsInv, Ascending, Batch, Read
<1>2. \A r \in Readers : at'[r] = IF r = c THEN p ELSE at[r]
  BY DEF SetTypes, Callers
<1>3. NoneMissed'
  BY <1>1, <1>2 DEF RowsInv, NoneMissed, Fetching
<1>4. Told'
  BY <1>2 DEF RowsInv, Told
<1> QED
  BY <1>1, <1>3, <1>4 DEF RowsInv

LEMMA RowsInit == DataSetInit => RowsInv
<1> SUFFICES ASSUME DataSetInit PROVE RowsInv
  OBVIOUS
<1>1. /\ query = "asking" /\ currentRows = <<>> /\ rowIndex = 0 /\ cursor = 0 /\ delivered = <<>>
      /\ at = [c \in Callers |-> "idle"]
  BY DEF DataSetInit
<1>2. Len(<<>>) = 0 /\ DOMAIN <<>> = 1..0
  BY EmptySeq, LenProperties
<1>3. Read = 0 /\ 1..0 = {}
  <2>1. Read = 0 - 0 + 0
    BY <1>1, <1>2 DEF Read
  <2>2. 0 - 0 + 0 = 0 /\ 1..0 = {}
    OBVIOUS
  <2> QED
    BY <2>1, <2>2
<1>4. Ascending /\ Batch
  BY <1>1, <1>2, <1>3 DEF Ascending, Batch
<1>5. \A r \in Readers : at[r] = "idle"
  BY <1>1 DEF Callers
<1>6. NoneMissed /\ Told
  BY <1>1, <1>2, <1>3, <1>5 DEF NoneMissed, Told, Fetching
<1> QED
  BY <1>4, <1>6 DEF RowsInv

\* A batch arrives when the rows of the one before have been read
\* (SessionDataSet.ts:356-395).
LEMMA RowsFetched ==
    ASSUME BackInv, BackInv', RowsInv, NEW r \in Readers, Fetched(r)
    PROVE  RowsInv'
<1>1. UNCHANGED <<query, delivered, readBy, overlapped>> /\ Recv(<<r, "fetch">>)
  BY DEF Fetched
<1>2. RpcInv /\ SetTypes /\ SetTypes' /\ InFlight /\ Before /\ r \in Callers
  BY DEF BackInv, Callers
<1>3. PICK n \in 0..Fetch, more \in BOOLEAN :
          Sent(n, more) /\ at' = [at EXCEPT ![r] = IF n > 0 THEN HasOne(r) ELSE "complete"]
  BY DEF Fetched
<1>4. /\ n \in Nat
      /\ cursor' = cursor + n
      /\ Len(currentRows') = n
      /\ \A i \in 1..n : currentRows'[i] = cursor + i
      /\ rowIndex' = 0
      /\ ~ hasMoreData' => cursor' = Rows
      /\ (n = 0 /\ ~ gap' => ~ hasMoreData') /\ (gap => gap')
  BY <1>2, <1>3, SentBatch DEF SetTypes
<1>5. at[r] = "fetching" /\ query = "open"
  <2>1. PICK h \in reqs : h.call = <<r, "fetch">>
    BY <1>1, <1>2, RecvStep
  <2>2. at[r] = "fetching"
    BY <1>2, <2>1, OneSent
  <2> QED
    BY <1>2, <2>2, OpenWhen
<1>n. /\ Len(delivered) \in Nat /\ cursor \in Nat /\ Read \in Int /\ Read <= cursor
      /\ (rowIndex = Len(currentRows) => Read = cursor)
      /\ DOMAIN delivered = 1..Len(delivered)
      /\ \A i \in 1..Len(delivered) : delivered[i] \in Nat
  BY <1>2, RowNumbers
<1>6. Read' = cursor
  <2>1. Read' = (cursor + n) - n + 0
    BY <1>4 DEF Read
  <2> QED
    BY <1>4, <1>n, <2>1
<1>7. Ascending'
  BY <1>1 DEF RowsInv, Ascending
<1>8. Batch'
  <2>1. \A i \in 1..n : currentRows'[i] = cursor' - n + i
    BY <1>4, <1>n
  <2>2. \A i \in 1..Len(delivered) : delivered[i] <= cursor
    <3>1. \A i \in 1..Len(delivered) : delivered[i] <= Read
      BY DEF RowsInv, Batch
    <3> QED
      BY <1>n, <3>1
  <2> QED
    BY <1>1, <1>4, <1>5, <1>6, <1>n, <2>1, <2>2 DEF Batch
<1>9. \A q \in Readers : at'[q] = IF q = r THEN (IF n > 0 THEN HasOne(r) ELSE "complete") ELSE at[q]
  BY <1>2, <1>3 DEF SetTypes, Callers
<1>10. ASSUME ~ overlapped
       PROVE  /\ rowIndex = Len(currentRows) /\ Len(delivered) = cursor
              /\ \A q \in Readers : at[q] = "fetching" => q = r
  BY <1>5, <1>10, <1>n DEF RowsInv, NoneMissed, Fetching
<1>11. NoneMissed'
  <2>1. \A q \in Readers : at'[q] # "fetching"  \/ overlapped
    BY <1>9, <1>10, HasOnePlace
  <2> QED
    BY <1>1, <1>6, <1>10, <2>1 DEF NoneMissed, Fetching, RowsInv
<1>12. Told'
  <2> SUFFICES ASSUME ~ overlapped, NEW q \in Readers
               PROVE  /\ at'[q] = "truncated" /\ (\A s \in Readers \ {q} : readBy[s] = 0) =>
                             rowIndex' < Len(currentRows')
                      /\ at'[q] \in {"ending", "complete"} /\ ~ gap' => Len(delivered) = Rows
    BY <1>1 DEF Told
  <2>1. CASE q = r
    <3>1. at'[r] = "truncated" => n > 0
      BY <1>9
    <3>2. at'[r] \in {"ending", "complete"} => ~ (n > 0)
      BY <1>9, HasOnePlace
    <3>3. n > 0 \/ n = 0
      BY <1>4
    <3>4. n = 0 /\ ~ gap' => Len(delivered) = Rows
      BY <1>4, <1>10, <1>n
    <3>5. n > 0 => rowIndex' < Len(currentRows')
      BY <1>4
    <3> QED
      BY <2>1, <3>1, <3>2, <3>3, <3>4, <3>5
  <2>2. CASE q # r
    <3>1. at'[q] = at[q]
      BY <1>9, <2>2
    <3>2. ~ (rowIndex < Len(currentRows))
      BY <1>2, <1>10, RowNumbers
    <3>3. at[q] = "truncated" => ~ (\A s \in Readers \ {q} : readBy[s] = 0)
      BY <3>2 DEF RowsInv, Told
    <3>4. at[q] \in {"ending", "complete"} /\ ~ gap' => Len(delivered) = Rows
      BY <1>4 DEF RowsInv, Told
    <3> QED
      BY <3>1, <3>3, <3>4
  <2> QED
    BY <2>1, <2>2
<1> QED
  BY <1>7, <1>8, <1>11, <1>12 DEF RowsInv

\* The next row is read (SessionDataSet.ts:178-188).
LEMMA RowsTake ==
    ASSUME BackInv, BackInv', RowsInv, NEW r \in Readers, Take(r)
    PROVE  RowsInv'
<1>1. /\ at[r] = "ready"
      /\ UNCHANGED <<query, currentRows, hasMoreData, cursor, overlapped, gap>>
  BY DEF Take
<1>2. SetTypes /\ SetTypes' /\ r \in Callers /\ readBy \in [Readers -> Nat]
  BY DEF BackInv, Callers, SetTypes
<1>3. CASE UNCHANGED readBy
  <2>1. UNCHANGED <<rowIndex, delivered>> /\ at' = [at EXCEPT ![r] = "threw"]
    <3>1. readBy' # [readBy EXCEPT ![r] = @ + 1]
      <4>1. readBy[r] \in Nat /\ readBy[r] # readBy[r] + 1
        BY <1>2
      <4> QED
        BY <1>2, <1>3, <4>1
    <3> QED
      BY <3>1 DEF Take
  <2> QED
    BY <1>1, <1>2, <1>3, <2>1, RowsMove
<1>4. CASE readBy' # readBy
  <2>1. /\ readBy' = [readBy EXCEPT ![r] = @ + 1] /\ at' = [at EXCEPT ![r] = "idle"]
        /\ \/ UNCHANGED <<rowIndex, delivered>>
           \/ /\ rowIndex < Len(currentRows) /\ rowIndex' = rowIndex + 1
              /\ delivered' = Append(delivered, currentRows[rowIndex + 1])
    BY <1>4 DEF Take
  <2>2. readBy'[r] # 0
    <3>1. readBy[r] \in Nat /\ readBy'[r] = readBy[r] + 1
      BY <1>2, <2>1
    <3> QED
      BY <3>1
  <2>3. \A q \in Readers : at'[q] = IF q = r THEN "idle" ELSE at[q]
    BY <1>2, <2>1 DEF SetTypes, Callers
  <2>4. \A q \in Readers :
            ~ (at'[q] = "truncated" /\ \A s \in Readers \ {q} : readBy'[s] = 0)
    BY <2>2, <2>3
  <2>5. CASE UNCHANGED <<rowIndex, delivered>>
    <3>1. Ascending' /\ Batch' /\ Read' = Read
      BY <1>1, <2>5 DEF RowsInv, Ascending, Batch, Read
    <3>2. NoneMissed'
      BY <1>1, <2>3, <2>5, <3>1 DEF RowsInv, NoneMissed, Fetching
    <3>3. Told'
      BY <1>1, <2>3, <2>4, <2>5 DEF RowsInv, Told
    <3> QED
      BY <3>1, <3>2, <3>3 DEF RowsInv
  <2>6. CASE /\ rowIndex < Len(currentRows) /\ rowIndex' = rowIndex + 1
             /\ delivered' = Append(delivered, currentRows[rowIndex + 1])
    <3> DEFINE x == currentRows[rowIndex + 1]
               n == Len(delivered)
               m == Len(currentRows)
    <3>1. /\ n \in Nat /\ m \in Nat /\ rowIndex \in Nat /\ cursor \in Nat /\ cursor <= Rows
          /\ Read \in Int /\ Read < cursor /\ Rows \in Nat
          /\ DOMAIN delivered = 1..n
          /\ \A i \in 1..n : delivered[i] \in Nat
      BY <1>2, <2>6, RowNumbers
    <3>2. Read = cursor - m + rowIndex
      BY DEF Read
    <3>3. rowIndex + 1 \in 1..m
      BY <2>6, <3>1
    <3>4. x = cursor - m + (rowIndex + 1)
      BY <3>3 DEF RowsInv, Batch
    <3>5. Read' = cursor - m + (rowIndex + 1)
      BY <1>1, <2>6 DEF Read
    <3>6. /\ Len(delivered') = n + 1 /\ DOMAIN delivered' = 1..(n + 1)
          /\ \A i \in 1..n : delivered'[i] = delivered[i]
          /\ delivered'[n + 1] = x
      <4>1. delivered \in Seq(Nat) /\ currentRows \in Seq(Nat)
        BY <1>2 DEF SetTypes
      <4>2. x \in Nat
        BY <3>3, <4>1, ElementOfSeq
      <4> QED
        BY <2>6, <4>1, <4>2, AppendProperties, LenProperties
    <3> HIDE DEF x, n, m
    <3>7. x = Read + 1 /\ Read' = Read + 1
      BY <3>1, <3>2, <3>4, <3>5
    <3>r. PICK k \in Int : k = Read
      BY <3>1
    <3>8. \A i \in 1..n : delivered[i] \in Nat /\ delivered[i] <= k
      BY <3>1, <3>r DEF RowsInv, Batch, n
    <3>9. \A i \in 1..(n + 1) : i \in 1..n \/ i = n + 1
      BY <3>1
    <3>10. Ascending'
      <4> SUFFICES ASSUME NEW i \in 1..(n + 1), NEW j \in 1..(n + 1), i < j
                   PROVE  delivered'[i] < delivered'[j]
        BY <3>6 DEF Ascending
      <4>1. i \in 1..n
        BY <3>1
      <4>2. CASE j \in 1..n
        BY <3>1, <3>6, <4>1, <4>2 DEF RowsInv, Ascending
      <4>3. CASE j = n + 1
        <5>1. delivered'[j] = k + 1 /\ delivered'[i] = delivered[i]
          BY <3>6, <3>7, <3>r, <4>1, <4>3
        <5>2. PICK y : y = delivered[i]
          OBVIOUS
        <5>3. y \in Nat /\ y <= k
          BY <3>8, <4>1, <5>2
        <5>4. y < k + 1
          BY <5>3
        <5> QED
          BY <5>1, <5>2, <5>4
      <4> QED
        BY <3>9, <4>2, <4>3
    <3>11. Batch'
      <4>1. \A i \in 1..(n + 1) : delivered'[i] <= Read'
        <5>1. ASSUME NEW i \in 1..n PROVE delivered'[i] <= k + 1
          <6>1. PICK y : y = delivered[i]
            OBVIOUS
          <6>2. y \in Nat /\ y <= k
            BY <3>8, <6>1
          <6>3. y <= k + 1
            BY <6>2
          <6> QED
            BY <3>6, <6>1, <6>3
        <5>2. delivered'[n + 1] <= k + 1
          BY <3>6, <3>7, <3>r
        <5> QED
          BY <3>7, <3>9, <3>r, <5>1, <5>2
      <4>2. Read' >= 0
        <5>1. k >= 0
          BY <3>r DEF RowsInv, Batch
        <5> QED
          BY <3>7, <3>r, <5>1
      <4>3. query' = "open"
        BY <1>1, <1>2, OpenWhen DEF BackInv
      <4> QED
        BY <1>1, <3>6, <4>1, <4>2, <4>3 DEF RowsInv, Batch
    <3>12. ASSUME ~ overlapped
           PROVE  /\ n = k /\ (\A i \in 1..n : delivered[i] = i)
                  /\ \A q \in Readers : at[q] # "fetching"
      <4>1. rowIndex # Len(currentRows)
        BY <1>2, <2>6, RowNumbers
      <4> QED
        BY <3>12, <3>r, <4>1 DEF RowsInv, NoneMissed, Fetching, n
    <3>13. NoneMissed'
      <4>1. ASSUME ~ overlapped
            PROVE  n + 1 = Read' /\ \A i \in 1..(n + 1) : delivered'[i] = i
        BY <3>6, <3>7, <3>9, <3>12, <3>r, <4>1
      <4>2. \A q \in Readers : at'[q] # "fetching" \/ overlapped
        BY <2>3, <3>12
      <4> QED
        BY <1>1, <3>6, <4>1, <4>2 DEF NoneMissed, Fetching
    <3>14. Told'
      <4>1. ASSUME ~ overlapped PROVE n # Rows
        <5>1. k < cursor /\ n = k
          BY <3>1, <3>r, <3>12, <4>1
        <5> QED
          BY <3>1, <5>1
      <4>2. \A q \in Readers : ~ overlapped /\ ~ gap => at'[q] \notin {"ending", "complete"}
        BY <2>3, <4>1 DEF RowsInv, Told, n
      <4> QED
        BY <1>1, <2>4, <4>2 DEF Told
    <3> QED
      BY <3>10, <3>11, <3>13, <3>14 DEF RowsInv
  <2> QED
    BY <2>1, <2>5, <2>6
<1> QED
  BY <1>3, <1>4

\* The query: nothing has been read before its answer (BaseSessionPool.ts:365-398).
LEMMA RowsAsk ==
    ASSUME BackInv, BackInv', RowsInv, Ask \/ Answer
    PROVE  RowsInv'
<1>1. /\ query # "open" /\ UNCHANGED <<at, delivered, readBy, overlapped>>
      /\ SetTypes /\ SetTypes' /\ \A c \in Callers : at[c] = "idle"
  BY DEF Ask, Answer, BackInv, Before
<1>2. cursor = 0 /\ currentRows = <<>> /\ delivered = <<>>
  BY <1>1 DEF RowsInv, Batch
<1>3. Len(<<>>) = 0 /\ DOMAIN <<>> = 1..0 /\ 1..0 = {} /\ delivered' = <<>>
  BY <1>1, <1>2, EmptySeq, LenProperties
<1>4. \A r \in Readers : at'[r] = "idle"
  BY <1>1 DEF Callers
<1>5. Ascending'
  BY <1>1 DEF RowsInv, Ascending
<1>6. CASE UNCHANGED <<cursor, currentRows, rowIndex, gap>> /\ query' # "open"
  <2>1. Read' = Read
    BY <1>6 DEF Read
  <2>2. Batch'
    BY <1>1, <1>2, <1>6, <2>1 DEF RowsInv, Batch
  <2>3. NoneMissed' /\ Told'
    BY <1>1, <1>4, <2>1 DEF RowsInv, NoneMissed, Told, Fetching
  <2> QED
    BY <1>5, <2>2, <2>3 DEF RowsInv
<1>7. ASSUME NEW n, NEW more, Sent(n, more), query' = "open" PROVE RowsInv'
  <2>1. /\ n \in Nat /\ cursor' = 0 + n /\ Len(currentRows') = n /\ rowIndex' = 0
        /\ \A i \in 1..n : currentRows'[i] = 0 + i
        /\ ~ hasMoreData' => cursor' = Rows
    BY <1>1, <1>2, <1>7, SentBatch DEF SetTypes
  <2>2. Read' = 0
    <3>1. Read' = (0 + n) - n + 0
      BY <2>1 DEF Read
    <3> QED
      BY <2>1, <3>1
  <2>3. Batch'
    <3>1. \A i \in 1..n : currentRows'[i] = cursor' - n + i
      BY <2>1
    <3> QED
      BY <1>3, <1>7, <2>1, <2>2, <3>1 DEF Batch
  <2>4. NoneMissed' /\ Told'
    BY <1>3, <1>4, <2>2 DEF NoneMissed, Told, Fetching
  <2> QED
    BY <1>5, <2>3, <2>4 DEF RowsInv
<1> QED
  BY <1>6, <1>7 DEF Ask, Answer

\* The end: all rows have been sent, and read (SessionDataSet.ts:145-150).
LEMMA RowsFinished ==
    ASSUME BackInv, RowsInv, NEW r \in Readers, Finished(r)
    PROVE  RowsInv'
<1>1. /\ query = "open" /\ ~ (rowIndex < Len(currentRows)) /\ ~ hasMoreData
      /\ UNCHANGED <<query, currentRows, rowIndex, hasMoreData, readBy, cursor, delivered,
                     overlapped, gap>>
  <2>1. SetTypes
    BY DEF BackInv
  <2> QED
    BY <2>1, RowNumbers DEF Finished, Exhausted
<1>2. r \in Callers /\ SetTypes
  BY DEF Callers, BackInv
<1>3. PICK p \in {"ending", "complete"} : at' = [at EXCEPT ![r] = p]
  BY AfterClose DEF Finished, CloseAsks, CloseAtOnce
<1>4. ~ overlapped => Len(delivered) = Rows
  <2>1. cursor = Rows
    BY <1>1 DEF RowsInv, Batch
  <2>2. rowIndex = Len(currentRows)
    BY <1>1, <1>2, RowNumbers
  <2>3. Read = cursor
    BY <1>2, <2>2, RowNumbers
  <2> QED
    BY <2>1, <2>3 DEF RowsInv, NoneMissed
<1> QED
  BY <1>1, <1>2, <1>3, <1>4, RowsMove

\* A fetch starts when the rows are used up (SessionDataSet.ts:152-158).
LEMMA RowsFetch ==
    ASSUME BackInv, RowsInv, NEW r \in Readers, FetchNextBatch(r)
    PROVE  RowsInv'
<1>1. /\ ~ (rowIndex < Len(currentRows))
      /\ UNCHANGED <<query, currentRows, rowIndex, hasMoreData, readBy, cursor, delivered, gap>>
  <2>1. SetTypes
    BY DEF BackInv
  <2> QED
    BY <2>1, RowNumbers DEF FetchNextBatch, Exhausted
<1>2. r \in Callers /\ SetTypes
  BY DEF Callers, BackInv
<1>3. CASE at' = [at EXCEPT ![r] = "threw"] /\ overlapped' = overlapped
  BY <1>1, <1>2, <1>3, RowsMove
<1>4. CASE /\ at' = [at EXCEPT ![r] = "fetching"]
           /\ overlapped' = (overlapped \/ \E q \in Readers : at[q] = "fetching")
  <2>1. \A q \in Readers : at'[q] = IF q = r THEN "fetching" ELSE at[q]
    BY <1>2, <1>4 DEF SetTypes, Callers
  <2>2. Ascending' /\ Batch' /\ Read' = Read
    BY <1>1 DEF RowsInv, Ascending, Batch, Read
  <2>3. rowIndex = Len(currentRows)
    BY <1>1, <1>2, RowNumbers
  <2>4. NoneMissed'
    BY <1>1, <1>4, <2>1, <2>2, <2>3 DEF RowsInv, NoneMissed, Fetching
  <2>5. Told'
    <3>1. ~ overlapped' => ~ overlapped
      BY <1>4
    <3>2. \A q \in Readers :
              at'[q] \in {"truncated", "ending", "complete"} => at'[q] = at[q]
      BY <2>1
    <3>3. Told
      BY DEF RowsInv
    <3> QED
      BY <1>1, <3>1, <3>2, <3>3 DEF Told
  <2> QED
    BY <2>2, <2>4, <2>5 DEF RowsInv
<1> QED
  BY <1>3, <1>4, AfterClose DEF FetchNextBatch, CloseAtOnce

\* The other turns move no row.
LEMMA RowsOthers ==
    ASSUME BackInv, RowsInv
    PROVE  /\ \A c \in Callers : Close(c) \/ Closed(c) => RowsInv'
           /\ \A r \in Readers : Look(r) \/ FetchFails(r) => RowsInv'
<1>t. RpcInv /\ SetTypes /\ InFlight
  BY DEF BackInv
<1>1. ASSUME NEW c \in Callers, Close(c) PROVE RowsInv'
  <2>1. UNCHANGED <<query, currentRows, rowIndex, hasMoreData, readBy, cursor, delivered,
                    overlapped, gap>>
    BY <1>1 DEF Close
  <2>2. PICK p \in {"idle", "closing"} : at' = [at EXCEPT ![c] = p]
    BY <1>1, AfterClose DEF Close, CloseNothing, CloseAsks, CloseAtOnce
  <2> QED
    BY <1>t, <2>1, <2>2, RowsMove
<1>2. ASSUME NEW c \in Callers, Closed(c) PROVE RowsInv'
  <2>1. /\ UNCHANGED <<query, currentRows, rowIndex, hasMoreData, readBy, cursor, delivered,
                       overlapped, gap>>
        /\ at' = [at EXCEPT ![c] = After[at[c]]] /\ Recv(<<c, "close">>)
    BY <1>2 DEF Closed
  <2>2. PICK h \in reqs : h.call = <<c, "close">>
    BY <1>t, <2>1, RecvStep
  <2>3. at[c] \in DOMAIN After
    BY <1>t, <2>2, OneSent DEF Closing
  <2>4. PICK p : p = After[at[c]]
    OBVIOUS
  <2>5. /\ p \in {"idle", "complete", "threw"} /\ at' = [at EXCEPT ![c] = p]
        /\ p = "complete" => at[c] = "ending"
    BY <2>1, <2>3, <2>4, AfterClose
  <2>6. c \in Readers /\ p \in {"ending", "complete"} /\ ~ overlapped /\ ~ gap =>
            Len(delivered) = Rows
    BY <2>5 DEF RowsInv, Told
  <2>7. p # "fetching" /\ p # "truncated"
    BY <2>5
  <2> QED
    BY <1>t, <2>1, <2>5, <2>6, <2>7, RowsMove
<1>3. ASSUME NEW r \in Readers, Look(r) PROVE RowsInv'
  <2>1. UNCHANGED <<query, currentRows, rowIndex, hasMoreData, readBy, cursor, delivered,
                    overlapped, gap>>
    BY <1>3 DEF Look
  <2>2. PICK p \in {"ended", "truncated", "ready"} :
            at' = [at EXCEPT ![r] = p] /\ (p = "truncated" => rowIndex < Len(currentRows))
    BY <1>3, HasOnePlace DEF Look
  <2>3. r \in Callers
    BY DEF Callers
  <2> QED
    BY <1>t, <2>1, <2>2, <2>3, RowsMove
<1>4. ASSUME NEW r \in Readers, FetchFails(r) PROVE RowsInv'
  <2>1. UNCHANGED <<query, currentRows, rowIndex, hasMoreData, readBy, cursor, delivered,
                    overlapped, gap>>
    BY <1>4 DEF FetchFails
  <2>2. PICK p \in {"failing", "threw"} : at' = [at EXCEPT ![r] = p]
    BY <1>4 DEF FetchFails
  <2>3. r \in Callers
    BY DEF Callers
  <2> QED
    BY <1>t, <2>1, <2>2, <2>3, RowsMove
<1> QED
  BY <1>1, <1>2, <1>3, <1>4

LEMMA RowsStill == ASSUME RowsInv, UNCHANGED setVars PROVE RowsInv'
<1>1. UNCHANGED <<query, currentRows, rowIndex, hasMoreData, at, readBy, cursor, delivered,
                  overlapped, gap>>
  BY DEF setVars
<1>2. Ascending' /\ Batch' /\ Read' = Read
  BY <1>1 DEF RowsInv, Ascending, Batch, Read
<1>3. NoneMissed' /\ Told'
  BY <1>1, <1>2 DEF RowsInv, NoneMissed, Told, Fetching
<1> QED
  BY <1>2, <1>3 DEF RowsInv

LEMMA RowsNext == ASSUME BackInv, BackInv', RowsInv, [DataSetNext]_dataSetVars PROVE RowsInv'
<1>1. CASE Lost \/ UNCHANGED dataSetVars
  BY <1>1, RowsStill DEF Lost, dataSetVars
<1> QED
  BY <1>1, RowsAsk, RowsFinished, RowsFetch, RowsFetched, RowsTake, RowsOthers DEF DataSetNext

\* The readers get the rows in order and none twice; unless two of them fetch at
\* once none is left out, and whoever is told of the end has had them all
\* (SessionDataSet.ts:138-200, 356-395).
THEOREM RowsReadInOrder == DataSetSpec => []RowsInOrder
<1>1. DataSetSpec => []BackInv
  BY BackAlways
<1>2. BackInv /\ BackInv' /\ RowsInv /\ [DataSetNext]_dataSetVars => RowsInv'
  BY RowsNext
<1>3. BackInv /\ RowsInv => RowsInOrder
  <2> SUFFICES ASSUME BackInv, RowsInv PROVE RowsInOrder
    OBVIOUS
  <2>1. ASSUME ~ overlapped PROVE delivered = [i \in DOMAIN delivered |-> i]
    <3>1. delivered \in Seq(Nat)
      BY DEF BackInv, SetTypes
    <3>2. /\ DOMAIN delivered = 1..Len(delivered)
          /\ delivered = [i \in DOMAIN delivered |-> delivered[i]]
      BY <3>1, LenProperties
    <3>3. \A i \in DOMAIN delivered : delivered[i] = i
      BY <2>1, <3>2 DEF RowsInv, NoneMissed
    <3> QED
      BY <3>2, <3>3
  <2> QED
    BY <2>1 DEF RowsInv, Told, RowsInOrder
<1> QED
  BY <1>1, <1>2, <1>3, RowsInit, PTL DEF DataSetSpec
=============================================================================

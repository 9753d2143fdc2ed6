------------------------------ MODULE TableProofs ------------------------------
(***************************************************************************)
(* Proofs about TablePool, for any clients, sessions, sizes and databases: *)
(* its types, that the sessions of the pool follow its database, and that  *)
(* it is a session pool, which all theorems about SessionPool carry over   *)
(* to.                                                                     *)
(***************************************************************************)
EXTENDS TablePool, AllocatorProofs

-----------------------------------------------------------------------------
(* The statements on their way over one connection *)

\* The last statement of a sync is for database d, or there is none of a sync.
LastSync(q, d) ==
    \E i \in 1..Len(q) : q[i].sync /\ q[i].to = d /\ \A j \in 1..Len(q) : i < j => ~ q[j].sync
NoSync(q) == \A i \in 1..Len(q) : ~ q[i].sync

\* q has the statement of client c that changes to database d, and one of each
\* client at most.
HasOwn(q, c, d) == \E i \in 1..Len(q) : ~ q[i].sync /\ q[i].by = c /\ q[i].to = d
Single(q) ==
    \A i, j \in 1..Len(q) : ~ q[i].sync /\ ~ q[j].sync /\ q[i].by = q[j].by => i = j

\* A statement joins a queue: one of a client that has none there, or one of a sync.
LEMMA StatementSent ==
    ASSUME NEW q \in Seq(Statements), NEW m \in Statements
    PROVE  /\ Append(q, m) \in Seq(Statements)
           /\ m.sync => /\ Single(q) => Single(Append(q, m))
                        /\ \A c, d : HasOwn(Append(q, m), c, d) => HasOwn(q, c, d)
                        /\ LastSync(Append(q, m), m.to)
           /\ ~ m.sync => /\ Single(q) /\ (\A d : ~ HasOwn(q, m.by, d)) => Single(Append(q, m))
                          /\ \A c, d : HasOwn(Append(q, m), c, d) =>
                                HasOwn(q, c, d) \/ (c = m.by /\ d = m.to)
                          /\ \A d : LastSync(q, d) => LastSync(Append(q, m), d)
                          /\ NoSync(q) => NoSync(Append(q, m))
<1> DEFINE r == Append(q, m)
<1>1. /\ r \in Seq(Statements) /\ Len(r) = Len(q) + 1 /\ Len(q) \in Nat
      /\ \A i \in 1..Len(q) : r[i] = q[i]
      /\ r[Len(q) + 1] = m
  BY AppendProperties, LenProperties
<1> HIDE DEF r
<1>2. \A i \in 1..Len(r) : i \in 1..Len(q) \/ i = Len(q) + 1
  BY <1>1
<1>3. /\ \A i \in 1..Len(q) : i \in 1..Len(r)
      /\ Len(q) + 1 \in 1..Len(r)
      /\ \A j \in 1..Len(r) : ~ (Len(q) + 1 < j)
  BY <1>1
<1>4. ASSUME NEW c, NEW d, HasOwn(r, c, d)
      PROVE  HasOwn(q, c, d) \/ (~ m.sync /\ c = m.by /\ d = m.to)
  BY <1>1, <1>2, <1>4 DEF HasOwn
<1>5. ASSUME Single(q), m.sync \/ \A d : ~ HasOwn(q, m.by, d)
      PROVE  Single(r)
  <2>1. \A i \in 1..Len(q) : ~ (~ m.sync /\ ~ q[i].sync /\ q[i].by = m.by)
    BY <1>5 DEF HasOwn
  <2> QED
    BY <1>1, <1>2, <1>5, <2>1 DEF Single
<1>6. ASSUME m.sync PROVE LastSync(r, m.to)
  BY <1>1, <1>3, <1>6 DEF LastSync
<1>7. ASSUME ~ m.sync, NEW d, LastSync(q, d) PROVE LastSync(r, d)
  <2>1. PICK i \in 1..Len(q) :
            q[i].sync /\ q[i].to = d /\ \A j \in 1..Len(q) : i < j => ~ q[j].sync
    BY <1>7 DEF LastSync
  <2>2. r[i].sync /\ r[i].to = d /\ \A j \in 1..Len(r) : i < j => ~ r[j].sync
    BY <1>1, <1>2, <1>7, <2>1
  <2> QED
    BY <1>3, <2>2 DEF LastSync
<1>8. ASSUME ~ m.sync, NoSync(q) PROVE NoSync(r)
  BY <1>1, <1>2, <1>8 DEF NoSync
<1> QED
  BY <1>1, <1>4, <1>5, <1>6, <1>7, <1>8 DEF r

\* The first statement of a queue has been answered.
LEMMA StatementAnswered ==
    ASSUME NEW q \in Seq(Statements), q # <<>>, Single(q)
    PROVE  /\ Head(q) \in Statements
           /\ Tail(q) \in Seq(Statements) /\ Single(Tail(q))
           /\ \A c, d : HasOwn(Tail(q), c, d) => HasOwn(q, c, d)
           /\ Len(q) = 1 => Tail(q) = <<>>
           /\ ~ Head(q).sync => /\ HasOwn(q, Head(q).by, Head(q).to)
                                /\ \A d : ~ HasOwn(Tail(q), Head(q).by, d)
                                /\ \A d : LastSync(q, d) => LastSync(Tail(q), d)
                                /\ NoSync(q) => NoSync(Tail(q))
           /\ Head(q).sync => /\ ~ NoSync(q)
                              /\ \A d : LastSync(q, d) => \/ LastSync(Tail(q), d)
                                                          \/ NoSync(Tail(q)) /\ Head(q).to = d
<1> DEFINE r == Tail(q)
           m == Head(q)
<1>1. /\ r \in Seq(Statements) /\ Len(r) = Len(q) - 1 /\ Len(q) \in Nat
      /\ \A i \in 1..Len(r) : r[i] = q[i + 1]
      /\ 1 \in 1..Len(q) /\ m = q[1] /\ m \in Statements
  BY HeadTailProperties, LenProperties, EmptySeq, ElementOfSeq
<1> HIDE DEF r, m
<1>2. Len(q) = 1 => r = <<>>
  BY <1>1, EmptySeq
<1>3. \A i \in 1..Len(r) : i + 1 \in 1..Len(q) /\ i + 1 # 1
  BY <1>1
<1>4. \A i \in 1..Len(q) : i # 1 => i - 1 \in 1..Len(r) /\ r[i - 1] = q[i]
  BY <1>1
<1>5. Single(r)
  BY <1>1, <1>3 DEF Single
<1>6. ASSUME NEW c, NEW d, HasOwn(r, c, d)
      PROVE  HasOwn(q, c, d) /\ ~ (~ m.sync /\ c = m.by)
  BY <1>1, <1>3, <1>6 DEF HasOwn, Single
<1>7. ~ m.sync => HasOwn(q, m.by, m.to)
  BY <1>1 DEF HasOwn
<1>8. ASSUME NEW d, LastSync(q, d) PROVE \/ LastSync(r, d)
                                         \/ m.sync /\ NoSync(r) /\ m.to = d
  <2>1. PICK i \in 1..Len(q) :
            q[i].sync /\ q[i].to = d /\ \A j \in 1..Len(q) : i < j => ~ q[j].sync
    BY <1>8 DEF LastSync
  <2>2. CASE i = 1
    <3>1. \A j \in 1..Len(r) : ~ r[j].sync
      BY <1>1, <1>3, <2>1, <2>2
    <3> QED
      BY <1>1, <2>1, <2>2, <3>1 DEF NoSync
  <2>3. CASE i # 1
    <3>1. i - 1 \in 1..Len(r) /\ r[i - 1].sync /\ r[i - 1].to = d
      BY <1>4, <2>1, <2>3
    <3>2. \A j \in 1..Len(r) : i - 1 < j => ~ r[j].sync
      BY <1>1, <1>3, <2>1
    <3> QED
      BY <3>1, <3>2 DEF LastSync
  <2> QED
    BY <2>2, <2>3
<1>9. NoSync(q) => NoSync(r) /\ ~ m.sync
  BY <1>1, <1>3 DEF NoSync
<1> QED
  BY <1>1, <1>2, <1>5, <1>6, <1>7, <1>8, <1>9 DEF r, m

-----------------------------------------------------------------------------
(* The turns of the pool in which statements are sent and answered *)

\* In this step client c gets session s.
Granted(c, s) == holds'[c] = s /\ holds[c] # s

\* What a step of the pool does to its callers when R are those that release.
Turn(R) ==
    /\ \A c, d \in Clients, s, t \in Sessions : Granted(c, s) /\ Granted(d, t) => c = d
    /\ \A c \in Clients, s \in Sessions :
        Granted(c, s) => pc[c] # "using" /\ pc'[c] = "using" /\ s \in pool'
    /\ \A c \in Clients \ R : pc[c] = "using" => pc'[c] = "using" /\ holds'[c] = holds[c]
    /\ \A s \in Sessions : conn'[s] = "none" => conn[s] = "none"
    /\ Undisturbed'

\* A step that moves no client to a session.
LEMMA NothingGranted ==
    ASSUME UpInv, Undisturbed, NEW R, holds' = holds, UNCHANGED cleaning,
           phase' \notin {"closing", "closed"},
           \A s \in Sessions : conn'[s] # "closed" /\ (conn'[s] = "none" => conn[s] = "none"),
           \A c \in Clients \ R : pc[c] = "using" => pc'[c] = "using"
    PROVE  Turn(R)
  BY DEF Turn, Granted, Undisturbed

\* The turns of createSession (BaseSessionPool.ts:129-134, 163-167, 261-266).
LEMMA CreationTurns ==
    ASSUME UpInv, Undisturbed, NEW c \in Clients,
           InitCreated \/ InitFails \/ CreateDone(c) \/ CreateFails(c)
    PROVE  Turn({})
<1>t. /\ pc \in [Clients -> PcState] /\ holds \in [Clients -> Sessions \cup {NoSession}]
      /\ conn \in [Sessions -> ConnState]
  BY DEF UpInv, TypeOK
<1>1. CASE InitCreated
  BY <1>1, <1>t, NothingGranted DEF InitCreated, Undisturbed
<1>2. CASE InitFails
  BY <1>2, <1>t, NothingGranted DEF InitFails, Undisturbed
<1>3. CASE CreateFails(c)
  BY <1>3, <1>t, NothingGranted DEF CreateFails, Undisturbed
<1>4. CASE CreateDone(c)
  <2>1. PICK s \in Sessions : /\ conn' = [conn EXCEPT ![s] = "open"]
                              /\ pool' = pool \cup {s}
                              /\ holds' = [holds EXCEPT ![c] = s]
    BY <1>4 DEF CreateDone
  <2>2. /\ pc[c] = "creating" /\ pc' = [pc EXCEPT ![c] = "using"]
        /\ UNCHANGED <<phase, cleaning>>
    BY <1>4 DEF CreateDone
  <2> QED
    BY <2>1, <2>2, <1>t DEF Turn, Granted, Undisturbed
<1> QED
  BY <1>1, <1>2, <1>3, <1>4

\* The turns in which getSession is called (BaseSessionPool.ts:228-298).
LEMMA CallTurns ==
    ASSUME UpInv, Undisturbed, NEW c \in Clients, Reuse(c) \/ CreateNew(c) \/ Enqueue(c)
    PROVE  Turn({}) /\ pool' = pool
<1>t. /\ pc \in [Clients -> PcState] /\ holds \in [Clients -> Sessions \cup {NoSession}]
      /\ idle \in Seq(Sessions) /\ TypeOK /\ SessionsUp
  BY DEF UpInv, TypeOK
<1>1. CASE Reuse(c)
  <2>1. /\ idle # <<>> /\ pc[c] = "out" /\ pc' = [pc EXCEPT ![c] = "using"]
        /\ holds' = [holds EXCEPT ![c] = Head(idle)]
        /\ UNCHANGED <<phase, cleaning, conn, pool>>
    BY <1>1 DEF Reuse, MayCall
  <2>2. Head(idle) \in pool
    <3>1. 1 \in 1..Len(idle) /\ Head(idle) = idle[1]
      BY <2>1, <1>t, LenProperties, EmptySeq, HeadTailProperties
    <3> QED
      BY <3>1, <1>t DEF SessionsUp
  <2> QED
    BY <2>1, <2>2, <1>t DEF Turn, Granted, Undisturbed
<1>2. CASE CreateNew(c)
  BY <1>2, <1>t, QuietHead, NothingGranted DEF CreateNew, MayCall, Undisturbed
<1>3. CASE Enqueue(c)
  BY <1>3, <1>t, QuietHead, NothingGranted DEF Enqueue, MayCall, Undisturbed
<1> QED
  BY <1>1, <1>2, <1>3

\* The turns of releaseSession (BaseSessionPool.ts:303-333).
LEMMA ReleaseTurns ==
    ASSUME UpInv, Undisturbed, NEW c \in Clients, Release(c)
    PROVE  Turn({c}) /\ pool' = pool /\ conn' = conn
<1>t. /\ pc \in [Clients -> PcState] /\ holds \in [Clients -> Sessions \cup {NoSession}]
      /\ waitQueue \in Seq(Clients \cup {Expired}) /\ WaitersWait
  BY DEF UpInv, TypeOK
<1>1. /\ UNCHANGED <<phase, cleaning, conn, pool>> /\ pc[c] = "using"
  BY DEF Release, ReleaseForeign, ReleaseToIdle, ReleaseToWaiter, poolVars
<1>2. ASSUME pc' = [pc EXCEPT ![c] = "out"], holds' = [holds EXCEPT ![c] = NoSession]
      PROVE  Turn({c})
  BY <1>1, <1>2, <1>t, MarkersAssumption DEF Turn, Granted, Undisturbed
<1>3. ASSUME ReleaseToWaiter(c), Head(waitQueue) # Expired PROVE Turn({c})
  <2> DEFINE d == Head(waitQueue)
  <2>1. d \in Clients /\ pc[d] = "waiting"
    <3>1. 1 \in DOMAIN waitQueue /\ d = waitQueue[1] /\ d \in Clients \cup {Expired}
      BY <1>3, <1>t, LenProperties, EmptySeq, HeadTailProperties
      DEF ReleaseToWaiter, NobodyWaits
    <3> QED
      BY <3>1, <1>3, <1>t DEF WaitersWait
  <2>2. /\ pc' = [pc EXCEPT ![c] = "out", ![d] = "using"]
        /\ holds' = [holds EXCEPT ![c] = NoSession, ![d] = holds[c]]
        /\ holds[c] \in pool
    BY <1>3 DEF ReleaseToWaiter
  <2> HIDE DEF d
  <2>3. \A e \in Clients, s \in Sessions : Granted(e, s) => e = d /\ s = holds[c]
    BY <2>1, <2>2, <1>t, MarkersAssumption DEF Granted
  <2>4. \A e \in Clients \ {c} : pc[e] = "using" => pc'[e] = "using" /\ holds'[e] = holds[e]
    BY <2>1, <2>2, <1>t
  <2> QED
    BY <1>1, <2>1, <2>2, <2>3, <2>4, <1>t DEF Turn, Undisturbed
<1> QED
  BY <1>1, <1>2, <1>3 DEF Release, ReleaseForeign, ReleaseToIdle, ReleaseToWaiter

\* The session of a creation that ends is a new one (BaseSessionPool.ts:155-166).
LEMMA CreationAdds ==
    ASSUME UpInv, NEW k \in Creations, CreatedBy(k)
    PROVE  /\ NewSession \in Sessions /\ Fresh(NewSession) /\ NewSession \notin pool
           /\ pool' = pool \cup {NewSession}
<1>1. PICK s \in Sessions : /\ Fresh(s) /\ conn' = [conn EXCEPT ![s] = "open"]
                            /\ pool' = pool \cup {s}
  BY DEF CreatedBy, CreateDone, InitCreated
<1>2. conn \in [Sessions -> ConnState] /\ SessionsUp
  BY DEF UpInv, TypeOK
<1>3. \A t \in Sessions : Fresh(t) /\ conn'[t] = "open" => t = s
  BY <1>1, <1>2 DEF Fresh
<1>4. NewSession = s
  BY <1>1, <1>2, <1>3 DEF NewSession
<1> QED
  BY <1>1, <1>2, <1>4 DEF SessionsUp, Fresh

-----------------------------------------------------------------------------
(* Who waits for a statement *)

SentTypes ==
    /\ sent \in [Sessions -> Seq(Statements)]
    /\ statement \in [Clients -> Databases \cup {NoDatabase}]
    /\ syncing \in [Clients -> Nat]

\* A client that has a statement of its own on its way holds that session, works on
\* that statement, has not begun its sync, and is not released by anybody else.
Owned ==
    \A s \in Sessions, c \in Clients : \A d : HasOwn(sent[s], c, d) =>
        /\ pc[c] = "using" /\ holds[c] = s
        /\ statement[c] = d /\ d # NoDatabase
        /\ syncing[c] = 0

\* A client with a sync going on has a session and a statement.
Busy == \A c \in Clients : syncing[c] > 0 => pc[c] = "using" /\ statement[c] # NoDatabase

\* Nothing has been sent over a connection that has not been opened.
Silent == \A s \in Sessions : Fresh(s) => sent[s] = <<>>

SentInv == SentTypes /\ Owned /\ Busy /\ Silent /\ \A s \in Sessions : Single(sent[s])

\* The statement of a client that is handed a session.
NewStatement(c) == [to |-> statement'[c], by |-> c, sync |-> FALSE]

\* The queues are those of q, and the statement of a client that got a session in
\* this step follows there.
SentAfter(q) ==
    /\ sent' = [s \in Sessions |-> sent'[s]]
    /\ \A s \in Sessions :
        \/ sent'[s] = q[s]
        \/ \E c \in Clients : /\ Granted(c, s) /\ statement'[c] # NoDatabase
                              /\ sent'[s] = Append(q[s], NewStatement(c))

\* That is what Sends does, as one client at most gets a session.
LEMMA SendsAfter ==
    ASSUME NEW R, Turn(R), NEW q, sent' = Sends(q)
    PROVE  SentAfter(q)
<1>1. ASSUME NEW s \in Sessions
      PROVE  \/ sent'[s] = q[s]
             \/ \E c \in Clients : /\ Granted(c, s) /\ statement'[c] # NoDatabase
                                   /\ sent'[s] = Append(q[s], NewStatement(c))
  <2>1. CASE \E c \in Clients : Granted(c, s) /\ statement'[c] # NoDatabase
    <3>1. PICK c \in Clients : Granted(c, s) /\ statement'[c] # NoDatabase
      BY <2>1
    <3> DEFINE d == CHOOSE d \in Clients : holds'[d] = s /\ holds[d] # s
    <3>2. d \in Clients /\ Granted(d, s)
      BY <3>1 DEF Granted
    <3>3. d = c
      BY <3>1, <3>2 DEF Turn
    <3>4. sent'[s] = Append(q[s], [to |-> statement'[d], by |-> d, sync |-> FALSE])
      BY <3>1 DEF Sends, Granted
    <3> HIDE DEF d
    <3> QED
      BY <3>1, <3>3, <3>4 DEF NewStatement
  <2>2. CASE ~ \E c \in Clients : Granted(c, s) /\ statement'[c] # NoDatabase
    BY <2>2 DEF Sends, Granted
  <2> QED
    BY <2>1, <2>2
<1>2. sent' = [s \in Sessions |-> sent'[s]]
  BY DEF Sends
<1> QED
  BY <1>1, <1>2 DEF SentAfter

\* What such a step does to one queue.
LEMMA QueueAfter ==
    ASSUME NEW q \in [Sessions -> Seq(Statements)], SentAfter(q), NEW s \in Sessions,
           statement' \in [Clients -> Databases \cup {NoDatabase}],
           Single(q[s]),
           \A c \in Clients : \A d : Granted(c, s) => ~ HasOwn(q[s], c, d)
    PROVE  /\ sent'[s] \in Seq(Statements) /\ Single(sent'[s])
           /\ \A d : LastSync(q[s], d) => LastSync(sent'[s], d)
           /\ NoSync(q[s]) => NoSync(sent'[s])
           /\ \A c \in Clients : \A d : HasOwn(sent'[s], c, d) =>
                \/ HasOwn(q[s], c, d)
                \/ Granted(c, s) /\ statement'[c] = d /\ d # NoDatabase
           /\ sent'[s] = q[s] \/ \E c \in Clients : Granted(c, s)
<1>1. CASE sent'[s] = q[s]
  BY <1>1
<1>2. CASE \E c \in Clients : /\ Granted(c, s) /\ statement'[c] # NoDatabase
                              /\ sent'[s] = Append(q[s], NewStatement(c))
  <2>1. PICK c \in Clients : /\ Granted(c, s) /\ statement'[c] # NoDatabase
                             /\ sent'[s] = Append(q[s], NewStatement(c))
    BY <1>2
  <2> DEFINE m == NewStatement(c)
  <2>2. m \in Statements /\ ~ m.sync /\ m.by = c /\ m.to = statement'[c]
    BY <2>1 DEF NewStatement, Statements
  <2>3. q[s] \in Seq(Statements) /\ sent'[s] = Append(q[s], m)
    BY <2>1
  <2>4. \A d : ~ HasOwn(q[s], m.by, d)
    BY <2>1, <2>2
  <2> HIDE DEF m
  <2>5. /\ sent'[s] \in Seq(Statements) /\ Single(sent'[s])
        /\ \A e, d : HasOwn(sent'[s], e, d) => HasOwn(q[s], e, d) \/ (e = m.by /\ d = m.to)
        /\ \A d : LastSync(q[s], d) => LastSync(sent'[s], d)
        /\ NoSync(q[s]) => NoSync(sent'[s])
    BY <2>2, <2>3, <2>4, StatementSent
  <2> QED
    BY <2>1, <2>2, <2>5
<1> QED
  BY <1>1, <1>2 DEF SentAfter

\* What is left of the queues in q belongs to clients that go on as before.
GoOn(R, q) ==
    /\ \A s \in Sessions : Single(q[s]) /\ (Fresh(s)' => q[s] = <<>>)
    /\ \A s \in Sessions, c \in Clients : \A d : HasOwn(q[s], c, d) =>
        /\ HasOwn(sent[s], c, d) /\ c \notin R
        /\ statement'[c] = statement[c] /\ syncing'[c] = 0

\* Clients that have no session have no sync either.
Idlers == \A c \in Clients : pc[c] # "using" => syncing'[c] = 0

\* The syncs of the queues q are still there.
SyncsStay(q) ==
    \A s \in Sessions :
        /\ \A d : LastSync(q[s], d) => LastSync(sent'[s], d)
        /\ NoSync(q[s]) => NoSync(sent'[s])

\* Such a step keeps the owners.
LEMMA SentNext ==
    ASSUME SentInv, UpInv', NEW R, Turn(R),
           NEW q \in [Sessions -> Seq(Statements)], SentAfter(q), GoOn(R, q), Idlers,
           statement' \in [Clients -> Databases \cup {NoDatabase}],
           syncing' \in [Clients -> Nat],
           Busy'
    PROVE  SentInv' /\ SyncsStay(q)
<1>1. ASSUME NEW s \in Sessions, NEW c \in Clients, NEW d, HasOwn(q[s], c, d)
      PROVE  /\ pc[c] = "using" /\ holds[c] = s /\ statement[c] = d /\ d # NoDatabase
             /\ pc'[c] = "using" /\ holds'[c] = s
  <2>1. HasOwn(sent[s], c, d) /\ c \in Clients \ R
    BY <1>1 DEF GoOn
  <2>2. pc[c] = "using" /\ holds[c] = s /\ statement[c] = d /\ d # NoDatabase
    BY <2>1 DEF SentInv, Owned
  <2> QED
    BY <2>1, <2>2 DEF Turn
<1>2. ASSUME NEW s \in Sessions
      PROVE  /\ sent'[s] \in Seq(Statements) /\ Single(sent'[s])
             /\ \A d : LastSync(q[s], d) => LastSync(sent'[s], d)
             /\ NoSync(q[s]) => NoSync(sent'[s])
             /\ \A c \in Clients : \A d : HasOwn(sent'[s], c, d) =>
                  \/ HasOwn(q[s], c, d)
                  \/ Granted(c, s) /\ statement'[c] = d /\ d # NoDatabase
             /\ sent'[s] = q[s] \/ \E c \in Clients : Granted(c, s)
  <2>1. \A c \in Clients : \A d : Granted(c, s) => ~ HasOwn(q[s], c, d)
    BY <1>1 DEF Turn
  <2> QED
    BY <2>1, QueueAfter DEF GoOn
<1>3. Owned'
  <2> SUFFICES ASSUME NEW s \in Sessions, NEW c \in Clients, NEW d, HasOwn(sent'[s], c, d)
               PROVE  /\ pc'[c] = "using" /\ holds'[c] = s
                      /\ statement'[c] = d /\ d # NoDatabase
                      /\ syncing'[c] = 0
    BY DEF Owned
  <2>1. CASE HasOwn(q[s], c, d)
    BY <2>1, <1>1 DEF GoOn
  <2>2. CASE Granted(c, s) /\ statement'[c] = d /\ d # NoDatabase
    BY <2>2 DEF Turn, Granted, Idlers
  <2> QED
    BY <1>2, <2>1, <2>2
<1>4. Silent'
  <2> SUFFICES ASSUME NEW s \in Sessions, Fresh(s)' PROVE sent'[s] = <<>>
    BY DEF Silent
  <2>1. s \notin pool'
    BY DEF UpInv, SessionsUp, Fresh
  <2>2. \A c \in Clients : ~ Granted(c, s)
    BY <2>1 DEF Turn
  <2> QED
    BY <1>2, <2>2 DEF GoOn
<1>5. sent' \in [Sessions -> Seq(Statements)]
  BY <1>2 DEF SentAfter
<1> QED
  BY <1>2, <1>3, <1>4, <1>5 DEF SentInv, SentTypes, SyncsStay

-----------------------------------------------------------------------------
(* The steps of the table pool, for the statements *)

\* The pool itself stays as it is: undisturbed.
LEMMA PoolKeeps ==
    ASSUME QuietInv, Undisturbed, NEW R, Turn(R), [Next]_vars
    PROVE  QuietInv' /\ Undisturbed' /\ UpInv'
<1>1. QuietInv'
  BY QuietNext
<1>2. Undisturbed'
  BY DEF Turn
<1> QED
  BY <1>1, <1>2 DEF QuietInv

\* The client of a statement on its way waits for that one.
LEMMA OwnerWaits ==
    ASSUME Owned, NEW s \in Sessions, NEW c \in Clients, NEW d, HasOwn(sent[s], c, d)
    PROVE  /\ pc[c] = "using" /\ holds[c] = s
           /\ statement[c] = d /\ d # NoDatabase
           /\ syncing[c] = 0
BY DEF Owned

\* Where no statement is answered, and no client with one is released.
LEMMA QueuesGrow ==
    ASSUME SentInv, UpInv', NEW R \in SUBSET Clients, Turn(R), SentAfter(sent),
           UNCHANGED syncing,
           statement' \in [Clients -> Databases \cup {NoDatabase}],
           \A c \in Clients : pc[c] = "using" => statement'[c] = statement[c],
           \A c \in R : statement[c] = NoDatabase
    PROVE  SentInv' /\ SyncsStay(sent)
<1>1. /\ sent \in [Sessions -> Seq(Statements)]
      /\ syncing' \in [Clients -> Nat]
  BY DEF SentInv, SentTypes
<1>2. Idlers
  BY DEF SentInv, SentTypes, Busy, Idlers
<1>3. Busy'
  <2> SUFFICES ASSUME NEW c \in Clients, syncing[c] > 0
               PROVE  pc'[c] = "using" /\ statement'[c] # NoDatabase
    BY DEF Busy
  <2>1. pc[c] = "using" /\ statement[c] # NoDatabase
    BY DEF SentInv, Busy
  <2> QED
    BY <2>1 DEF Turn
<1>4. ASSUME NEW s \in Sessions, NEW c \in Clients, NEW d, HasOwn(sent[s], c, d)
      PROVE  c \notin R /\ statement'[c] = statement[c] /\ syncing'[c] = 0
  <2>1. Owned
    BY DEF SentInv
  <2>2. pc[c] = "using" /\ statement[c] = d /\ d # NoDatabase /\ syncing[c] = 0
    BY <1>4, <2>1, OwnerWaits
  <2> QED
    BY <2>2
<1>5. \A s \in Sessions : Single(sent[s]) /\ (Fresh(s)' => sent[s] = <<>>)
  BY DEF SentInv, Silent, Turn, Fresh
<1>6. GoOn(R, sent)
  BY <1>4, <1>5 DEF GoOn
<1> QED
  BY <1>1, <1>2, <1>3, <1>6, SentNext

\* The queues when the first statement of session s has been answered.
Rest(s) == [sent EXCEPT ![s] = Tail(@)]

LEMMA RestKeeps ==
    ASSUME SentInv, NEW s \in Sessions, sent[s] # <<>>
    PROVE  /\ Head(sent[s]) \in Statements
           /\ Rest(s) \in [Sessions -> Seq(Statements)]
           /\ Rest(s)[s] = Tail(sent[s])
           /\ \A t \in Sessions : t # s => Rest(s)[t] = sent[t]
           /\ \A t \in Sessions : Single(Rest(s)[t]) /\ (Fresh(t) => Rest(s)[t] = <<>>)
           /\ \A t \in Sessions, c \in Clients : \A d : HasOwn(Rest(s)[t], c, d) =>
                /\ HasOwn(sent[t], c, d)
                /\ ~ Head(sent[s]).sync => c # Head(sent[s]).by
           /\ ~ Head(sent[s]).sync => HasOwn(sent[s], Head(sent[s]).by, Head(sent[s]).to)
<1> DEFINE q == sent[s]
           m == Head(q)
<1>1. /\ q \in Seq(Statements) /\ q # <<>> /\ Single(q)
      /\ sent \in [Sessions -> Seq(Statements)]
  BY DEF SentInv, SentTypes
<1>2. /\ m \in Statements
      /\ Tail(q) \in Seq(Statements) /\ Single(Tail(q))
      /\ \A c, d : HasOwn(Tail(q), c, d) => HasOwn(q, c, d)
      /\ ~ m.sync => HasOwn(q, m.by, m.to) /\ \A d : ~ HasOwn(Tail(q), m.by, d)
  <2> HIDE DEF q
  <2> QED
    BY <1>1, StatementAnswered
<1>3. /\ Rest(s) \in [Sessions -> Seq(Statements)]
      /\ Rest(s)[s] = Tail(q)
      /\ \A t \in Sessions : t # s => Rest(s)[t] = sent[t]
  BY <1>1, <1>2 DEF Rest
<1>4. \A t \in Sessions : Single(Rest(s)[t]) /\ (Fresh(t) => Rest(s)[t] = <<>>)
  BY <1>2, <1>3 DEF SentInv, Silent
<1>5. ASSUME NEW t \in Sessions, NEW c \in Clients, NEW d, HasOwn(Rest(s)[t], c, d)
      PROVE  HasOwn(sent[t], c, d) /\ (~ m.sync => c # m.by)
  <2>1. CASE t = s
    BY <2>1, <1>2, <1>3, <1>5
  <2>2. CASE t # s
    <3>1. HasOwn(sent[t], c, d) /\ holds[c] = t
      BY <2>2, <1>3, <1>5 DEF SentInv, Owned
    <3>2. m.by \in Clients
      BY <1>2 DEF Statements
    <3>3. ~ m.sync => holds[m.by] = s
      BY <1>2, <3>2 DEF SentInv, Owned
    <3> QED
      BY <2>2, <3>1, <3>3
  <2> QED
    BY <2>1, <2>2
<1> QED
  BY <1>2, <1>3, <1>4, <1>5

-----------------------------------------------------------------------------
(* The database the sessions are in, and the inductive invariant *)

\* A session that is in database e, with statements q on their way, is in d once
\* they have been executed.
Ends(q, e, d) == LastSync(q, d) \/ (NoSync(q) /\ e = d)

\* A session ends in the pool's database, or in the one it was left in.
Following(s) ==
    \/ Ends(sent[s], database[s], currentDatabase)
    \/ leftIn # NoDatabase /\ Ends(sent[s], database[s], leftIn)
Followed == currentDatabase # NoDatabase => \A s \in pool \ missed : Following(s)

\* Sessions are left behind in one database only, because it is the configured one
\* that currentDatabase is set back to.
LeftBehind ==
    /\ leftIn # NoDatabase => currentDatabase = configDatabase
    /\ \A k \in Creations : applying[k].fromConfig => applying[k].to = configDatabase
    /\ currentDatabase = NoDatabase => pool \subseteq missed

TableInv == QuietInv /\ Undisturbed /\ SentInv /\ TableTypeOK /\ Followed /\ LeftBehind

\* A pool that has just been constructed (TableSessionPool.ts:33-41).
LEMMA TableInitInv == TableInit => TableInv
<1> SUFFICES ASSUME TableInit PROVE TableInv
  OBVIOUS
<1> USE DEF TableInit
<1>1. QuietInv /\ Undisturbed
  BY UpInit DEF QuietInv, UpInv, Undisturbed, Init
<1>2. <<>> \in Seq(Statements) /\ Len(<<>>) = 0
  BY EmptySeq
<1>3. SentTypes
  BY <1>2 DEF SentTypes
<1>4. SentInv
  BY <1>2, <1>3 DEF SentInv, Owned, Busy, Silent, HasOwn, Single
<1>5. TableTypeOK
  BY <1>3 DEF TableTypeOK, SentTypes, CreationStates
<1>6. Followed
  BY DEF Followed
<1>7. LeftBehind
  BY DEF LeftBehind, Connecting, Init
<1> QED
  BY <1>1, <1>4, <1>5, <1>6, <1>7 DEF TableInv

\* A step of the callers or the server leaves behind what it finds so.
LEMMA BehindStays ==
    ASSUME TableInv, UNCHANGED <<configDatabase, currentDatabase, leftIn>>,
           \/ applying' = applying
           \/ \E k \in Creations : Ended(k),
           \A s \in pool' : s \in pool \/ s \in missed',
           missed \subseteq missed'
    PROVE  LeftBehind'
<1>1. \A k \in Creations :
        applying'[k].fromConfig => applying[k].fromConfig /\ applying'[k] = applying[k]
  BY DEF Ended, Connecting, Over, TableInv, TableTypeOK
<1>2. \A k \in Creations : applying'[k].fromConfig => applying'[k].to = configDatabase'
  BY <1>1 DEF TableInv, LeftBehind
<1> QED
  BY <1>2 DEF TableInv, LeftBehind

\* The pool is not concerned: a USE of a creation goes out, or nothing happens.
LEMMA StillInv ==
    ASSUME TableInv, UNCHANGED <<vars, configDatabase, currentDatabase, database, sent,
                                 statement, syncing, missed, leftIn>>,
           applying' \in [Creations -> CreationStates],
           \A k \in Creations : applying'[k].fromConfig => applying'[k].to = configDatabase
    PROVE  TableInv'
<1>1. UNCHANGED <<pool, pc, holds, conn, phase, cleaning>>
  BY DEF vars, poolVars
<1>2. QuietInv' /\ Undisturbed'
  BY <1>1, QuietNext DEF TableInv, Undisturbed
<1>3. SentInv'
  BY <1>1 DEF TableInv, SentInv, SentTypes, Owned, Busy, Silent, Fresh
<1>4. TableTypeOK' /\ Followed' /\ LeftBehind'
  BY <1>1 DEF TableInv, TableTypeOK, Followed, Following, Ends, LeftBehind
<1> QED
  BY <1>2, <1>3, <1>4 DEF TableInv

LEMMA ApplyContextKeeps ==
    ASSUME TableInv, UNCHANGED configDatabase, NEW k \in Creations, ApplyContext(k)
    PROVE  TableInv'
<1>1. ContextToApply \in Databases
  BY DEF ApplyContext, ContextToApply, TableInv, TableTypeOK
<1>2. PICK x \in BOOLEAN : x = (currentDatabase = NoDatabase)
  OBVIOUS
<1>3. /\ applying' \in [Creations -> CreationStates]
      /\ \A j \in Creations : applying'[j].fromConfig => applying'[j].to = configDatabase
  <2>1. applying' = [applying EXCEPT ![k] = Applying(ContextToApply, x)]
    BY <1>2 DEF ApplyContext
  <2>2. Applying(ContextToApply, x) \in CreationStates
    BY <1>1 DEF CreationStates
  <2>3. x => Applying(ContextToApply, x).to = configDatabase
    BY <1>2 DEF Applying, ContextToApply
  <2>4. Applying(ContextToApply, x).fromConfig = x
    BY DEF Applying
  <2> QED
    BY <2>1, <2>2, <2>3, <2>4 DEF TableInv, TableTypeOK, LeftBehind
<1> QED
  BY <1>3, StillInv DEF ApplyContext

\* A creation ends with a session.
LEMMA CreatedKeeps ==
    ASSUME TableInv, NEW k \in Creations, CreatedBy(k), Ended(k),
           UNCHANGED <<statement, syncing>>, sent' = Sends(sent)
    PROVE  /\ QuietInv' /\ Undisturbed' /\ SentInv' /\ SyncsStay(sent)
           /\ NewSession \in Sessions /\ NewSession \notin pool
           /\ pool' = pool \cup {NewSession}
           /\ NoSync(sent'[NewSession])
           /\ applying' \in [Creations -> CreationStates]
<1>1. UpInv
  BY DEF TableInv, QuietInv
<1>2. k \in Clients => CreateDone(k)
  BY DEF CreatedBy
<1>3. k \notin Clients => InitCreated
  BY DEF CreatedBy
<1>4. PICK c \in Clients : InitCreated \/ CreateDone(c)
  BY <1>2, <1>3, ClientsAssumption
<1>5. Turn({}) /\ [Next]_vars
  BY <1>1, <1>4, CreationTurns DEF Next, TableInv
<1>6. QuietInv' /\ Undisturbed' /\ UpInv'
  BY <1>5, PoolKeeps DEF TableInv
<1>7. SentAfter(sent)
  BY <1>5, SendsAfter
<1>8. SentInv' /\ SyncsStay(sent)
  <2>1. statement' \in [Clients -> Databases \cup {NoDatabase}]
    BY DEF TableInv, TableTypeOK
  <2> QED
    BY <1>5, <1>6, <1>7, <2>1, QueuesGrow DEF TableInv
<1>9. /\ NewSession \in Sessions /\ NewSession \notin pool /\ Fresh(NewSession)
      /\ pool' = pool \cup {NewSession}
  BY <1>1, CreationAdds
<1>10. NoSync(sent'[NewSession])
  <2>1. sent[NewSession] = <<>>
    BY <1>9 DEF TableInv, SentInv, Silent
  <2>2. Len(<<>>) = 0
    BY EmptySeq
  <2>3. NoSync(sent[NewSession])
    BY <2>1, <2>2 DEF NoSync
  <2> QED
    BY <1>8, <1>9, <2>3 DEF SyncsStay
<1>11. applying' \in [Creations -> CreationStates]
  BY DEF Ended, CreationStates, TableInv, TableTypeOK
<1> QED
  BY <1>6, <1>8, <1>9, <1>10, <1>11

\* A step in which no session joins those that follow, or changes its database.
LEMMA FollowedStays ==
    ASSUME TableInv, SyncsStay(sent), UNCHANGED <<currentDatabase, leftIn>>,
           \A s \in pool' \ missed' : s \in pool \ missed /\ database'[s] = database[s]
    PROVE  Followed'
<1>1. pool \subseteq Sessions
  BY DEF TableInv, QuietInv, TypeOK
<1>2. ASSUME currentDatabase # NoDatabase, NEW s \in pool' \ missed' PROVE Following(s)'
  <2>1. s \in Sessions /\ Following(s) /\ database'[s] = database[s]
    BY <1>1, <1>2 DEF TableInv, Followed
  <2> QED
    BY <2>1 DEF Following, Ends, SyncsStay
<1> QED
  BY <1>2 DEF Followed

LEMMA CreatedBareKeeps ==
    ASSUME TableInv, UNCHANGED configDatabase, NEW k \in Creations, CreatedBare(k)
    PROVE  TableInv'
<1>1. /\ CreatedBy(k) /\ Ended(k) /\ sent' = Sends(sent)
      /\ missed' = missed \cup {NewSession}
      /\ UNCHANGED <<statement, syncing, currentDatabase, database, leftIn>>
  BY DEF CreatedBare
<1>2. /\ QuietInv' /\ Undisturbed' /\ SentInv' /\ SyncsStay(sent)
      /\ NewSession \in Sessions /\ NewSession \notin pool
      /\ pool' = pool \cup {NewSession}
      /\ applying' \in [Creations -> CreationStates]
  BY <1>1, CreatedKeeps
<1>3. TableTypeOK'
  BY <1>1, <1>2 DEF TableInv, TableTypeOK, SentInv, SentTypes
<1>4. Followed' /\ LeftBehind'
  BY <1>1, <1>2, FollowedStays, BehindStays
<1> QED
  BY <1>2, <1>3, <1>4 DEF TableInv

\* The USE of a creation is answered (TableSessionPool.ts:63-93).
LEMMA CreatedInKeeps ==
    ASSUME TableInv, UNCHANGED configDatabase, NEW k \in Creations, CreatedIn(k)
    PROVE  TableInv'
<1> DEFINE d == applying[k].to
           s == NewSession
<1>1. CreatedBy(k) /\ Ended(k) /\ sent' = Sends(sent) /\ UNCHANGED <<statement, syncing>>
  BY DEF CreatedIn
<1>2. /\ QuietInv' /\ Undisturbed' /\ SentInv' /\ SyncsStay(sent)
      /\ s \in Sessions /\ s \notin pool
      /\ pool' = pool \cup {s}
      /\ NoSync(sent'[s])
      /\ applying' \in [Creations -> CreationStates]
  BY <1>1, CreatedKeeps
<1>3. d \in Databases
  <2>1. applying[k] \in CreationStates /\ applying[k].at = "use"
    BY DEF CreatedIn, TableInv, TableTypeOK
  <2> QED
    BY <2>1 DEF CreationStates, Connecting, Over, Applying
<1>t. /\ database \in [Sessions -> Databases \cup {NoDatabase}]
      /\ sent \in [Sessions -> Seq(Statements)]
      /\ missed \subseteq Sessions /\ pool \subseteq Sessions
  BY DEF TableInv, TableTypeOK, QuietInv, TypeOK
<1> HIDE DEF s, d
<1>e. \A t \in pool : database' = [database EXCEPT ![s] = d] => database'[t] = database[t]
  BY <1>2, <1>t
<1>f. ASSUME NEW t \in pool, NEW e \in Databases, Ends(sent[t], database[t], e),
             database'[t] = database[t]
      PROVE  Ends(sent'[t], database'[t], e)
  BY <1>f, <1>2, <1>t DEF Ends, SyncsStay
<1>g. \A k2 \in Creations : applying'[k2].fromConfig => applying'[k2].to = configDatabase'
  BY <1>1 DEF Ended, Connecting, Over, TableInv, TableTypeOK, LeftBehind
<1>4. ASSUME database' = [database EXCEPT ![s] = d], applying[k].fromConfig, SetBack(d),
             missed' = missed
      PROVE  TableTypeOK' /\ Followed' /\ LeftBehind'
  <2>1. d = configDatabase
    BY <1>4 DEF TableInv, LeftBehind, d
  <2>2. currentDatabase' = d /\ d # NoDatabase
    BY <1>3, <1>4, NoDatabaseAssumption DEF SetBack
  <2>3. CASE currentDatabase \in {NoDatabase, d}
    <3>1. leftIn' = leftIn
      BY <1>4, <2>3 DEF SetBack
    <3>2. ASSUME NEW t \in pool' \ missed' PROVE Following(t)'
      <4>1. CASE t = s
        BY <4>1, <1>2, <1>4, <1>t, <2>2 DEF Following, Ends
      <4>2. CASE t # s
        <5>1. t \in pool \ missed /\ currentDatabase # NoDatabase /\ database'[t] = database[t]
          BY <4>2, <3>2, <1>2, <1>4, <1>e DEF TableInv, LeftBehind
        <5>2. Following(t) /\ currentDatabase = d
          BY <5>1, <2>3 DEF TableInv, Followed
        <5>3. leftIn # NoDatabase => leftIn \in Databases
          BY DEF TableInv, TableTypeOK
        <5> QED
          BY <5>1, <5>2, <5>3, <3>1, <2>2, <1>3, <1>f DEF Following
      <4> QED
        BY <4>1, <4>2
    <3>3. TableTypeOK'
      BY <1>2, <1>3, <1>4, <1>t, <2>2, <3>1 DEF TableInv, TableTypeOK, SentInv, SentTypes
    <3> QED
      BY <1>g, <2>1, <2>2, <3>2, <3>3 DEF Followed, LeftBehind
  <2>4. CASE currentDatabase \notin {NoDatabase, d}
    <3>1. leftIn' = currentDatabase /\ leftIn = NoDatabase /\ leftIn' # NoDatabase
      BY <1>4, <2>1, <2>4 DEF SetBack, TableInv, LeftBehind
    <3>2. ASSUME NEW t \in pool' \ missed' PROVE Following(t)'
      <4>1. CASE t = s
        BY <4>1, <1>2, <1>4, <1>t, <2>2 DEF Following, Ends
      <4>2. CASE t # s
        <5>1. t \in pool \ missed /\ database'[t] = database[t]
          BY <4>2, <3>2, <1>2, <1>4, <1>e
        <5>2. Ends(sent[t], database[t], currentDatabase) /\ currentDatabase \in Databases
          BY <5>1, <2>4, <3>1 DEF TableInv, TableTypeOK, Followed, Following
        <5> QED
          BY <5>1, <5>2, <3>1, <1>f DEF Following
      <4> QED
        BY <4>1, <4>2
    <3>3. TableTypeOK'
      BY <1>2, <1>3, <1>4, <1>t, <2>2, <3>1 DEF TableInv, TableTypeOK, SentInv, SentTypes
    <3> QED
      BY <1>g, <2>1, <2>2, <3>2, <3>3 DEF Followed, LeftBehind
  <2> QED
    BY <2>3, <2>4
<1>5. ASSUME database' = [database EXCEPT ![s] = d], UNCHANGED <<currentDatabase, leftIn>>,
             missed' = missed \cup {x \in {s} : d # currentDatabase}
      PROVE  TableTypeOK' /\ Followed' /\ LeftBehind'
  <2>1. ASSUME currentDatabase # NoDatabase, NEW t \in pool' \ missed' PROVE Following(t)'
    <3>1. CASE t = s
      BY <3>1, <2>1, <1>2, <1>5, <1>t DEF Following, Ends
    <3>2. CASE t # s
      <4>1. t \in pool \ missed /\ database'[t] = database[t]
        BY <3>2, <2>1, <1>2, <1>5, <1>e
      <4>2. Following(t)
        BY <4>1, <2>1 DEF TableInv, Followed
      <4>3. /\ currentDatabase \in Databases
            /\ leftIn # NoDatabase => leftIn \in Databases
        BY <2>1 DEF TableInv, TableTypeOK
      <4> QED
        BY <4>1, <4>2, <4>3, <1>5, <1>f DEF Following
    <3> QED
      BY <3>1, <3>2
  <2>2. TableTypeOK'
    BY <1>2, <1>3, <1>5, <1>t DEF TableInv, TableTypeOK, SentInv, SentTypes
  <2>3. currentDatabase = NoDatabase => s \in missed'
    BY <1>3, <1>5, NoDatabaseAssumption
  <2>4. LeftBehind'
    BY <1>2, <1>5, <1>g, <2>3 DEF TableInv, LeftBehind
  <2> QED
    BY <2>1, <2>2, <2>4, <1>5 DEF Followed
<1>6. ASSUME missed' = missed \cup {s}, UNCHANGED <<database, currentDatabase, leftIn>>
      PROVE  TableTypeOK' /\ Followed' /\ LeftBehind'
  <2>1. TableTypeOK'
    BY <1>2, <1>6, <1>t DEF TableInv, TableTypeOK, SentInv, SentTypes
  <2>2. Followed' /\ LeftBehind'
    BY <1>1, <1>2, <1>6, FollowedStays, BehindStays
  <2> QED
    BY <2>1, <2>2
<1>7. TableTypeOK' /\ Followed' /\ LeftBehind'
  BY <1>4, <1>5, <1>6 DEF CreatedIn, s, d
<1> QED
  BY <1>2, <1>7 DEF TableInv

\* A creation fails (TableSessionPool.ts:96-98).
LEMMA NotCreatedKeeps ==
    ASSUME TableInv, UNCHANGED configDatabase, NEW k \in Creations, NotCreated(k)
    PROVE  TableInv'
<1>u. UpInv
  BY DEF TableInv, QuietInv
<1>1. /\ FailedFor(k) /\ Ended(k) /\ InCreation(k)
      /\ UNCHANGED <<currentDatabase, database, sent, syncing, missed, leftIn>>
      /\ statement' = IF k \in Clients THEN [statement EXCEPT ![k] = NoDatabase] ELSE statement
  BY DEF NotCreated
<1>2. /\ k \in Clients => CreateFails(k) /\ pc[k] = "creating"
      /\ k \notin Clients => InitFails
  BY <1>1 DEF FailedFor, InCreation
<1>3. PICK c \in Clients : InitFails \/ CreateFails(c)
  BY <1>2, ClientsAssumption
<1>4. Turn({}) /\ [Next]_vars
  BY <1>u, <1>3, CreationTurns DEF Next, TableInv
<1>5. QuietInv' /\ Undisturbed' /\ UpInv'
  BY <1>4, PoolKeeps DEF TableInv
<1>6. pool' = pool
  BY <1>3 DEF InitFails, CreateFails, poolVars
<1>7. statement \in [Clients -> Databases \cup {NoDatabase}]
  BY DEF TableInv, TableTypeOK
<1>8. /\ statement' \in [Clients -> Databases \cup {NoDatabase}]
      /\ \A e \in Clients : pc[e] = "using" => statement'[e] = statement[e]
  BY <1>1, <1>2, <1>7
<1>9. SentAfter(sent)
  BY <1>1 DEF SentAfter, TableInv, TableTypeOK
<1>10. SentInv' /\ SyncsStay(sent)
  BY <1>1, <1>4, <1>5, <1>8, <1>9, QueuesGrow DEF TableInv
<1>11. TableTypeOK'
  BY <1>1, <1>8 DEF Ended, CreationStates, TableInv, TableTypeOK
<1>12. Followed' /\ LeftBehind'
  BY <1>1, <1>6, <1>10, FollowedStays, BehindStays
<1> QED
  BY <1>5, <1>10, <1>11, <1>12 DEF TableInv

\* getSession is called, for a USE or for something else.
LEMMA BeginKeeps ==
    ASSUME TableInv, UNCHANGED configDatabase, NEW c \in Clients, Begin(c)
    PROVE  TableInv'
<1>u. UpInv
  BY DEF TableInv, QuietInv
<1>1. PICK d \in Databases \cup {NoDatabase} : statement' = [statement EXCEPT ![c] = d]
  BY DEF Begin
<1>2. /\ Reuse(c) \/ CreateNew(c) \/ Enqueue(c)
      /\ sent' = Sends(sent)
      /\ UNCHANGED <<currentDatabase, database, applying, syncing, missed, leftIn>>
  BY DEF Begin
<1>3. Turn({}) /\ pool' = pool /\ [Next]_vars
  BY <1>u, <1>2, CallTurns DEF Next, TableInv
<1>4. QuietInv' /\ Undisturbed' /\ UpInv'
  BY <1>3, PoolKeeps DEF TableInv
<1>5. pc[c] = "out"
  BY <1>2 DEF Reuse, CreateNew, Enqueue, MayCall
<1>6. /\ statement' \in [Clients -> Databases \cup {NoDatabase}]
      /\ \A e \in Clients : pc[e] = "using" => statement'[e] = statement[e]
  BY <1>1, <1>5 DEF TableInv, TableTypeOK
<1>7. SentAfter(sent)
  BY <1>2, <1>3, SendsAfter
<1>8. SentInv' /\ SyncsStay(sent)
  BY <1>2, <1>3, <1>4, <1>6, <1>7, QueuesGrow DEF TableInv
<1>9. TableTypeOK'
  BY <1>2, <1>8 DEF TableInv, TableTypeOK, SentInv, SentTypes
<1>10. Followed' /\ LeftBehind'
  BY <1>2, <1>3, <1>8, FollowedStays, BehindStays
<1> QED
  BY <1>4, <1>8, <1>9, <1>10 DEF TableInv

\* A session is released that was used for something else.
LEMMA OtherEndsKeeps ==
    ASSUME TableInv, UNCHANGED configDatabase, NEW c \in Clients, OtherEnds(c)
    PROVE  TableInv'
<1>u. UpInv
  BY DEF TableInv, QuietInv
<1>1. /\ statement[c] = NoDatabase /\ Release(c) /\ sent' = Sends(sent)
      /\ UNCHANGED <<currentDatabase, database, applying, statement, syncing, missed, leftIn>>
  BY DEF OtherEnds
<1>2. Turn({c}) /\ pool' = pool /\ [Next]_vars
  BY <1>u, <1>1, ReleaseTurns DEF Next, Release, TableInv
<1>3. QuietInv' /\ Undisturbed' /\ UpInv'
  BY <1>2, PoolKeeps DEF TableInv
<1>4. SentAfter(sent)
  BY <1>1, <1>2, SendsAfter
<1>5. statement' \in [Clients -> Databases \cup {NoDatabase}]
  BY <1>1 DEF TableInv, TableTypeOK
<1>6. SentInv' /\ SyncsStay(sent)
  BY <1>1, <1>2, <1>3, <1>4, <1>5, QueuesGrow DEF TableInv
<1>7. TableTypeOK'
  BY <1>1, <1>6 DEF TableInv, TableTypeOK, SentInv, SentTypes
<1>8. Followed' /\ LeftBehind'
  BY <1>1, <1>2, <1>6, FollowedStays, BehindStays
<1> QED
  BY <1>3, <1>6, <1>7, <1>8 DEF TableInv

-----------------------------------------------------------------------------
(* The answers (TableSessionPool.ts:108-128, 139-150) *)

\* The client of a statement ends with the answer to it.
LEMMA FinishKeeps ==
    ASSUME TableInv, NEW s \in Sessions, sent[s] # <<>>, NEW c \in Clients,
           Finish(c), sent' = Sends(Rest(s)),
           syncing' = [syncing EXCEPT ![c] = 0],
           \A t \in Sessions : \A d : ~ HasOwn(Rest(s)[t], c, d)
    PROVE  QuietInv' /\ Undisturbed' /\ SentInv' /\ SyncsStay(Rest(s)) /\ pool' = pool
<1>1. UpInv /\ SentInv
  BY DEF TableInv, QuietInv
<1>2. Release(c) /\ statement' = [statement EXCEPT ![c] = NoDatabase]
  BY DEF Finish
<1>3. Turn({c}) /\ pool' = pool /\ conn' = conn /\ [Next]_vars
  BY <1>1, <1>2, ReleaseTurns DEF Next, Release, TableInv
<1>4. QuietInv' /\ Undisturbed' /\ UpInv'
  BY <1>3, PoolKeeps DEF TableInv
<1>5. SentAfter(Rest(s))
  BY <1>3, SendsAfter
<1>6. /\ Rest(s) \in [Sessions -> Seq(Statements)]
      /\ \A t \in Sessions : Single(Rest(s)[t]) /\ (Fresh(t) => Rest(s)[t] = <<>>)
      /\ \A t \in Sessions, e \in Clients : \A d :
            HasOwn(Rest(s)[t], e, d) => HasOwn(sent[t], e, d)
  BY <1>1, RestKeeps
<1>7. /\ statement' \in [Clients -> Databases \cup {NoDatabase}]
      /\ syncing' \in [Clients -> Nat] /\ syncing'[c] = 0
      /\ \A e \in Clients \ {c} : statement'[e] = statement[e] /\ syncing'[e] = syncing[e]
  BY <1>1, <1>2 DEF SentInv, SentTypes
<1>8. GoOn({c}, Rest(s))
  <2> SUFFICES ASSUME NEW t \in Sessions, NEW e \in Clients, NEW d,
                      HasOwn(Rest(s)[t], e, d)
               PROVE  /\ HasOwn(sent[t], e, d) /\ e \notin {c}
                      /\ statement'[e] = statement[e] /\ syncing'[e] = 0
    BY <1>3, <1>6 DEF GoOn, Fresh
  <2>1. HasOwn(sent[t], e, d) /\ e \in Clients \ {c}
    BY <1>6
  <2>2. syncing[e] = 0
    BY <1>1, <2>1 DEF SentInv, Owned
  <2> QED
    BY <1>7, <2>1, <2>2
<1>9. Idlers
  BY <1>1, <1>7 DEF SentInv, SentTypes, Busy, Idlers
<1>10. Busy'
  <2> SUFFICES ASSUME NEW e \in Clients, syncing'[e] > 0
               PROVE  pc'[e] = "using" /\ statement'[e] # NoDatabase
    BY DEF Busy
  <2>1. e # c /\ syncing[e] > 0 /\ statement'[e] = statement[e]
    BY <1>7
  <2> QED
    BY <1>1, <1>3, <2>1 DEF SentInv, Busy, Turn
<1> QED
  BY <1>1, <1>3, <1>4, <1>5, <1>6, <1>7, <1>8, <1>9, <1>10, SentNext

\* The first statement of a queue goes, and the sessions follow as before.
LEMMA RestFollows ==
    ASSUME TableInv, NEW s \in Sessions, sent[s] # <<>>, SyncsStay(Rest(s)),
           pool' = pool, UNCHANGED <<currentDatabase, leftIn>>,
           \/ ~ Head(sent[s]).sync /\ UNCHANGED <<database, missed>>
           \/ database' = [database EXCEPT ![s] = Head(sent[s]).to] /\ UNCHANGED missed
              /\ Head(sent[s]).sync
           \/ missed' = missed \cup {s} /\ UNCHANGED database
    PROVE  Followed'
<1> DEFINE q == sent[s]
           m == Head(q)
<1>1. /\ q \in Seq(Statements) /\ q # <<>> /\ Single(q)
      /\ database \in [Sessions -> Databases \cup {NoDatabase}]
      /\ pool \subseteq Sessions
  BY DEF TableInv, SentInv, TableTypeOK, QuietInv, TypeOK
<1>2. /\ ~ m.sync => /\ \A d : LastSync(q, d) => LastSync(Tail(q), d)
                     /\ NoSync(q) => NoSync(Tail(q))
      /\ m.sync => /\ ~ NoSync(q)
                   /\ \A d : LastSync(q, d) => \/ LastSync(Tail(q), d)
                                               \/ NoSync(Tail(q)) /\ m.to = d
  <2> HIDE DEF q
  <2> QED
    BY <1>1, StatementAnswered
<1>3. Rest(s)[s] = Tail(q) /\ \A t \in Sessions : t # s => Rest(s)[t] = sent[t]
  BY RestKeeps DEF TableInv
<1>4. ASSUME NEW t \in pool' \ missed', NEW d, Ends(sent[t], database[t], d)
      PROVE  Ends(sent'[t], database'[t], d)
  <2>1. t \in pool \ missed /\ t \in Sessions
    BY <1>1, <1>4
  <2>2. CASE t # s
    <3>1. Rest(s)[t] = sent[t] /\ database'[t] = database[t]
      BY <1>1, <1>3, <2>1, <2>2
    <3> QED
      BY <1>4, <2>1, <3>1 DEF Ends, SyncsStay
  <2>3. CASE t = s
    <3>1. LastSync(Tail(q), d) \/ (NoSync(Tail(q)) /\ database'[s] = d)
      <4>1. CASE ~ m.sync
        BY <4>1, <1>2, <1>4, <2>1, <2>3 DEF Ends
      <4>2. CASE m.sync
        <5>1. database'[s] = m.to
          BY <4>2, <1>1, <1>4, <2>3
        <5> QED
          BY <4>2, <5>1, <1>2, <1>4, <2>3 DEF Ends
      <4> QED
        BY <4>1, <4>2
    <3> HIDE DEF q
    <3> QED
      BY <1>3, <2>1, <2>3, <3>1 DEF Ends, SyncsStay
  <2> QED
    BY <2>2, <2>3
<1>5. ASSUME currentDatabase # NoDatabase, NEW t \in pool' \ missed' PROVE Following(t)'
  <2>1. Following(t)
    BY <1>5 DEF TableInv, Followed
  <2> QED
    BY <1>4, <2>1 DEF Following
<1> QED
  BY <1>5 DEF Followed

\* The database changes: the pool follows, and so does every session that is not
\* marked in use, once the sync has reached it (TableSessionPool.ts:115-124, 137-149).
LEMMA ChangeFollows ==
    ASSUME TableInv, NEW s \in Sessions, sent[s] # <<>>, NEW c \in Clients, Follow(c, s),
           statement[c] = Head(sent[s]).to,
           database' = [database EXCEPT ![s] = Head(sent[s]).to],
           pool' = pool,
           \A t \in SyncTargets : LastSync(sent'[t], statement[c]),
           SyncTargets = {} \/ \A t \in Sessions \ SyncTargets : sent'[t] = Rest(s)[t],
           SyncTargets = {} => SyncsStay(Rest(s))
    PROVE  Followed'
<1>1. /\ sent[s] \in Seq(Statements) /\ Single(sent[s])
      /\ database \in [Sessions -> Databases \cup {NoDatabase}]
      /\ pool \subseteq Sessions
  BY DEF TableInv, SentInv, TableTypeOK, QuietInv, TypeOK
<1>2. currentDatabase' = statement[c] /\ missed' = (missed \cup (pool \cap inUse)) \ Reached(s)
  BY DEF Follow
<1>3. ASSUME NEW t \in pool' \ missed' PROVE Following(t)'
  <2>1. t \in Sessions /\ (t \in SyncTargets \/ (t = s /\ Len(sent[s]) = 1))
    BY <1>1, <1>2, <1>3 DEF Reached, SyncTargets
  <2>2. CASE t \in SyncTargets
    BY <2>2, <1>2 DEF Following, Ends
  <2>3. CASE t \notin SyncTargets /\ t = s /\ Len(sent[s]) = 1
    <3>1. Rest(s)[s] = <<>>
      BY <1>1, <2>3, StatementAnswered, RestKeeps DEF TableInv
    <3>2. NoSync(Rest(s)[s])
      BY <3>1, EmptySeq DEF NoSync
    <3>3. NoSync(sent'[s])
      BY <2>3, <3>2 DEF SyncsStay
    <3>4. database'[s] = statement[c]
      BY <1>1
    <3> QED
      BY <1>2, <2>3, <3>3, <3>4 DEF Following, Ends
  <2> QED
    BY <2>1, <2>2, <2>3
<1> QED
  BY <1>3 DEF Followed

\* The sync goes out, to the sessions not marked in use.
LEMMA SyncKeeps ==
    ASSUME TableInv, NEW s \in Sessions, sent[s] # <<>>, NEW c \in Clients,
           pc[c] = "using", statement[c] \in Databases,
           \A t \in Sessions : \A d : ~ HasOwn(Rest(s)[t], c, d),
           syncing' = [syncing EXCEPT ![c] = Cardinality(SyncTargets)],
           sent' = Sync(c, Rest(s)), UNCHANGED <<vars, statement>>
    PROVE  SentInv' /\ \A t \in SyncTargets : LastSync(sent'[t], statement[c])
<1> DEFINE m == [to |-> statement[c], by |-> c, sync |-> TRUE]
           q == Sync(c, Rest(s))
<1>1. SentInv /\ UpInv /\ Undisturbed
  BY DEF TableInv, QuietInv
<1>2. /\ Rest(s) \in [Sessions -> Seq(Statements)]
      /\ \A t \in Sessions : Single(Rest(s)[t]) /\ (Fresh(t) => Rest(s)[t] = <<>>)
      /\ \A t \in Sessions, e \in Clients : \A d : HasOwn(Rest(s)[t], e, d) =>
            HasOwn(sent[t], e, d) /\ e # c
  <2>1. /\ Rest(s) \in [Sessions -> Seq(Statements)]
        /\ \A t \in Sessions : Single(Rest(s)[t]) /\ (Fresh(t) => Rest(s)[t] = <<>>)
        /\ \A t \in Sessions, e \in Clients : \A d :
              HasOwn(Rest(s)[t], e, d) => HasOwn(sent[t], e, d)
    BY <1>1, RestKeeps
  <2>2. \A t \in Sessions, e \in Clients : \A d : HasOwn(Rest(s)[t], e, d) => e # c
    OBVIOUS
  <2> QED
    BY <2>1, <2>2
<1>3. pc[c] = "using" /\ statement[c] \in Databases /\ statement[c] # NoDatabase
  BY NoDatabaseAssumption
<1>4. m \in Statements /\ m.sync /\ m.to = statement[c]
  BY <1>3 DEF Statements
<1>5. ASSUME NEW t \in Sessions
      PROVE  /\ q[t] \in Seq(Statements) /\ Single(q[t])
             /\ \A e, d : HasOwn(q[t], e, d) => HasOwn(Rest(s)[t], e, d)
             /\ t \in SyncTargets => LastSync(q[t], statement[c])
             /\ t \notin SyncTargets => q[t] = Rest(s)[t]
  <2>1. Rest(s)[t] \in Seq(Statements) /\ Single(Rest(s)[t])
    BY <1>2
  <2>2. CASE t \notin SyncTargets
    BY <2>1, <2>2 DEF Sync
  <2>3. CASE t \in SyncTargets
    <3>1. q[t] = Append(Rest(s)[t], m)
      BY <2>3 DEF Sync
    <3> HIDE DEF m, q
    <3>2. /\ q[t] \in Seq(Statements) /\ Single(q[t])
          /\ \A e, d : HasOwn(q[t], e, d) => HasOwn(Rest(s)[t], e, d)
          /\ LastSync(q[t], m.to)
      BY <2>1, <3>1, <1>4, StatementSent
    <3> QED
      BY <2>3, <3>2, <1>4
  <2> QED
    BY <2>2, <2>3
<1>6. q \in [Sessions -> Seq(Statements)]
  BY <1>5 DEF Sync
<1>7. UNCHANGED <<pool, pc, holds, conn, phase, cleaning>>
  BY DEF vars, poolVars
<1>8. Turn({}) /\ [Next]_vars
  BY <1>1, <1>7, NothingGranted DEF Undisturbed
<1>9. UpInv'
  BY <1>8, PoolKeeps DEF TableInv
<1>10. SentAfter(q)
  BY <1>6 DEF SentAfter
<1> HIDE DEF q, m
<1>11. Cardinality(SyncTargets) \in Nat
  BY SessionsAssumption, FS_Subset, FS_CardinalityType
  DEF SyncTargets, TableInv, QuietInv, TypeOK
<1>12. /\ syncing' \in [Clients -> Nat]
       /\ statement' \in [Clients -> Databases \cup {NoDatabase}]
       /\ \A e \in Clients \ {c} : syncing'[e] = syncing[e]
  BY <1>1, <1>11 DEF SentInv, SentTypes
<1>13. GoOn({}, q)
  <2>1. ASSUME NEW t \in Sessions, Fresh(t)' PROVE q[t] = <<>>
    <3>1. Fresh(t) /\ t \notin pool
      BY <1>1, <1>7, <2>1 DEF Fresh, UpInv, SessionsUp
    <3> QED
      BY <1>2, <1>5, <3>1 DEF SyncTargets
  <2>2. ASSUME NEW t \in Sessions, NEW e \in Clients, NEW d, HasOwn(q[t], e, d)
        PROVE  /\ HasOwn(sent[t], e, d)
               /\ statement'[e] = statement[e] /\ syncing'[e] = 0
    <3>1. HasOwn(sent[t], e, d) /\ e # c
      BY <1>2, <1>5, <2>2
    <3>2. syncing[e] = 0
      BY <1>1, <3>1 DEF SentInv, Owned
    <3> QED
      BY <1>12, <3>1, <3>2
  <2> QED
    BY <1>5, <2>1, <2>2 DEF GoOn
<1>14. Idlers
  BY <1>1, <1>3, <1>12 DEF SentInv, SentTypes, Busy, Idlers
<1>15. Busy'
  BY <1>1, <1>3, <1>7, <1>12 DEF SentInv, Busy
<1>16. SentInv'
  BY <1>1, <1>6, <1>8, <1>9, <1>10, <1>12, <1>13, <1>14, <1>15, SentNext
<1>17. \A t \in SyncTargets : LastSync(sent'[t], statement[c])
  <2>1. SyncTargets \subseteq Sessions
    BY DEF SyncTargets, TableInv, QuietInv, TypeOK
  <2> QED
    BY <1>5, <2>1 DEF q
<1> QED
  BY <1>16, <1>17

\* The first statement of a queue has been answered and its client goes on waiting.
LEMMA RestKeepsSent ==
    ASSUME TableInv, NEW s \in Sessions, sent[s] # <<>>, NEW c \in Clients,
           syncing[c] > 1, syncing' = [syncing EXCEPT ![c] = @ - 1],
           sent' = Rest(s), UNCHANGED <<vars, statement>>
    PROVE  SentInv' /\ SyncsStay(Rest(s))
<1>1. SentInv /\ UpInv /\ Undisturbed
  BY DEF TableInv, QuietInv
<1>2. /\ Rest(s) \in [Sessions -> Seq(Statements)]
      /\ \A t \in Sessions : Single(Rest(s)[t]) /\ (Fresh(t) => Rest(s)[t] = <<>>)
      /\ \A t \in Sessions, e \in Clients : \A d :
            HasOwn(Rest(s)[t], e, d) => HasOwn(sent[t], e, d)
  BY <1>1, RestKeeps
<1>3. UNCHANGED <<pool, pc, holds, conn, phase, cleaning>>
  BY DEF vars, poolVars
<1>4. Turn({}) /\ [Next]_vars
  BY <1>1, <1>3, NothingGranted DEF Undisturbed
<1>5. UpInv'
  BY <1>4, PoolKeeps DEF TableInv
<1>6. SentAfter(Rest(s))
  BY <1>2 DEF SentAfter
<1>7. /\ syncing' \in [Clients -> Nat]
      /\ statement' \in [Clients -> Databases \cup {NoDatabase}]
      /\ \A e \in Clients \ {c} : syncing'[e] = syncing[e]
  BY <1>1 DEF SentInv, SentTypes
<1>8. GoOn({}, Rest(s))
  <2> SUFFICES ASSUME NEW t \in Sessions, NEW e \in Clients, NEW d,
                      HasOwn(Rest(s)[t], e, d)
               PROVE  /\ HasOwn(sent[t], e, d)
                      /\ statement'[e] = statement[e] /\ syncing'[e] = 0
    BY <1>2, <1>3 DEF GoOn, Fresh
  <2>1. HasOwn(sent[t], e, d)
    BY <1>2
  <2>2. syncing[e] = 0
    BY <1>1, <2>1 DEF SentInv, Owned
  <2> QED
    BY <1>7, <2>1, <2>2
<1>9. pc[c] = "using" /\ statement[c] # NoDatabase
  BY <1>1 DEF SentInv, SentTypes, Busy
<1>10. Idlers
  BY <1>1, <1>7, <1>9 DEF SentInv, SentTypes, Busy, Idlers
<1>11. Busy'
  BY <1>1, <1>3, <1>7, <1>9 DEF SentInv, Busy
<1> QED
  BY <1>1, <1>2, <1>4, <1>5, <1>6, <1>7, <1>8, <1>10, <1>11, SentNext

\* The pool is not concerned: its own invariants stay.
LEMMA PoolStays ==
    ASSUME QuietInv, Undisturbed, UNCHANGED vars
    PROVE  QuietInv' /\ Undisturbed' /\ pool' = pool
<1>1. UNCHANGED <<pool, phase, cleaning, conn>>
  BY DEF vars, poolVars
<1> QED
  BY <1>1, QuietNext DEF Undisturbed

\* The USE of client c succeeds: its sync begins, or there is nobody to sync.
LEMMA SucceedsKeeps ==
    ASSUME TableInv, NEW s \in Sessions, sent[s] # <<>>, NEW c \in Clients,
           ~ Head(sent[s]).sync, Head(sent[s]).to \in Databases,
           HasOwn(sent[s], c, Head(sent[s]).to),
           \A t \in Sessions : \A d : ~ HasOwn(Rest(s)[t], c, d),
           database' = [database EXCEPT ![s] = Head(sent[s]).to],
           Follow(c, s),
           \/ SyncTargets # {} /\ sent' = Sync(c, Rest(s)) /\ UNCHANGED <<vars, statement>>
           \/ SyncTargets = {} /\ Finish(c) /\ sent' = Sends(Rest(s)),
           UNCHANGED <<applying, configDatabase>>
    PROVE  TableInv'
<1>u. SentInv
  BY DEF TableInv
<1> DEFINE d == Head(sent[s]).to
<1>0. HasOwn(sent[s], c, d) /\ d \in Databases
  OBVIOUS
<1> HIDE DEF d
<1>v. pc[c] = "using" /\ statement[c] = d /\ syncing[c] = 0
  BY <1>u, <1>0 DEF SentInv, Owned
<1>1. /\ pc[c] = "using" /\ statement[c] = Head(sent[s]).to /\ statement[c] \in Databases
      /\ syncing[c] = 0
  BY <1>0, <1>v DEF d
<1>2. /\ currentDatabase' = statement[c]
      /\ syncing' = [syncing EXCEPT ![c] = Cardinality(SyncTargets)]
      /\ missed' = (missed \cup (pool \cap inUse)) \ Reached(s)
      /\ leftIn' = NoDatabase
  BY DEF Follow
<1>3. QuietInv' /\ Undisturbed' /\ SentInv' /\ pool' = pool
  <2>1. CASE SyncTargets # {}
    <3>1. sent' = Sync(c, Rest(s)) /\ UNCHANGED <<vars, statement>>
      BY <2>1
    <3>2. SentInv'
      BY <1>1, <1>2, <3>1, SyncKeeps
    <3> QED
      BY <3>1, <3>2, PoolStays DEF TableInv
  <2>2. CASE SyncTargets = {}
    <3>1. Finish(c) /\ sent' = Sends(Rest(s)) /\ syncing' = [syncing EXCEPT ![c] = 0]
      BY <1>2, <2>2, FS_EmptySet
    <3> QED
      BY <3>1, FinishKeeps
  <2> QED
    BY <2>1, <2>2
<1>4. Followed'
  <2>1. CASE SyncTargets # {}
    <3>1. sent' = Sync(c, Rest(s)) /\ UNCHANGED <<vars, statement>>
      BY <2>1
    <3>2. \A t \in SyncTargets : LastSync(sent'[t], statement[c])
      BY <1>1, <1>2, <3>1, SyncKeeps
    <3>3. \A t \in Sessions \ SyncTargets : sent'[t] = Rest(s)[t]
      BY <3>1 DEF Sync
    <3> QED
      BY <1>1, <1>3, <2>1, <3>2, <3>3, ChangeFollows
  <2>2. CASE SyncTargets = {}
    <3>1. Finish(c) /\ sent' = Sends(Rest(s)) /\ syncing' = [syncing EXCEPT ![c] = 0]
      BY <1>2, <2>2, FS_EmptySet
    <3>2. SyncsStay(Rest(s))
      BY <3>1, FinishKeeps
    <3> QED
      BY <1>1, <1>3, <2>2, <3>2, ChangeFollows
  <2> QED
    BY <2>1, <2>2
<1>5. TableTypeOK'
  BY <1>1, <1>2, <1>3 DEF TableInv, TableTypeOK, SentInv, SentTypes, QuietInv, TypeOK
<1>6. LeftBehind'
  BY <1>1, <1>2, NoDatabaseAssumption DEF TableInv, LeftBehind
<1> QED
  BY <1>3, <1>4, <1>5, <1>6 DEF TableInv

\* The USE of client c fails.
LEMMA FailsKeeps ==
    ASSUME TableInv, NEW s \in Sessions, sent[s] # <<>>, NEW c \in Clients,
           ~ Head(sent[s]).sync,
           HasOwn(sent[s], c, Head(sent[s]).to),
           \A t \in Sessions : \A d : ~ HasOwn(Rest(s)[t], c, d),
           Finish(c), sent' = Sends(Rest(s)),
           UNCHANGED <<currentDatabase, database, syncing, missed, leftIn, applying, configDatabase>>
    PROVE  TableInv'
<1>1. syncing[c] = 0
  BY DEF TableInv, SentInv, Owned
<1>2. syncing' = [syncing EXCEPT ![c] = 0]
  BY <1>1 DEF TableInv, TableTypeOK
<1>3. QuietInv' /\ Undisturbed' /\ SentInv' /\ SyncsStay(Rest(s)) /\ pool' = pool
  BY <1>2, FinishKeeps
<1>4. Followed' /\ LeftBehind'
  BY <1>3, RestFollows, BehindStays
<1>5. TableTypeOK'
  BY <1>3 DEF TableInv, TableTypeOK, SentInv, SentTypes
<1> QED
  BY <1>3, <1>4, <1>5 DEF TableInv

\* A USE of the sync of client c is answered: c waits for the others, or is through.
LEMMA SyncedKeeps ==
    ASSUME TableInv, NEW s \in Sessions, sent[s] # <<>>, NEW c \in Clients,
           Head(sent[s]).sync, Head(sent[s]).to \in Databases,
           \/ database' = [database EXCEPT ![s] = Head(sent[s]).to] /\ UNCHANGED missed
           \/ UseFails /\ missed' = missed \cup {s} /\ UNCHANGED database,
           syncing' = [syncing EXCEPT ![c] = @ - 1],
           \/ syncing[c] > 1 /\ sent' = Rest(s) /\ UNCHANGED <<vars, statement>>
           \/ syncing[c] = 1 /\ Finish(c) /\ sent' = Sends(Rest(s)),
           UNCHANGED <<currentDatabase, leftIn, applying, configDatabase>>
    PROVE  TableInv'
<1>1. QuietInv' /\ Undisturbed' /\ SentInv' /\ SyncsStay(Rest(s)) /\ pool' = pool
  <2>1. CASE syncing[c] > 1 /\ sent' = Rest(s) /\ UNCHANGED <<vars, statement>>
    BY <2>1, RestKeepsSent, PoolStays DEF TableInv
  <2>2. CASE syncing[c] = 1 /\ Finish(c) /\ sent' = Sends(Rest(s))
    <3>1. syncing' = [syncing EXCEPT ![c] = 0]
      BY <2>2 DEF TableInv, TableTypeOK
    <3>2. \A t \in Sessions : \A d : ~ HasOwn(Rest(s)[t], c, d)
      <4>1. ASSUME NEW t \in Sessions, NEW d, HasOwn(Rest(s)[t], c, d) PROVE FALSE
        <5>u. SentInv
          BY DEF TableInv
        <5>1. HasOwn(sent[t], c, d)
          BY <4>1, <5>u, RestKeeps
        <5>2. syncing[c] = 0
          BY <5>u, <5>1 DEF SentInv, Owned
        <5> QED
          BY <2>2, <5>2
      <4> QED
        BY <4>1
    <3> QED
      BY <2>2, <3>1, <3>2, FinishKeeps
  <2> QED
    BY <2>1, <2>2
<1>2. Followed' /\ LeftBehind'
  BY <1>1, RestFollows, BehindStays
<1>3. TableTypeOK'
  BY <1>1 DEF TableInv, TableTypeOK, SentInv, SentTypes
<1> QED
  BY <1>1, <1>2, <1>3 DEF TableInv

\* The server answers the next USE of a session.
LEMMA AnsweredKeeps ==
    ASSUME TableInv, UNCHANGED configDatabase, NEW s \in Sessions, Answered(s)
    PROVE  TableInv'
<1> DEFINE m == Head(sent[s])
           c == m.by
<1>1. sent[s] # <<>> /\ UNCHANGED <<applying, configDatabase>>
  BY DEF Answered
<1>2. m \in Statements /\ SentInv
  BY <1>1, RestKeeps DEF TableInv
<1>3. c \in Clients /\ m.to \in Databases
  BY <1>2 DEF Statements
<1>4. ~ m.sync => HasOwn(sent[s], c, m.to)
  BY <1>1, <1>2, RestKeeps
<1>5. ~ m.sync => \A t \in Sessions : \A d : ~ HasOwn(Rest(s)[t], c, d)
  BY <1>1, <1>2, <1>3, RestKeeps
<1>6. \/ /\ ~ m.sync
         /\ database' = [database EXCEPT ![s] = m.to]
         /\ Follow(c, s)
         /\ \/ SyncTargets # {} /\ sent' = Sync(c, Rest(s)) /\ UNCHANGED <<vars, statement>>
            \/ SyncTargets = {} /\ Finish(c) /\ sent' = Sends(Rest(s))
      \/ /\ ~ m.sync /\ UseFails
         /\ Finish(c) /\ sent' = Sends(Rest(s))
         /\ UNCHANGED <<currentDatabase, database, syncing, missed, leftIn>>
      \/ /\ m.sync
         /\ \/ database' = [database EXCEPT ![s] = m.to] /\ UNCHANGED missed
            \/ UseFails /\ missed' = missed \cup {s} /\ UNCHANGED database
         /\ syncing' = [syncing EXCEPT ![c] = @ - 1]
         /\ \/ syncing[c] > 1 /\ sent' = Rest(s) /\ UNCHANGED <<vars, statement>>
            \/ syncing[c] = 1 /\ Finish(c) /\ sent' = Sends(Rest(s))
         /\ UNCHANGED <<currentDatabase, leftIn>>
  BY DEF Answered, Rest
<1> HIDE DEF c
<1>7. CASE /\ ~ m.sync
           /\ database' = [database EXCEPT ![s] = m.to]
           /\ Follow(c, s)
           /\ \/ SyncTargets # {} /\ sent' = Sync(c, Rest(s)) /\ UNCHANGED <<vars, statement>>
              \/ SyncTargets = {} /\ Finish(c) /\ sent' = Sends(Rest(s))
  BY <1>1, <1>3, <1>4, <1>5, <1>7, SucceedsKeeps
<1>8. CASE /\ ~ m.sync /\ UseFails
           /\ Finish(c) /\ sent' = Sends(Rest(s))
           /\ UNCHANGED <<currentDatabase, database, syncing, missed, leftIn>>
  BY <1>1, <1>3, <1>4, <1>5, <1>8, FailsKeeps
<1>9. CASE /\ m.sync
           /\ \/ database' = [database EXCEPT ![s] = m.to] /\ UNCHANGED missed
              \/ UseFails /\ missed' = missed \cup {s} /\ UNCHANGED database
           /\ syncing' = [syncing EXCEPT ![c] = @ - 1]
           /\ \/ syncing[c] > 1 /\ sent' = Rest(s) /\ UNCHANGED <<vars, statement>>
              \/ syncing[c] = 1 /\ Finish(c) /\ sent' = Sends(Rest(s))
           /\ UNCHANGED <<currentDatabase, leftIn>>
  BY <1>1, <1>3, <1>9, SyncedKeeps
<1> QED
  BY <1>6, <1>7, <1>8, <1>9

-----------------------------------------------------------------------------
(* The theorems *)

LEMMA TableNextInv ==
    ASSUME TableInv, [TableNext]_tablePoolVars
    PROVE  TableInv'
<1>1. CASE UNCHANGED tablePoolVars
  <2>1. UNCHANGED <<vars, configDatabase, currentDatabase, database, sent, statement, syncing,
                    missed, leftIn, applying>>
    BY <1>1 DEF tablePoolVars, tableVars
  <2> QED
    BY <2>1, StillInv DEF TableInv, TableTypeOK, LeftBehind
<1>2. CASE TableNext
  <2>1. UNCHANGED configDatabase
    BY <1>2 DEF TableNext
  <2>2. ASSUME NEW k \in Creations, ApplyContext(k) PROVE TableInv'
    BY <2>1, <2>2, ApplyContextKeeps
  <2>3. ASSUME NEW k \in Creations, CreatedBare(k) PROVE TableInv'
    BY <2>1, <2>3, CreatedBareKeeps
  <2>4. ASSUME NEW k \in Creations, CreatedIn(k) PROVE TableInv'
    BY <2>1, <2>4, CreatedInKeeps
  <2>5. ASSUME NEW k \in Creations, NotCreated(k) PROVE TableInv'
    BY <2>1, <2>5, NotCreatedKeeps
  <2>6. ASSUME NEW c \in Clients, Begin(c) PROVE TableInv'
    BY <2>1, <2>6, BeginKeeps
  <2>7. ASSUME NEW c \in Clients, OtherEnds(c) PROVE TableInv'
    BY <2>1, <2>7, OtherEndsKeeps
  <2>8. ASSUME NEW s \in Sessions, Answered(s) PROVE TableInv'
    BY <2>1, <2>8, AnsweredKeeps
  <2> QED
    BY <1>2, <2>2, <2>3, <2>4, <2>5, <2>6, <2>7, <2>8 DEF TableNext
<1> QED
  BY <1>1, <1>2

LEMMA TableInvHolds == TableSpec => []TableInv
  BY TableInitInv, TableNextInv, PTL DEF TableSpec

\* What the table session pool and the statements on their way consist of: every
\* statement is for a database, belongs to a client and is counted by it
\* (TableSessionPool.ts:29-41, 108-154).
THEOREM TableTypesCorrect == TableSpec => []TableTypeOK
<1>1. TableInv => TableTypeOK
  BY DEF TableInv
<1> QED
  BY <1>1, TableInvHolds, PTL

\* Whatever the callers, the USE statements and their order: once all calls are over,
\* every session the last change of database has reached is in the pool's database,
\* or in the one database the others were left in when the configured one came late
\* (TableSessionPool.ts:62-88, 115-128, 137-154).
THEOREM ContextIsFollowed == TableSpec => []ContextFollows
<1>1. TableInv => ContextFollows
  <2> SUFFICES ASSUME TableInv, Quiet, currentDatabase # NoDatabase, NEW s \in pool \ missed
               PROVE  InContext(s) \/ InOneLeft(s)
    BY DEF ContextFollows
  <2>1. s \in Sessions /\ Following(s)
    BY DEF TableInv, Followed, QuietInv, TypeOK
  <2>2. sent[s] = <<>>
    BY <2>1 DEF Quiet
  <2>3. \A d : ~ LastSync(sent[s], d)
    BY <2>2, EmptySeq DEF LastSync
  <2> QED
    BY <2>1, <2>3 DEF Following, Ends, InContext, InOneLeft
<1> QED
  BY <1>1, TableInvHolds, PTL

-----------------------------------------------------------------------------
(* The table pool is a session pool *)

LEMMA ReleaseIsStep == \A c \in Clients : Release(c) => Next
  BY DEF Release, Next

\* Every turn of the table pool is one of the pool below, or leaves it alone.
LEMMA TableStep == ASSUME TableInv, [TableNext]_tablePoolVars PROVE [Next]_vars
<1>1. CASE UNCHANGED tablePoolVars
  BY <1>1 DEF tablePoolVars
<1>2. CASE TableNext
  <2>1. ASSUME NEW k \in Creations, ApplyContext(k) PROVE [Next]_vars
    BY <2>1 DEF ApplyContext
  <2>2. ASSUME NEW k \in Creations, CreatedBare(k) \/ CreatedIn(k) PROVE Next
    <3>1. CreatedBy(k)
      BY <2>2 DEF CreatedBare, CreatedIn
    <3> QED
      BY <3>1 DEF CreatedBy, Next
  <2>3. ASSUME NEW k \in Creations, NotCreated(k) PROVE Next
    <3>1. FailedFor(k)
      BY <2>3 DEF NotCreated
    <3> QED
      BY <3>1 DEF FailedFor, Next
  <2>4. ASSUME NEW c \in Clients, Begin(c) PROVE Next
    BY <2>4 DEF Begin, Next
  <2>5. ASSUME NEW c \in Clients, OtherEnds(c) PROVE Next
    BY <2>5, ReleaseIsStep DEF OtherEnds
  <2>6. ASSUME NEW s \in Sessions, Answered(s) PROVE [Next]_vars
    <3>1. Head(sent[s]).by \in Clients
      <4>1. sent[s] \in Seq(Statements) /\ sent[s] # <<>>
        BY <2>6 DEF Answered, TableInv, TableTypeOK
      <4>2. Head(sent[s]) \in Statements
        BY <4>1, HeadTailProperties
      <4> QED
        BY <4>2 DEF Statements
    <3>2. UNCHANGED vars \/ Release(Head(sent[s]).by)
      BY <2>6 DEF Answered, Finish
    <3> QED
      BY <3>1, <3>2, ReleaseIsStep
  <2> QED
    BY <1>2, <2>1, <2>2, <2>3, <2>4, <2>5, <2>6 DEF TableNext
<1> QED
  BY <1>1, <1>2

\* TableSessionPool changes what a session is used for, never the pool: the calls of
\* its methods are calls of getSession and releaseSession, and the USE statements of a
\* creation delay it (TableSessionPool.ts:62-88, 108-154, BaseSessionPool.ts:180-333).
THEOREM TablePoolIsPool == TableSpec => Spec
<1>1. TableInit => Init
  BY DEF TableInit
<1> QED
  BY <1>1, TableStep, TableInvHolds, PTL DEF TableSpec, Spec

\* So the limits of the pool and its promise to its callers are kept when creations are
\* stretched and releases delayed by USE statements: at most maxPoolSize - 1 sessions
\* plus one per caller, nobody forgotten in the queue, no session lost, first come first
\* served (TableSessionPool.ts:108-154, BaseSessionPool.ts:228-333).
THEOREM TablePoolServes ==
    TableSpec => [](CapacityBound /\ NoLostWakeup /\ PermitsConserved) /\ ImplementsAllocator
<1>1. Spec => []CapacityBound
  BY Capacity
<1>2. Spec => []NoLostWakeup
  BY Wakeup
<1>3. Spec => []PermitsConserved
  BY Permits
<1>4. Spec => ImplementsAllocator
  BY PoolIsAllocator
<1> QED
  BY <1>1, <1>2, <1>3, <1>4, TablePoolIsPool, PTL
=============================================================================

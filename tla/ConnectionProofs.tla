--------------------------- MODULE ConnectionProofs ---------------------------
(***************************************************************************)
(* Proofs about Connection, for every number of open() calls and closers:  *)
(* the types, the two invariants that say which socket a connection object *)
(* owns and that isOpen() implies that it is live, and that a session once *)
(* lost does not open again by itself.  At the end, the theorem about      *)
(* ProcessCleanup, for any sessions and events.                            *)
(***************************************************************************)
EXTENDS Connection, ProcessCleanup, TLAPS, FiniteSetTheorems

\* Only the latest open() is in progress.
OneOpening == \A k \in Attempts : Opening(k) => k = started

\* The flag alone implies a live socket.
FlagMeansUp == isConnected => connection # 0 /\ socket[connection] = "up"

\* The inductive invariant.  OneOpening is what makes the flag that a
\* statement id sets (Connection.ts:92) speak of the current socket.
ConnInv == TypeOK /\ OneOpening /\ SocketOwned /\ FlagMeansUp

\* A fresh object satisfies the invariant (Connection.ts:28-33).
LEMMA ConnInit == Init => ConnInv
<1> SUFFICES ASSUME Init PROVE ConnInv
  OBVIOUS
<1>1. TypeOK
  <2>1. 0 \in Ids
    BY MaxOpensAssumption DEF Ids
  <2>2. connection \in {0, started} /\ isConnected \in BOOLEAN
    BY DEF Init
  <2>3. stage \in [Attempts -> {"none", "openSession", "requestStatementId", "open", "failed"}]
    BY DEF Init
  <2>4. late \in [Attempts -> SUBSET Calls]
    BY DEF Init
  <2> QED
    BY <2>1, <2>2, <2>3, <2>4 DEF Init, TypeOK
<1>2. OneOpening /\ SocketOwned /\ FlagMeansUp
  BY DEF Init, OneOpening, Opening, Calls, SocketOwned, FlagMeansUp, Attempts
<1> QED
  BY <1>1, <1>2 DEF ConnInv

\* Destroying the current socket and clearing the fields, as both ends of
\* close() do (Connection.ts:234-253), keeps the invariant.
LEMMA TearDownKeeps ==
  ASSUME ConnInv, TearDown, UNCHANGED <<started, stage, late, statementId>>,
         closer' \in [Closers -> {"out", "closing"}]
  PROVE  ConnInv'
<1>1. TypeOK'
  <2>1. Destroyed \in [Attempts -> {"none", "up", "down", "destroyed"}]
    BY DEF ConnInv, TypeOK, Destroyed
  <2>2. 0 \in Ids
    BY MaxOpensAssumption DEF Ids
  <2>3. connection' \in {0, started'} /\ isConnected' \in BOOLEAN
    BY DEF TearDown
  <2> QED
    BY <2>1, <2>2, <2>3 DEF ConnInv, TypeOK, TearDown
<1>2. OneOpening'
  BY DEF ConnInv, OneOpening, Opening
<1>3. SocketOwned'
  <2> SUFFICES ASSUME NEW k \in Attempts, socket'[k] = "up", k = started
               PROVE  FALSE
    BY DEF SocketOwned, TearDown
  <2>1. k # connection /\ socket[k] = "up"
    BY DEF TearDown, Destroyed
  <2> QED
    BY <2>1 DEF ConnInv, SocketOwned
<1>4. FlagMeansUp'
  BY DEF FlagMeansUp, TearDown
<1> QED
  BY <1>1, <1>2, <1>3, <1>4 DEF ConnInv

\* Every turn of the event loop keeps the invariant.
LEMMA ConnNext == ConnInv /\ [Next]_vars => ConnInv'
<1> SUFFICES ASSUME ConnInv, [Next]_vars PROVE ConnInv'
  OBVIOUS
<1> TypeOK /\ OneOpening /\ SocketOwned /\ FlagMeansUp
  BY DEF ConnInv
<1>1. CASE OpenStart
  <2> USE <1>1
  <2> started + 1 \in Attempts
    BY MaxOpensAssumption DEF OpenStart, TypeOK, Attempts, Ids
  <2>1. TypeOK'
    BY DEF OpenStart, NewConnection, TypeOK, Ids, Attempts, Calls
  <2>2. OneOpening'
    <3> SUFFICES ASSUME NEW k \in Attempts, Opening(k)', k # started + 1
                 PROVE  FALSE
      BY DEF OneOpening, OpenStart
    <3>1. stage'[k] = stage[k]
      BY DEF OpenStart, TypeOK
    <3> QED
      BY <3>1 DEF OpenStart, Opening
  <2>3. SocketOwned'
    BY DEF SocketOwned, OpenStart, NewConnection
  <2>4. FlagMeansUp'
    BY DEF FlagMeansUp, OpenStart, NewConnection, TypeOK, Attempts, Ids
  <2> QED
    BY <2>1, <2>2, <2>3, <2>4 DEF ConnInv
<1>2. ASSUME NEW k \in Attempts, SessionReply(k) PROVE ConnInv'
  <2> USE <1>2
  <2>1. TypeOK'
    BY DEF SessionReply, TypeOK, Ids, Attempts, Calls
  <2>2. OneOpening'
    BY DEF SessionReply, TypeOK, OneOpening, Opening, Calls
  <2>3. SocketOwned' /\ FlagMeansUp'
    BY DEF SessionReply, SocketOwned, FlagMeansUp
  <2> QED
    BY <2>1, <2>2, <2>3 DEF ConnInv
<1>3. ASSUME NEW k \in Attempts, StatementReply(k) PROVE ConnInv'
  <2> USE <1>3
  <2>1. TypeOK'
    BY DEF StatementReply, TypeOK, Ids, Attempts, Calls
  <2>2. OneOpening'
    BY DEF StatementReply, TypeOK, OneOpening, Opening, Calls
  <2>3. SocketOwned'
    BY DEF StatementReply, SocketOwned
  <2>4. k = started /\ connection = k
    BY DEF StatementReply, OneOpening, Opening, Calls, SocketOwned
  <2>5. FlagMeansUp'
    BY <2>4 DEF StatementReply, FlagMeansUp, Attempts
  <2> QED
    BY <2>1, <2>2, <2>3, <2>5 DEF ConnInv
<1>4. ASSUME NEW k \in Attempts, CallFails(k) PROVE ConnInv'
  <2> USE <1>4
  <2>1. TypeOK'
    BY DEF CallFails, TypeOK, Ids, Attempts, Calls
  <2>2. OneOpening'
    BY DEF CallFails, TypeOK, OneOpening, Opening, Calls
  <2>3. SocketOwned' /\ FlagMeansUp'
    BY DEF CallFails, SocketOwned, FlagMeansUp
  <2> QED
    BY <2>1, <2>2, <2>3 DEF ConnInv
<1>5. ASSUME NEW k \in Attempts, CallTimer(k) PROVE ConnInv'
  <2> USE <1>5
  <2>1. TypeOK'
    BY DEF CallTimer, Opening, TypeOK, Ids, Attempts, Calls
  <2>2. OneOpening'
    BY DEF CallTimer, TypeOK, OneOpening, Opening, Calls
  <2>3. SocketOwned' /\ FlagMeansUp'
    BY DEF CallTimer, SocketOwned, FlagMeansUp
  <2> QED
    BY <2>1, <2>2, <2>3 DEF ConnInv
<1>6. ASSUME NEW k \in Attempts, LateReply(k) PROVE ConnInv'
  <2> USE <1>6
  <2>1. TypeOK'
    BY DEF LateReply, TypeOK, Ids, Attempts, Calls
  <2>2. OneOpening'
    BY DEF LateReply, OneOpening, Opening
  <2>3. SocketOwned' /\ FlagMeansUp'
    BY DEF LateReply, SocketOwned, FlagMeansUp
  <2> QED
    BY <2>1, <2>2, <2>3 DEF ConnInv
<1>7. ASSUME NEW k \in Attempts, SocketCloses(k) PROVE ConnInv'
  <2> USE <1>7
  <2>1. TypeOK'
    BY DEF SocketCloses, AfterEvent, TypeOK, Ids, Attempts, Calls
  <2>2. OneOpening'
    BY DEF SocketCloses, OneOpening, Opening
  <2>3. SocketOwned'
    BY DEF SocketCloses, SocketOwned, TypeOK
  <2>4. FlagMeansUp'
    BY DEF SocketCloses, AfterEvent, FlagMeansUp
  <2> QED
    BY <2>1, <2>2, <2>3, <2>4 DEF ConnInv
<1>8. ASSUME NEW c \in Closers, CloseStart(c) PROVE ConnInv'
  <2>1. closer' \in [Closers -> {"out", "closing"}]
    BY <1>8 DEF CloseStart, TypeOK
  <2>2. CASE TearDown
    BY <1>8, <2>1, <2>2, TearDownKeeps DEF CloseStart
  <2>3. CASE UNCHANGED <<isConnected, socket, connection, sessionId>>
    <3>1. UNCHANGED <<started, stage, late, statementId>>
      BY <1>8 DEF CloseStart
    <3>2. TypeOK'
      BY <2>1, <2>3, <3>1 DEF TypeOK
    <3>3. OneOpening' /\ SocketOwned' /\ FlagMeansUp'
      BY <2>3, <3>1 DEF OneOpening, Opening, SocketOwned, FlagMeansUp
    <3> QED
      BY <3>2, <3>3 DEF ConnInv
  <2> QED
    BY <1>8, <2>2, <2>3 DEF CloseStart
<1>9. ASSUME NEW c \in Closers, CloseFinish(c) PROVE ConnInv'
  <2>1. closer' \in [Closers -> {"out", "closing"}]
    BY <1>9 DEF CloseFinish, TypeOK
  <2> QED
    BY <1>9, <2>1, TearDownKeeps DEF CloseFinish
<1>10. CASE UNCHANGED vars
  BY <1>10 DEF vars, ConnInv, TypeOK, OneOpening, Opening, SocketOwned, FlagMeansUp
<1> QED
  BY <1>1, <1>2, <1>3, <1>4, <1>5, <1>6, <1>7, <1>8, <1>9, <1>10 DEF Next

\* The invariant holds in every state of every behaviour.
LEMMA ConnAlways == Spec => []ConnInv
BY ConnInit, ConnNext, PTL DEF Spec

\* A connection object keeps its types, and its connection field is null or the
\* latest socket, however opens, answers, events and closes interleave
\* (Connection.ts:28-33, 59-74).
THEOREM ConnectionTypes == Spec => []TypeOK
<1>1. ConnInv => TypeOK
  BY DEF ConnInv
<1> QED
  BY <1>1, ConnAlways, PTL

\* isOpen(), the check the pool makes before it hands a session out, implies a
\* live socket: closes and late answers never leave it true on a dead one
\* (Connection.ts:76-84, 92, 234-253, 295).
THEOREM OpenConnectionIsUp == Spec => []OpenMeansUp
<1>1. ConnInv => OpenMeansUp
  BY DEF ConnInv, FlagMeansUp, OpenMeansUp, IsOpen
<1> QED
  BY <1>1, ConnAlways, PTL

\* The latest socket stays within reach of close() for as long as it is up
\* (Connection.ts:59-74, 239-251).
THEOREM LatestSocketOwned == Spec => []SocketOwned
<1>1. ConnInv => SocketOwned
  BY DEF ConnInv
<1> QED
  BY <1>1, ConnAlways, PTL

-----------------------------------------------------------------------------
(* A lost session stays lost *)

\* While open() waits for the statement id, on a socket that is up, the object
\* has a session id, and so it has while the flag is set: whatever clears the id
\* destroys the socket and clears the flag (Connection.ts:234-253).
IdWaits == \A k \in Attempts : stage[k] = "requestStatementId" /\ socket[k] = "up" => sessionId # 0
FlagHasId == isConnected => sessionId # 0

IdInv == ConnInv /\ IdWaits /\ FlagHasId

\* Clearing the id takes down the socket of the open() in progress with it.
LEMMA TearDownIds ==
  ASSUME ConnInv, TearDown, UNCHANGED <<started, stage>>
  PROVE  IdWaits' /\ FlagHasId'
<1>1. FlagHasId'
  BY DEF TearDown, FlagHasId
<1>2. ASSUME NEW k \in Attempts, stage[k] = "requestStatementId", socket'[k] = "up"
      PROVE  FALSE
  <2>1. k # connection /\ socket[k] = "up"
    BY <1>2 DEF TearDown, Destroyed
  <2>2. k = started
    BY <1>2 DEF ConnInv, OneOpening, Opening, Calls
  <2> QED
    BY <2>1, <2>2 DEF ConnInv, SocketOwned
<1> QED
  BY <1>1, <1>2 DEF IdWaits

\* Every turn of the event loop keeps the id where it is needed.
LEMMA IdNext == IdInv /\ [Next]_vars => IdInv'
<1> SUFFICES ASSUME IdInv, [Next]_vars PROVE IdInv'
  OBVIOUS
<1> TypeOK /\ ConnInv /\ IdWaits /\ FlagHasId /\ 0 \notin Attempts
  BY DEF IdInv, ConnInv, Attempts
<1>1. ConnInv'
  BY ConnNext
<1>2. IdWaits' /\ FlagHasId'
  <2>1. CASE OpenStart
    BY <2>1 DEF OpenStart, TypeOK, IdWaits, FlagHasId
  <2>2. ASSUME NEW k \in Attempts, SessionReply(k) PROVE IdWaits' /\ FlagHasId'
    BY <2>2 DEF SessionReply, IdWaits, FlagHasId
  <2>3. ASSUME NEW k \in Attempts, StatementReply(k) PROVE IdWaits' /\ FlagHasId'
    BY <2>3 DEF StatementReply, TypeOK, IdWaits, FlagHasId
  <2>4. ASSUME NEW k \in Attempts, CallFails(k) PROVE IdWaits' /\ FlagHasId'
    BY <2>4 DEF CallFails, TypeOK, IdWaits, FlagHasId
  <2>5. ASSUME NEW k \in Attempts, CallTimer(k) PROVE IdWaits' /\ FlagHasId'
    BY <2>5 DEF CallTimer, TypeOK, IdWaits, FlagHasId
  <2>6. ASSUME NEW k \in Attempts, LateReply(k) PROVE IdWaits' /\ FlagHasId'
    BY <2>6 DEF LateReply, IdWaits, FlagHasId
  <2>7. ASSUME NEW k \in Attempts, SocketCloses(k) PROVE IdWaits' /\ FlagHasId'
    BY <2>7 DEF SocketCloses, AfterEvent, TypeOK, IdWaits, FlagHasId
  <2>8. ASSUME NEW c \in Closers, CloseStart(c) PROVE IdWaits' /\ FlagHasId'
    <3>1. CASE TearDown
      BY <2>8, <3>1, TearDownIds DEF CloseStart
    <3>2. CASE UNCHANGED <<isConnected, socket, connection, sessionId>>
      BY <2>8, <3>2 DEF CloseStart, IdWaits, FlagHasId
    <3> QED
      BY <2>8, <3>1, <3>2 DEF CloseStart
  <2>9. ASSUME NEW c \in Closers, CloseFinish(c) PROVE IdWaits' /\ FlagHasId'
    BY <2>9, TearDownIds DEF CloseFinish
  <2>10. CASE UNCHANGED vars
    BY <2>10 DEF vars, IdWaits, FlagHasId
  <2> QED
    BY <2>1, <2>2, <2>3, <2>4, <2>5, <2>6, <2>7, <2>8, <2>9, <2>10 DEF Next
<1> QED
  BY <1>1, <1>2 DEF IdInv

\* The flag of an object that is not open is FALSE, and nothing but the statement
\* id of an open() in progress sets it.
LEMMA OnlyOpenOpens ==
  ASSUME IdInv, [Next]_vars, stage[started] = "open", started # 0, ~ IsOpen, IsOpen'
  PROVE  started' # started
<1> SUFFICES ASSUME started' = started PROVE FALSE
  OBVIOUS
<1>1. ~ isConnected
  BY DEF IdInv, FlagHasId, IsOpen
<1>2. isConnected'
  BY DEF IsOpen
<1>3. PICK k \in Attempts : StatementReply(k)
  BY <1>1, <1>2 DEF Next, vars, OpenStart, SessionReply, CallFails, CallTimer, LateReply,
                    SocketCloses, AfterEvent, CloseStart, CloseFinish, TearDown
<1>4. k = started
  BY <1>3 DEF IdInv, ConnInv, OneOpening, Opening, Calls, StatementReply
<1> QED
  BY <1>3, <1>4 DEF StatementReply

\* A session that was open and is not any more does not open by itself, whatever
\* answers, events and closes come late: only a new open() can
\* (Connection.ts:92, 147, 234-253).
THEOREM LostStaysLost == Spec => LostIsLost
<1>1. Init => IdInv
  <2> SUFFICES ASSUME Init PROVE IdWaits /\ FlagHasId
    BY ConnInit DEF IdInv
  <2> QED
    BY DEF Init, IdWaits, FlagHasId
<1>2. IdInv /\ [Next]_vars
        => [started # 0 /\ stage[started] = "open" /\ ~ IsOpen
              => ~ IsOpen' \/ started' # started]_vars
  BY OnlyOpenOpens
<1> QED
  BY <1>1, <1>2, IdNext, PTL DEF Spec, LostIsLost

-----------------------------------------------------------------------------
(* ProcessCleanup, which closes sessions and pools when the process ends: for any *)
(* number of them and of events                                                   *)

CloseStates == {"none", "opening", "open", "closed"}
CloseCalls  == Closables \X {"user", "cleanup"} \X (Pools \cup {Directly})

\* The types the proof needs.
CleanupTypes ==
    /\ closables \subseteq Closables /\ snapshot \subseteq Closables
    /\ closeState \in [Closables -> CloseStates]
    /\ owner \in [Sessions -> Pools \cup {Directly}]
    /\ pooled \in [Pools -> SUBSET Sessions]
    /\ closing \subseteq CloseCalls
    /\ closeCalls \in [Closables -> Nat]
    /\ cleanup \in {"null", "pending", "settled"}
    /\ expired \in BOOLEAN /\ exited \in BOOLEAN

\* A pool holds only sessions of its own.
PoolsOwn ==
    /\ \A s \in Sessions : closeState[s] = "none" => owner[s] = Directly
    /\ \A p \in Pools : \A s \in pooled[p] : owner[s] = p

\* Before the first event nothing has been closed by the cleanup.
NothingBefore ==
    cleanup = "null" =>
        /\ ~ exited /\ snapshot = {}
        /\ \A x \in Closables : closeCalls[x] = 0
        /\ \A call \in closing : call[2] # "cleanup"

\* The close() of everything in the snapshot has been called, and no step undoes it.
SnapshotClosing ==
    \A x \in snapshot : closeState[x] = "closed" \/ <<x, "cleanup", Directly>> \in closing

\* The cleanup settles when these calls have ended or the time is over.
SettledWell == cleanup = "settled" => expired \/ SettledAll

ClosedOnce ==
    \A x \in Closables : closeCalls[x] <= IF x \in Sessions /\ owner[x] \in Pools THEN 2 ELSE 1

CleanupInv ==
    /\ CleanupTypes /\ PoolsOwn /\ NothingBefore /\ SnapshotClosing /\ SettledWell /\ ClosedOnce
    /\ exited => cleanup = "settled"

\* Nothing has happened when the module is loaded (ProcessCleanup.ts:34-35).
LEMMA CleanupInvInit == CleanupInit => CleanupInv
<1> SUFFICES ASSUME CleanupInit PROVE CleanupInv
  OBVIOUS
<1> USE DEF CleanupInit
<1>1. CleanupTypes
  BY DEF CleanupTypes, CloseStates, Closables
<1>2. PoolsOwn
  BY DEF PoolsOwn
<1>3. NothingBefore /\ ClosedOnce
  BY CleanupAssumption DEF NothingBefore, ClosedOnce, Closables
<1> QED
  BY <1>1, <1>2, <1>3 DEF CleanupInv, SnapshotClosing, SettledWell

\* A run of the cleanup calls x.close() itself, and the pool of x, if x is in one, does
\* so too: no third call is made (ProcessCleanup.ts:47-49, BaseSessionPool.ts:463-471).
LEMMA TwoCallsAtMost ==
    ASSUME CleanupTypes, PoolsOwn, NEW x \in Closables
    PROVE  LET made == {call \in CleanupCalls : call[1] = x}
           IN  /\ IsFiniteSet(made) /\ Cardinality(made) \in Nat
               /\ Cardinality(made) <= IF x \in Sessions /\ owner[x] \in Pools THEN 2 ELSE 1
<1> DEFINE made   == {call \in CleanupCalls : call[1] = x}
           direct == <<x, "cleanup", Directly>>
           via    == <<x, "cleanup", owner[x]>>
<1>1. ASSUME NEW call \in made
      PROVE  call = direct \/ (x \in Sessions /\ owner[x] \in Pools /\ call = via)
  <2>1. PICK y \in closables : call \in CallsOf(y, "cleanup")
    BY <1>1 DEF CleanupCalls
  <2>2. call[1] = x
    BY <1>1
  <2>3. CASE call = <<y, "cleanup", Directly>>
    BY <2>2, <2>3
  <2>4. CASE call # <<y, "cleanup", Directly>>
    <3>1. PICK s \in Members(y) : call = <<s, "cleanup", y>>
      BY <2>1, <2>4 DEF CallsOf
    <3>2. y \in Pools /\ s \in pooled[y] /\ s = x
      BY <2>2, <3>1 DEF Members
    <3> QED
      BY <3>1, <3>2 DEF CleanupTypes, PoolsOwn
  <2> QED
    BY <2>3, <2>4
<1>2. IsFiniteSet({direct}) /\ Cardinality({direct}) = 1
  BY FS_Singleton
<1>3. IsFiniteSet({direct, via}) /\ Cardinality({direct, via}) <= 2
  <2>1. {direct, via} = {direct} \cup {via}
    OBVIOUS
  <2>2. IsFiniteSet({direct} \cup {via})
        /\ (Cardinality({direct} \cup {via}) = Cardinality({direct})
            \/ Cardinality({direct} \cup {via}) = Cardinality({direct}) + 1)
    <3> HIDE DEF direct, via
    <3> QED
      BY <1>2, FS_AddElement
  <2> HIDE DEF direct, via
  <2> QED
    BY <1>2, <2>1, <2>2
<1>4. CASE x \in Sessions /\ owner[x] \in Pools
  <2>1. made \subseteq {direct, via}
    BY <1>1
  <2> HIDE DEF made, direct, via
  <2>2. IsFiniteSet(made) /\ Cardinality(made) <= Cardinality({direct, via})
    BY <2>1, <1>3, FS_Subset
  <2>3. Cardinality(made) \in Nat /\ Cardinality({direct, via}) \in Nat
    BY <2>2, <1>3, FS_CardinalityType
  <2>4. Cardinality(made) <= 2
    BY <1>3, <2>2, <2>3
  <2> QED
    BY <1>4, <2>2, <2>3, <2>4 DEF made
<1>5. CASE ~ (x \in Sessions /\ owner[x] \in Pools)
  <2>1. made \subseteq {direct}
    BY <1>1, <1>5
  <2> HIDE DEF made, direct, via
  <2>2. IsFiniteSet(made) /\ Cardinality(made) <= Cardinality({direct})
    BY <2>1, <1>2, FS_Subset
  <2>3. Cardinality(made) \in Nat
    BY <2>2, FS_CardinalityType
  <2> QED
    BY <1>2, <1>5, <2>2, <2>3 DEF made
<1> QED
  BY <1>4, <1>5

\* What x.close() calls at once are calls of closables, by the one who closes x.
LEMMA CallsTyped ==
    ASSUME CleanupTypes, NEW x \in Closables, NEW who \in {"user", "cleanup"}
    PROVE  /\ CallsOf(x, who) \subseteq CloseCalls
           /\ \A call \in CallsOf(x, who) : call[2] = who
           /\ <<x, who, Directly>> \in CallsOf(x, who)
<1>1. ASSUME NEW s \in Members(x) PROVE <<s, who, x>> \in CloseCalls
  BY <1>1 DEF Members, CleanupTypes, CloseCalls, Closables
<1> QED
  BY <1>1 DEF CallsOf, CloseCalls

\* The first event closes what is registered (ProcessCleanup.ts:46-61).
LEMMA FirstEvent ==
    ASSUME CleanupInv, NEW e \in Events, ~ exited, cleanup = "null", Event(e)
    PROVE  CleanupInv'
<1>1. /\ cleanup' = "pending" /\ snapshot' = closables /\ closing' = closing \cup CleanupCalls
      /\ closeCalls' = [x \in Closables |->
             closeCalls[x] + Cardinality({call \in CleanupCalls : call[1] = x})]
      /\ UNCHANGED <<closables, closeState, owner, pooled, expired, exited>>
  BY DEF Event, NotBegun
<1>2. CleanupTypes /\ PoolsOwn /\ closables \subseteq Closables
  BY DEF CleanupInv, CleanupTypes
<1>3. ASSUME NEW x \in Closables
      PROVE  closeCalls'[x] \in Nat
             /\ closeCalls'[x] <= IF x \in Sessions /\ owner[x] \in Pools THEN 2 ELSE 1
  <2> DEFINE n == Cardinality({call \in CleanupCalls : call[1] = x})
  <2>1. n \in Nat /\ n <= IF x \in Sessions /\ owner[x] \in Pools THEN 2 ELSE 1
    BY <1>2, TwoCallsAtMost
  <2>2. closeCalls[x] = 0
    BY DEF CleanupInv, NothingBefore
  <2>3. closeCalls'[x] = closeCalls[x] + n
    BY <1>1
  <2> HIDE DEF n
  <2> QED
    BY <2>1, <2>2, <2>3
<1>4. CleanupCalls \subseteq CloseCalls /\ \A x \in closables : <<x, "cleanup", Directly>> \in CleanupCalls
  BY <1>2, CallsTyped DEF CleanupCalls
<1>5. CleanupTypes'
  <2>1. closeCalls' \in [Closables -> Nat]
    BY <1>1, <1>3
  <2> QED
    BY <1>1, <1>2, <1>4, <2>1 DEF CleanupTypes
<1>6. PoolsOwn'
  BY <1>1, <1>2 DEF PoolsOwn
<1>7. SnapshotClosing'
  BY <1>1, <1>4 DEF SnapshotClosing
<1>8. ClosedOnce'
  BY <1>1, <1>3 DEF ClosedOnce
<1> QED
  BY <1>1, <1>5, <1>6, <1>7, <1>8 DEF CleanupInv, NothingBefore, SettledWell

\* Calls of the user and the ends of calls keep what is known of the cleanup's calls.
LEMMA CloseKeeps ==
    ASSUME CleanupInv, NEW x \in Closables, UserCloses(x)
    PROVE  CleanupInv'
<1>1. /\ closing' = closing \cup CallsOf(x, "user")
      /\ UNCHANGED <<closables, closeState, owner, pooled, closeCalls, cleanup, snapshot, waiting,
                     expired, exited>>
  BY DEF UserCloses, runVars
<1>2. CallsOf(x, "user") \subseteq CloseCalls /\ \A call \in CallsOf(x, "user") : call[2] = "user"
  BY CallsTyped DEF CleanupInv
<1>3. CleanupTypes'
  BY <1>1, <1>2 DEF CleanupInv, CleanupTypes
<1>4. PoolsOwn' /\ ClosedOnce' /\ SnapshotClosing'
  BY <1>1 DEF CleanupInv, PoolsOwn, ClosedOnce, SnapshotClosing
<1>5. NothingBefore'
  BY <1>1, <1>2 DEF CleanupInv, NothingBefore
<1>6. SettledWell'
  <2>1. \A y : <<y, "cleanup", Directly>> \notin CallsOf(x, "user")
    BY <1>2
  <2> QED
    BY <1>1, <2>1 DEF CleanupInv, SettledWell, SettledAll
<1> QED
  BY <1>1, <1>3, <1>4, <1>5, <1>6 DEF CleanupInv

LEMMA CloseEndsKeeps ==
    ASSUME CleanupInv, NEW call \in closing, CloseEnds(call[1], call[2], call[3])
    PROVE  CleanupInv'
<1>1. PICK x \in Closables, who \in {"user", "cleanup"}, via \in Pools \cup {Directly} :
        call = <<x, who, via>>
  BY DEF CleanupInv, CleanupTypes, CloseCalls
<1>2. /\ closing' = closing \ {<<x, who, via>>}
      /\ closeState' = [closeState EXCEPT ![x] = "closed"]
      /\ closables' = closables \ {x}
      /\ pooled' = [p \in Pools |-> IF p = x THEN {} ELSE pooled[p]]
      /\ UNCHANGED <<owner, closeCalls, cleanup, snapshot, waiting, expired, exited>>
  BY <1>1 DEF CloseEnds, runVars
<1>3. CleanupTypes'
  BY <1>2 DEF CleanupInv, CleanupTypes, CloseStates
<1>4. PoolsOwn' /\ ClosedOnce'
  BY <1>2 DEF CleanupInv, CleanupTypes, PoolsOwn, ClosedOnce, Closables
<1>5. SnapshotClosing'
  <2> SUFFICES ASSUME NEW y \in snapshot, closeState'[y] # "closed"
               PROVE  <<y, "cleanup", Directly>> \in closing'
    BY <1>2 DEF SnapshotClosing
  <2>1. y \in Closables /\ y # x /\ closeState[y] # "closed"
    BY <1>2 DEF CleanupInv, CleanupTypes
  <2>2. <<y, "cleanup", Directly>> \in closing
    BY <2>1 DEF CleanupInv, SnapshotClosing
  <2> QED
    BY <1>2, <2>1, <2>2
<1>6. NothingBefore' /\ SettledWell'
  BY <1>2 DEF CleanupInv, NothingBefore, SettledWell, SettledAll
<1> QED
  BY <1>2, <1>3, <1>4, <1>5, <1>6 DEF CleanupInv

\* Every event and every callback keeps it (ProcessCleanup.ts:37-124).
LEMMA CleanupInvNext == CleanupInv /\ [CleanupNext]_cleanupVars => CleanupInv'
<1> SUFFICES ASSUME CleanupInv, [CleanupNext]_cleanupVars PROVE CleanupInv'
  OBVIOUS
<1> USE DEF CleanupInv, NothingBefore, SnapshotClosing, SettledWell, SettledAll
<1>1. ASSUME NEW p \in Pools, NewPool(p) PROVE CleanupInv'
  BY <1>1, CleanupAssumption
     DEF NewPool, Register, runVars, CleanupTypes, CloseStates, PoolsOwn, ClosedOnce, Closables
<1>2. ASSUME NEW s \in Sessions, NEW o \in Pools \cup {Directly}, NewSession(s, o)
      PROVE  CleanupInv'
  <2>1. /\ closeState[s] = "none" /\ owner' = [owner EXCEPT ![s] = o]
        /\ closeState' = [closeState EXCEPT ![s] = "opening"] /\ closables' = closables \cup {s}
        /\ UNCHANGED <<pooled, closing, closeCalls, cleanup, snapshot, waiting, expired, exited>>
    BY <1>2 DEF NewSession, Register, runVars
  <2>2. CleanupTypes'
    BY <2>1 DEF CleanupTypes, CloseStates, Closables
  <2>3. owner[s] = Directly
    BY <2>1 DEF PoolsOwn
  <2>4. PoolsOwn'
    BY <2>1, <2>3, CleanupAssumption DEF CleanupTypes, PoolsOwn, Closables
  <2>5. ClosedOnce'
    <3> SUFFICES ASSUME NEW x \in Closables
                 PROVE  closeCalls[x] <= IF x \in Sessions /\ owner'[x] \in Pools THEN 2 ELSE 1
      BY <2>1 DEF ClosedOnce
    <3>1. closeCalls[x] \in Nat
             /\ closeCalls[x] <= IF x \in Sessions /\ owner[x] \in Pools THEN 2 ELSE 1
      BY DEF ClosedOnce, CleanupTypes
    <3>2. x \in Sessions /\ owner[x] \in Pools => owner'[x] \in Pools
      BY <2>1, <2>3, CleanupAssumption DEF CleanupTypes
    <3> QED
      BY <3>1, <3>2
  <2>6. SnapshotClosing'
    BY <2>1 DEF CleanupTypes
  <2> QED
    BY <2>1, <2>2, <2>4, <2>5, <2>6
<1>3. ASSUME NEW s \in Sessions, Opened(s) PROVE CleanupInv'
  BY <1>3 DEF Opened, runVars, CleanupTypes, CloseStates, PoolsOwn, ClosedOnce, Closables
<1>4. ASSUME NEW p \in Pools, NEW s \in Sessions, Removed(p, s) PROVE CleanupInv'
  BY <1>4 DEF Removed, runVars, CleanupTypes, PoolsOwn, ClosedOnce
<1>5. ASSUME NEW e \in Events, ~ exited, Event(e) PROVE CleanupInv'
  <2>1. CASE cleanup = "null"
    BY <1>5, <2>1, FirstEvent
  <2>2. CASE cleanup # "null"
    BY <1>5, <2>2 DEF Event, NotBegun, CleanupTypes, PoolsOwn, ClosedOnce
  <2> QED
    BY <2>1, <2>2
<1>6. CASE TimeLimit
  BY <1>6 DEF TimeLimit, CleanupTypes, PoolsOwn, ClosedOnce
<1>7. CASE AllSettledFirst
  BY <1>7 DEF AllSettledFirst, CleanupTypes, PoolsOwn, ClosedOnce
<1>8. CASE HandlerEnds
  BY <1>8 DEF HandlerEnds, CleanupTypes, PoolsOwn, ClosedOnce
<1>9. CASE UNCHANGED cleanupVars
  BY <1>9 DEF cleanupVars, CleanupTypes, PoolsOwn, ClosedOnce
<1> QED
  BY <1>1, <1>2, <1>3, <1>4, <1>5, <1>6, <1>7, <1>8, <1>9, CloseKeeps, CloseEndsKeeps
     DEF CleanupNext

\* However many events come, the cleanup runs once: it closes a pool and a session of
\* the user once at most, and a session of a pool once itself and once more through
\* its pool; the process exits only when everything that was registered has been
\* closed or the time is over (ProcessCleanup.ts:45-64, 83-124,
\* BaseSessionPool.ts:114, 466-484).
THEOREM CleanedUpOnce == CleanupSpec => []CleanupOnce
<1>1. CleanupInv => CleanupOnce
  BY DEF CleanupInv, CleanupOnce, ClosedOnce, SettledWell, SettledAll, SnapshotClosing
<1> QED
  BY <1>1, CleanupInvInit, CleanupInvNext, PTL DEF CleanupSpec
=============================================================================

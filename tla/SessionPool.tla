----------------------------- MODULE SessionPool -----------------------------
(***************************************************************************)
(* The session pool of BaseSessionPool.ts: init, getSession,               *)
(* releaseSession, the periodic cleanup of idle sessions, and close.       *)
(*                                                                         *)
(* The pool is single-threaded JavaScript.  One action is one turn of the  *)
(* event loop: the synchronous code a caller, a timer or an I/O callback   *)
(* starts, together with the promise continuations (microtasks) it         *)
(* resolves.  Every `await` on the network ends an action, so all other    *)
(* turns interleave there.                                                 *)
(*                                                                         *)
(* A client is one asynchronous call chain: it gets a session, uses it for *)
(* a while and releases it once, as every method of the pool does in its   *)
(* `finally` block or in the cleanup callback of a data set.               *)
(***************************************************************************)
EXTENDS Integers, Sequences, FiniteSets, SequencesExt

CONSTANTS
    Clients,      \* concurrent callers of getSession
    Sessions,     \* names for the session objects ever created (a bound)
    MaxPoolSize,  \* config.maxPoolSize
    MinPoolSize,  \* config.minPoolSize
    MaxQueue,     \* bound: no new getSession once waitQueue is this long
    Faults,       \* which of FaultKinds may happen
    Expired,      \* a waitQueue entry whose caller has timed out
    NoSession     \* the value of holds[c] when c holds no session

FaultKinds == {"timeout", "loss", "cleanup", "close"}

ASSUME ClientsAssumption  == IsFiniteSet(Clients) /\ Clients # {}
ASSUME SessionsAssumption == IsFiniteSet(Sessions)
ASSUME SizesAssumption    == /\ MaxPoolSize \in Nat \ {0}
                             /\ MinPoolSize \in 1..MaxPoolSize
                             /\ MaxQueue \in Nat
ASSUME FaultsAssumption   == Faults \subseteq FaultKinds
ASSUME MarkersAssumption  == Expired \notin Clients /\ NoSession \notin Sessions

VARIABLES
    phase,        \* progress of init() and close()
    initPending,  \* createSession calls of init() not yet settled
    pool,         \* this.pool: the sessions the pool owns
    idle,         \* this.idleSessions: a deque, taken from the front
    active,       \* this.activeSessions
    inUse,        \* the sessions whose PooledSession.inUse flag is set
    waitQueue,    \* this.waitQueue: callers, or Expired for dead entries
    conn,         \* conn[s]: state of the connection of session object s
    cleaning,     \* cleaning[s]: close() calls of the cleanup in flight for s
    closing,      \* sessions whose close(), called by pool.close(), is in flight
    pc,           \* pc[c]: where client c is in getSession / releaseSession
    holds,        \* holds[c]: the session getSession returned to c
    leaked        \* history: sessions handed to a caller that had timed out

poolVars == <<pool, idle, active, inUse, waitQueue>>
vars == <<phase, initPending, poolVars, conn, cleaning, closing, pc, holds, leaked>>

Phases    == {"initializing", "initFailed", "ready", "closing", "closed"}
ConnState == {"none", "open", "closed"}
PcState   == {"out", "creating", "waiting", "using"}

TypeOK ==
    /\ phase \in Phases
    /\ initPending \in 0..MinPoolSize
    /\ pool \in SUBSET Sessions
    /\ idle \in Seq(Sessions)
    /\ active \in SUBSET Sessions
    /\ inUse \in SUBSET Sessions
    /\ waitQueue \in Seq(Clients \cup {Expired})
    /\ conn \in [Sessions -> ConnState]
    /\ cleaning \in [Sessions -> Nat]
    /\ closing \in SUBSET Sessions
    /\ pc \in [Clients -> PcState]
    /\ holds \in [Clients -> Sessions \cup {NoSession}]
    /\ leaked \in Nat

-----------------------------------------------------------------------------
Creating == {c \in Clients : pc[c] = "creating"}
Using    == {c \in Clients : pc[c] = "using"}

\* Session.isOpen(): the connection is up and has a session id.
IsOpen(s) == conn[s] = "open"

\* A session object that has not been created yet.
Fresh(s) == conn[s] = "none"

\* The size check of getSession, on the pool it sees.
HasRoomLax(p) == Cardinality(p) <= MaxPoolSize          \* mutant: off by one
HasRoom(p) == Cardinality(p) < MaxPoolSize

\* The number of createSession calls init() starts.
OneCallMore == MinPoolSize + 1                          \* mutant: off by one
InitCalls == MinPoolSize

Init ==
    /\ phase = "initializing"
    /\ initPending = InitCalls
    /\ pool = {}
    /\ idle = <<>>
    /\ active = {}
    /\ inUse = {}
    /\ waitQueue = <<>>
    /\ conn = [s \in Sessions |-> "none"]
    /\ cleaning = [s \in Sessions |-> 0]
    /\ closing = {}
    /\ pc = [c \in Clients |-> "out"]
    /\ holds = [c \in Clients |-> NoSession]
    /\ leaked = 0

-----------------------------------------------------------------------------
(* init() starts MinPoolSize createSession calls in parallel. *)

\* One of them completes: its session joins pool and idle.  init() resolves
\* with the last one unless an earlier one failed.
InitCreated ==
    /\ initPending > 0
    /\ \E s \in Sessions :
        /\ Fresh(s)
        /\ conn' = [conn EXCEPT ![s] = "open"]
        /\ pool' = pool \cup {s}
        /\ idle' = Append(idle, s)
    /\ initPending' = initPending - 1
    /\ phase' = IF phase = "initializing" /\ initPending = 1 THEN "ready" ELSE phase
    /\ UNCHANGED <<active, inUse, waitQueue, cleaning, closing, pc, holds, leaked>>

\* One of them fails: Promise.all rejects and init() throws, but the others
\* stay in flight and still add their sessions when they complete.
InitFails ==
    /\ initPending > 0
    /\ initPending' = initPending - 1
    /\ phase' = IF phase = "initializing" THEN "initFailed" ELSE phase
    /\ UNCHANGED <<poolVars, conn, cleaning, closing, pc, holds, leaked>>

-----------------------------------------------------------------------------
(* getSession() *)

\* A client calls getSession.  Callers await init() first; nothing in the
\* code stops them from calling during or after close().
MayCall(c) ==
    /\ pc[c] = "out"
    /\ phase \notin {"initializing", "initFailed"}
    /\ initPending = 0
    /\ Len(waitQueue) < MaxQueue

\* The front of idle is taken; an open session is returned at once.
PeekIdle == idle                                        \* mutant: not removed
IdleRest == Tail(idle)

Reuse(c) ==
    /\ MayCall(c)
    /\ idle # <<>> /\ IsOpen(Head(idle))
    /\ idle' = IdleRest
    /\ active' = active \cup {Head(idle)}
    /\ pc' = [pc EXCEPT ![c] = "using"]
    /\ holds' = [holds EXCEPT ![c] = Head(idle)]
    /\ UNCHANGED <<phase, initPending, pool, inUse, waitQueue, conn, cleaning, closing, leaked>>

\* No usable session at the front: a closed one has been taken out of idle and
\* out of the pool (only the front one; the rest of idle is not looked at).
StaleHead == idle # <<>> /\ ~ IsOpen(Head(idle))
IdleLeft  == IF StaleHead THEN IdleRest ELSE idle
PoolLeft  == IF StaleHead THEN pool \ {Head(idle)} ELSE pool
NoneReady == idle = <<>> \/ StaleHead

\* There is room: start a connection.  Nothing is reserved while it opens.
CreateNew(c) ==
    /\ MayCall(c)
    /\ NoneReady
    /\ HasRoom(PoolLeft)
    /\ pool' = PoolLeft
    /\ idle' = IdleLeft
    /\ pc' = [pc EXCEPT ![c] = "creating"]
    /\ UNCHANGED <<phase, initPending, active, inUse, waitQueue, conn, cleaning, closing,
                   holds, leaked>>

\* The pool is full: wait.
Enqueue(c) ==
    /\ MayCall(c)
    /\ NoneReady
    /\ ~ HasRoom(PoolLeft)
    /\ pool' = PoolLeft
    /\ idle' = IdleLeft
    /\ waitQueue' = Append(waitQueue, c)
    /\ pc' = [pc EXCEPT ![c] = "waiting"]
    /\ UNCHANGED <<phase, initPending, active, inUse, conn, cleaning, closing, holds, leaked>>

\* What is left of idle when a created session has been pushed and getSession
\* shifts "it" off again: the shift takes the front.
NoShift(s) == Append(idle, s)                           \* mutant: shift forgotten
AfterCreate(s) == Tail(Append(idle, s))

\* The connection is open: createSession pushes the session to pool and idle,
\* and getSession goes on in the same turn.
CreateDone(c) ==
    /\ pc[c] = "creating"
    /\ \E s \in Sessions :
        /\ Fresh(s)
        /\ conn' = [conn EXCEPT ![s] = "open"]
        /\ pool' = pool \cup {s}
        /\ idle' = AfterCreate(s)
        /\ active' = active \cup {s}
        /\ inUse' = inUse \cup {s}
        /\ holds' = [holds EXCEPT ![c] = s]
    /\ pc' = [pc EXCEPT ![c] = "using"]
    /\ UNCHANGED <<phase, initPending, waitQueue, cleaning, closing, leaked>>

\* The connection could not be opened: getSession rejects.
CreateFails(c) ==
    /\ pc[c] = "creating"
    /\ pc' = [pc EXCEPT ![c] = "out"]
    /\ UNCHANGED <<phase, initPending, poolVars, conn, cleaning, closing, holds, leaked>>

\* The timer of a waiting call is armed until the call is served.
TimerIfQueued(c) == pc[c] = "waiting" /\ Contains(waitQueue, c)  \* mutant
TimerArmed(c) == pc[c] = "waiting"

\* waitTimeout fires: getSession rejects.  The entry of the caller stays in
\* waitQueue: the timer looks for `resolve`, but the queue holds a closure
\* around it, so indexOf finds nothing to remove.
Timeout(c) ==
    /\ "timeout" \in Faults
    /\ TimerArmed(c)
    /\ pc' = [pc EXCEPT ![c] = "out"]
    /\ waitQueue' = [i \in DOMAIN waitQueue |->
                        IF waitQueue[i] = c THEN Expired ELSE waitQueue[i]]
    /\ UNCHANGED <<phase, initPending, pool, idle, active, inUse, conn, cleaning, closing,
                   holds, leaked>>

-----------------------------------------------------------------------------
(* releaseSession(), called once by the holder of a session *)

\* A session the pool no longer owns is ignored; it wakes nobody.
ReleaseForeign(c) ==
    /\ pc[c] = "using"
    /\ holds[c] \notin pool
    /\ pc' = [pc EXCEPT ![c] = "out"]
    /\ holds' = [holds EXCEPT ![c] = NoSession]
    /\ UNCHANGED <<phase, initPending, poolVars, conn, cleaning, closing, leaked>>

NobodyElse == Len(waitQueue) <= 1                       \* mutant: off by one
NobodyWaits == waitQueue = <<>>

\* Nobody waits: the session goes to the back of idle.
ReleaseToIdle(c) ==
    /\ pc[c] = "using"
    /\ holds[c] \in pool
    /\ NobodyWaits
    /\ active' = active \ {holds[c]}
    /\ inUse' = inUse \ {holds[c]}
    /\ idle' = Append(idle, holds[c])
    /\ pc' = [pc EXCEPT ![c] = "out"]
    /\ holds' = [holds EXCEPT ![c] = NoSession]
    /\ UNCHANGED <<phase, initPending, pool, waitQueue, conn, cleaning, closing, leaked>>

PeekWaiter == waitQueue                                 \* mutant: not removed
WaitersLeft == Tail(waitQueue)

NotReadded(s) == active \ {s}                           \* mutant: add forgotten
ActiveHandedOver(s) == active \cup {s}

\* The session goes to the front waiter, whether or not it is open and whether
\* or not that waiter has timed out (its closure then resolves a promise that
\* was already rejected, and nobody will ever release the session).
ReleaseToWaiter(c) ==
    /\ pc[c] = "using"
    /\ holds[c] \in pool
    /\ ~ NobodyWaits
    /\ waitQueue' = WaitersLeft
    /\ active' = ActiveHandedOver(holds[c])
    /\ inUse' = inUse \cup {holds[c]}
    /\ \/ /\ Head(waitQueue) # Expired
          /\ pc' = [pc EXCEPT ![c] = "out", ![Head(waitQueue)] = "using"]
          /\ holds' = [holds EXCEPT ![c] = NoSession, ![Head(waitQueue)] = holds[c]]
          /\ UNCHANGED leaked
       \/ /\ Head(waitQueue) = Expired
          /\ pc' = [pc EXCEPT ![c] = "out"]
          /\ holds' = [holds EXCEPT ![c] = NoSession]
          /\ leaked' = leaked + 1
    /\ UNCHANGED <<phase, initPending, pool, idle, conn, cleaning, closing>>

Release(c) == ReleaseForeign(c) \/ ReleaseToIdle(c) \/ ReleaseToWaiter(c)

-----------------------------------------------------------------------------
(* The environment and the maintenance of the pool *)

\* The socket of a session emits "error" or "close".
Lose(s) ==
    /\ "loss" \in Faults
    /\ IsOpen(s)
    /\ conn' = [conn EXCEPT ![s] = "closed"]
    /\ UNCHANGED <<phase, initPending, poolVars, cleaning, closing, pc, holds, leaked>>

\* pool.length > minSize, evaluated for each entry before anything is removed.
AboveMin == Cardinality(pool) > MinPoolSize

\* cleanupIdleSessions, run by the 30 s interval: the idle sessions not used
\* for maxIdleTime (any of them, time is abstracted) get a close() each.  They
\* stay in idle, and open, until it returns.  A close() takes 5 s at most, so a
\* run ends before the next one starts.
CleanupTick ==
    /\ "cleanup" \in Faults
    /\ phase = "ready"
    /\ \A s \in Sessions : cleaning[s] = 0
    /\ AboveMin
    /\ \E R \in (SUBSET ToSet(idle)) \ {{}} :
          cleaning' = [s \in Sessions |->
                          IF s \in R
                            THEN Cardinality({i \in DOMAIN idle : idle[i] = s})
                            ELSE 0]
    /\ UNCHANGED <<phase, initPending, poolVars, conn, closing, pc, holds, leaked>>

\* A close() always ends with the connection down, also when it times out.
CloseSwallowed(s) == conn                               \* mutant: stays open
CloseReturns(s) == [conn EXCEPT ![s] = "closed"]

\* The close() of a cleaned session returns: only now does it leave the pool
\* and idle, wherever it has gone in the meantime.
Cleaned(s) ==
    /\ cleaning[s] > 0
    /\ cleaning' = [cleaning EXCEPT ![s] = @ - 1]
    /\ conn' = CloseReturns(s)
    /\ pool' = pool \ {s}
    /\ \/ ~ Contains(idle, s) /\ UNCHANGED idle
       \/ \E i \in DOMAIN idle :
             /\ idle[i] = s
             /\ \A j \in 1..(i - 1) : idle[j] # s
             /\ idle' = RemoveAt(idle, i)
    /\ UNCHANGED <<phase, initPending, active, inUse, waitQueue, closing, pc, holds, leaked>>

\* The end of close(): all containers are emptied, waiters are not told.
ClearPool ==
    /\ phase' = "closed"
    /\ pool' = {}
    /\ idle' = <<>>
    /\ active' = {}
    /\ waitQueue' = <<>>
    /\ UNCHANGED inUse

\* close(): the interval is stopped and every session in the pool gets a close().
CloseStart ==
    /\ "close" \in Faults
    /\ phase \in {"ready", "initFailed"}
    /\ closing' = pool
    /\ \/ pool # {} /\ phase' = "closing" /\ UNCHANGED poolVars
       \/ pool = {} /\ ClearPool
    /\ UNCHANGED <<initPending, conn, cleaning, pc, holds, leaked>>

\* One of these close() calls returns; the last one lets close() go on.
CloseSession(s) ==
    /\ s \in closing
    /\ closing' = closing \ {s}
    /\ conn' = CloseReturns(s)
    /\ \/ closing # {s} /\ UNCHANGED <<phase, poolVars>>
       \/ closing = {s} /\ ClearPool
    /\ UNCHANGED <<initPending, cleaning, pc, holds, leaked>>

-----------------------------------------------------------------------------
Next ==
    \/ InitCreated
    \/ InitFails
    \/ \E c \in Clients :
        \/ Reuse(c)
        \/ CreateNew(c)
        \/ Enqueue(c)
        \/ CreateDone(c)
        \/ CreateFails(c)
        \/ Timeout(c)
        \/ ReleaseForeign(c)
        \/ ReleaseToIdle(c)
        \/ ReleaseToWaiter(c)
    \/ \E s \in Sessions : Lose(s) \/ Cleaned(s) \/ CloseSession(s)
    \/ CleanupTick
    \/ CloseStart

Spec == Init /\ [][Next]_vars

\* A holder releases its session in the end (its request is answered or fails),
\* a connection attempt succeeds or fails (both calls it makes have a 30 s
\* timer), and the timer of a waiter fires.  Callers need not call again, and
\* no fault has to happen.
Fairness ==
    /\ WF_vars(InitCreated \/ InitFails)
    /\ \A c \in Clients :
        /\ WF_vars(Release(c))
        /\ WF_vars(CreateDone(c) \/ CreateFails(c))
        /\ WF_vars(Timeout(c))

FairSpec == Spec /\ Fairness

-----------------------------------------------------------------------------
(* Properties that hold whatever happens *)

\* The size check of getSession (BaseSessionPool.ts:257) and the creation it
\* allows are separated by an await, so maxPoolSize can be exceeded, but by
\* less than the number of concurrent callers.
CapacityBound ==
    Cardinality(pool) + Cardinality(Creating) + initPending
        <= MaxPoolSize - 1 + Cardinality(Clients)

\* Every waitQueue entry of a caller that still waits belongs to it, and a
\* caller has one entry at most: a release never resolves a caller that is
\* elsewhere (BaseSessionPool.ts:317-323).
WaitersWait ==
    \A i \in DOMAIN waitQueue : waitQueue[i] # Expired =>
        /\ pc[waitQueue[i]] = "waiting"
        /\ \A j \in DOMAIN waitQueue : waitQueue[j] = waitQueue[i] => i = j

\* Until close() is called, no open connection is forgotten: each is in the
\* pool, where cleanup and close() can find it, however cleanups, losses and
\* hand-overs mix (sessions are dropped at BaseSessionPool.ts:250 and 356 only).
OpenIsPooled ==
    phase \notin {"closing", "closed"} => \A s \in Sessions : IsOpen(s) => s \in pool

-----------------------------------------------------------------------------
(* Properties that hold until the first connection is lost, the first      *)
(* cleanup runs or close() is called                                       *)

Undisturbed ==
    /\ phase \notin {"closing", "closed"}
    /\ \A s \in Sessions : conn[s] # "closed" /\ cleaning[s] = 0

\* Callers wait only while there is neither an idle session nor room.
NothingWasted ==
    waitQueue # <<>> => idle = <<>> /\ Cardinality(pool) >= MaxPoolSize

\* A session becomes idle only when nobody waits, and getSession queues only
\* when there is neither an idle session nor room: no wakeup is lost
\* (BaseSessionPool.ts:235, 257, 317).
NoLostWakeup == Undisturbed => NothingWasted

\* idle entries, users and sessions given to the dead add up to the pool.
PermitsAddUp == Len(idle) + Cardinality(Using) + leaked = Cardinality(pool)

\* Every session stands for one permit, which is in idle, with a client or
\* lost to a dead waiter.  The shift at BaseSessionPool.ts:264 may take the
\* wrong session off idle, but never the wrong number of them.
PermitsConserved == Undisturbed => PermitsAddUp

\* Nobody overtakes the queue: while callers wait, a new caller is never
\* served and never starts a connection (BaseSessionPool.ts:233-271).
QueueUp ==
    \A c \in Clients :
        Undisturbed /\ waitQueue # <<>> /\ pc[c] = "out" => pc'[c] \in {"out", "waiting"}
NoBarging == [][QueueUp]_vars

\* What the promise of SessionAllocator is about: idle sessions are the free
\* permits, the callers in waitQueue wait in its order, and what is left there of
\* callers that timed out is dead.
Waiting == {c \in Clients : Contains(waitQueue, c)}
Earlier ==
    {p \in Waiting \X Waiting :
        \E i, j \in DOMAIN waitQueue : i < j /\ p = <<waitQueue[i], waitQueue[j]>>}
Dead    == {i \in DOMAIN waitQueue : waitQueue[i] = Expired}

Allocator == INSTANCE SessionAllocator WITH
    up      <- Undisturbed,
    free    <- IF Undisturbed THEN Len(idle) ELSE 0,
    users   <- IF Undisturbed THEN Using ELSE {},
    waiting <- IF Undisturbed THEN Waiting ELSE {},
    before  <- IF Undisturbed THEN Earlier ELSE {},
    dead    <- IF Undisturbed THEN Cardinality(Dead) ELSE 0,
    lost    <- IF Undisturbed THEN leaked ELSE 0

\* The pool is such an allocator: every turn of getSession, releaseSession, init
\* and the wait timer is one of its steps or none (BaseSessionPool.ts:228-333).
ImplementsAllocator == Allocator!AllocatorSpec

-----------------------------------------------------------------------------
(* The same for a pool that never grows after init (MinPoolSize =          *)
(* MaxPoolSize): without the creations of getSession, sessions do not mix. *)

\* A session is with one client only, and is not idle meanwhile
\* (BaseSessionPool.ts:235-239, 309-331).
Exclusive ==
    Undisturbed => \A c \in Using :
        /\ \A d \in Using : holds[c] = holds[d] => c = d
        /\ ~ Contains(idle, holds[c])

\* activeSessions is exact: what it holds is with a client or lost to a dead
\* waiter, and nothing else is (BaseSessionPool.ts:239, 310, 321).
ActiveExact ==
    Undisturbed =>
        /\ {holds[c] : c \in Using} \subseteq active
        /\ Cardinality(active) = Cardinality(Using) + leaked

-----------------------------------------------------------------------------
(* Liveness *)

\* A call of getSession settles: the timer ends what no release ends, also when
\* close() has emptied the queue (BaseSessionPool.ts:279-286, 481).
EveryCallSettles ==
    \A c \in Clients : pc[c] \in {"creating", "waiting"} ~> pc[c] \in {"using", "out"}

\* Without timeouts, and while sessions stay up, a waiting caller is served.
WaiterServed == \A c \in Clients : pc[c] = "waiting" ~> pc[c] = "using"

-----------------------------------------------------------------------------
(* What the documentation promises and the code does not do *)

\* "maxPoolSize: Maximum number of sessions in pool".
MaxSizeKept == Cardinality(pool) <= MaxPoolSize

\* "Get number of active (in-use) sessions": somebody uses each of them.
ActiveIsHeld == active \subseteq {holds[c] : c \in Using}
=============================================================================

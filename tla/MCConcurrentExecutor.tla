------------------------- MODULE MCConcurrentExecutor -------------------------
(***************************************************************************)
(* The bounded resources of the client, side by side: a behaviour is a     *)
(* call of ConcurrentExecutor, calls of ParallelPool that share a pool,    *)
(* tasks that share a Semaphore, callers of an elastic SessionPool without *)
(* faults, or calls of RedirectCache.  The variables of the other parts    *)
(* stay in an initial state.                                               *)
(***************************************************************************)
EXTENDS ConcurrentExecutor, ParallelPool, Semaphore, RedirectCache

\* The constants and variables of SessionPool.
CONSTANTS Clients, Sessions, MaxPoolSize, MinPoolSize, MaxQueue, Faults, Expired, NoSession
VARIABLES phase, initPending, pool, idle, active, inUse, waitQueue, conn, cleaning, closing, pc,
          holds, leaked

Pool == INSTANCE SessionPool

sessionPoolVars == <<phase, initPending, pool, idle, active, inUse, waitQueue, conn, cleaning,
                     closing, pc, holds, leaked>>

VARIABLE part

\* Three calls for the two sessions of a pool.  The first wants both and has more
\* items; the second wants more than there are; the third needs one.
ItemCounts == <<3, 3, 1>>
Widths     == <<2, 3, 3>>

SumInit ==
    /\ part \in {"executor", "parallel", "semaphore", "pool", "cache"}
    /\ Init /\ (part # "executor" => stopOnError = FALSE)
    /\ ParallelInit /\ (part # "parallel" => kind = [k \in Calls |-> "insert"])
    /\ SemaphoreInit
    /\ Pool!Init
    /\ CacheInit

sumVars == <<part, vars, parallelVars, semaphoreVars, sessionPoolVars, cache>>

ExecutorStep(A) ==
    /\ part = "executor" /\ A
    /\ UNCHANGED <<part, parallelVars, semaphoreVars, sessionPoolVars, cache>>
ParallelStep(A) ==
    part = "parallel" /\ A /\ UNCHANGED <<part, vars, semaphoreVars, sessionPoolVars, cache>>
SemaphoreStep(A) ==
    part = "semaphore" /\ A /\ UNCHANGED <<part, vars, parallelVars, sessionPoolVars, cache>>
PoolStep(A) ==
    part = "pool" /\ A /\ UNCHANGED <<part, vars, parallelVars, semaphoreVars, cache>>
CacheStep ==
    /\ part = "cache" /\ CacheNext
    /\ UNCHANGED <<part, vars, parallelVars, semaphoreVars, sessionPoolVars>>

SumNext ==
    \/ ExecutorStep(Next) \/ ParallelStep(ParallelNext) \/ SemaphoreStep(SemaphoreNext)
    \/ PoolStep(Pool!Next) \/ CacheStep

\* Every operation settles, the continuations run and the wait timers fire; the
\* tasks inside a semaphore come out; sessions are released and creations end, as
\* in Pool!Fairness.
SumFairness ==
    /\ \A w \in Workers : WF_sumVars(ExecutorStep(Succeed(w) \/ Fail(w)))
    /\ WF_sumVars(ExecutorStep(NextBatch \/ Return))
    /\ \A k \in Calls : /\ WF_sumVars(ParallelStep(CallSteps(k)))
                        /\ WF_sumVars(ParallelStep(AcquisitionFails(k)))
    /\ \A t \in Tasks : WF_sumVars(SemaphoreStep(Release(t)))
    /\ WF_sumVars(PoolStep(Pool!InitCreated \/ Pool!InitFails))
    /\ \A c \in Clients : /\ WF_sumVars(PoolStep(Pool!Release(c)))
                          /\ WF_sumVars(PoolStep(Pool!CreateDone(c) \/ Pool!CreateFails(c)))

SumSpec == SumInit /\ [][SumNext]_sumVars /\ SumFairness

-----------------------------------------------------------------------------
\* The call of the executor returns when every operation settles
\* (ConcurrentExecutor.ts:122-155, 205-217).
ExecutorReturns == part = "executor" => Returns

\* Every parallel call comes to an end (BaseSessionPool.ts:270, 585-589).
ParallelCallsEnd == part = "parallel" => CallsEnd

\* Without timeouts, and while sessions stay up, a waiting caller is served,
\* however creations, reuse and hand-overs interleave (BaseSessionPool.ts:228-333).
WaiterServed == Pool!WaiterServed
=============================================================================

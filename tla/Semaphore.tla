------------------------------ MODULE Semaphore ------------------------------
(***************************************************************************)
(* createSemaphore of ConcurrentExecutor.ts: at most Limit of the tasks    *)
(* are between acquire() and release().  A released slot is passed to the  *)
(* task that has waited longest.                                           *)
(***************************************************************************)
EXTENDS Integers, Sequences, FiniteSets, SequencesExt

CONSTANTS
    Tasks,  \* callers, each with at most one acquire() at a time
    Limit   \* the argument of createSemaphore

ASSUME LimitAssumption == Limit \in Nat
ASSUME TasksAssumption == IsFiniteSet(Tasks)

VARIABLES
    running,   \* slots taken
    waiters,   \* queue: tasks waiting for a slot
    inside     \* tasks between acquire() and release()

semaphoreVars == <<running, waiters, inside>>

SemaphoreInit ==
    /\ running = 0
    /\ waiters = <<>>
    /\ inside = {}

Waits(t) == \E i \in DOMAIN waiters : waiters[i] = t

Acquire(t) ==
    /\ t \notin inside /\ ~ Waits(t)
    /\ \/ /\ running < Limit
          /\ running' = running + 1
          /\ inside' = inside \cup {t}
          /\ UNCHANGED waiters
       \/ /\ running >= Limit
          /\ waiters' = Append(waiters, t)
          /\ UNCHANGED <<running, inside>>

\* The slots taken after a release: one less, unless it is passed on.
AlwaysFreed == running - 1                              \* mutant: freed and passed on
AfterRelease == IF waiters = <<>> THEN running - 1 ELSE running

\* Which waiter gets the slot, as a position in the queue.
Newest == Len(waiters)                                  \* mutant: pop for shift
Longest == 1

Release(t) ==
    /\ t \in inside
    /\ running' = AfterRelease
    /\ \/ /\ waiters = <<>>
          /\ inside' = inside \ {t}
          /\ UNCHANGED waiters
       \/ /\ waiters # <<>>
          /\ inside' = (inside \ {t}) \cup {waiters[Longest]}
          /\ waiters' = RemoveAt(waiters, Longest)

SemaphoreNext == \E t \in Tasks : Acquire(t) \/ Release(t)

SemaphoreSpec == SemaphoreInit /\ [][SemaphoreNext]_semaphoreVars

-----------------------------------------------------------------------------
\* The count is the number of tasks inside, at most Limit, and a task waits only
\* while all slots are taken: passing a slot on loses and duplicates none
\* (ConcurrentExecutor.ts:305-326).
SemaphoreExact ==
    /\ running = Cardinality(inside) /\ running <= Limit
    /\ waiters # <<>> => running = Limit

\* Every task that waits gets in, when those inside release: the queue is fair
\* (ConcurrentExecutor.ts:312-320).
Admitted == \A t \in Tasks : Waits(t) ~> t \in inside
=============================================================================

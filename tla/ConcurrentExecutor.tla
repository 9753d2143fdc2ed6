-------------------------- MODULE ConcurrentExecutor --------------------------
(***************************************************************************)
(* executeConcurrent and executeBatched of ConcurrentExecutor.ts.  A call  *)
(* of executeBatched runs executeConcurrent on one slice of the items      *)
(* after the other; executeConcurrent itself is the case of one batch.     *)
(*                                                                         *)
(* The workers of a batch share itemIndex.  They are asynchronous          *)
(* functions: an action is the settling of one operation, with all that    *)
(* its worker does up to the next await.  Items are numbered from 1 in the *)
(* order of the input.                                                     *)
(***************************************************************************)
EXTENDS Integers, FiniteSets, FiniteSetsExt

CONSTANTS
    N,            \* number of items
    Concurrency,  \* options.concurrency
    BatchSize     \* batchSize; N or more for executeConcurrent

ASSUME SizesAssumption == /\ N \in Nat \ {0}
                          /\ Concurrency \in Nat \ {0}
                          /\ BatchSize \in Nat \ {0}

VARIABLES
    stopOnError,  \* options.stopOnError, given by the caller
    first,        \* first item of the current batch
    itemIndex,    \* items handed out so far, counted over all batches
    working,      \* working[w]: the item worker w awaits, 0 when it has ended
    done,         \* items whose operation succeeded: the filled results
    failed,       \* items whose operation failed: the indices in errors
    shouldStop,   \* shouldStop of the current batch
    reported,     \* totalSuccess: what the finished batches counted as success
    returned      \* the call has returned

vars == <<stopOnError, first, itemIndex, working, done, failed, shouldStop, reported, returned>>

Items   == 1..N
Workers == 1..Concurrency

TypeOK ==
    /\ stopOnError \in BOOLEAN
    /\ first \in 1..(N + BatchSize)
    /\ itemIndex \in 0..N
    /\ working \in [Workers -> 0..N]
    /\ done \subseteq Items
    /\ failed \subseteq Items
    /\ shouldStop \in BOOLEAN
    /\ reported \in 0..N
    /\ returned \in BOOLEAN

\* The last item of the batch that starts with item f.
LastOf(f) == Min({f + BatchSize - 1, N})
Batch == first..LastOf(first)

\* concurrency = Math.min(options.concurrency, items.length): the workers of a
\* batch that starts with item f run one after the other up to their first
\* await, so worker w gets the w-th item.
Started(f) == Min({Concurrency, LastOf(f) - f + 1})
StartWorkers(f) == [w \in Workers |-> IF w <= Started(f) THEN f + w - 1 ELSE 0]

Init ==
    /\ stopOnError \in BOOLEAN
    /\ first = 1
    /\ working = StartWorkers(1)
    /\ itemIndex = Started(1)
    /\ done = {}
    /\ failed = {}
    /\ shouldStop = FALSE
    /\ reported = 0
    /\ returned = FALSE

-----------------------------------------------------------------------------
\* The loop condition: may a worker take another item?
MoreIgnoresStop(stop) == itemIndex < LastOf(first)      \* mutant: stop ignored
MoreLax(stop) == ~ stop /\ itemIndex <= LastOf(first)   \* mutant: off by one
More(stop) == ~ stop /\ itemIndex < LastOf(first)

\* const idx = itemIndex++, as an item number.
SameAgain == itemIndex                                  \* mutant: off by one
NextItem == itemIndex + 1

\* Worker w goes round its loop: it takes the next item or ends.
Loop(w, stop) ==
    \/ /\ More(stop)
       /\ itemIndex' = itemIndex + 1
       /\ working' = [working EXCEPT ![w] = NextItem]
    \/ /\ ~ More(stop)
       /\ working' = [working EXCEPT ![w] = 0]
       /\ UNCHANGED itemIndex

\* The operation of worker w succeeds.
Succeed(w) ==
    /\ working[w] # 0
    /\ done' = done \cup {working[w]}
    /\ Loop(w, shouldStop)
    /\ UNCHANGED <<stopOnError, first, failed, shouldStop, reported, returned>>

\* It fails: with stopOnError its worker ends and tells the others to.
Fail(w) ==
    /\ working[w] # 0
    /\ failed' = failed \cup {working[w]}
    /\ shouldStop' = (shouldStop \/ stopOnError)
    /\ Loop(w, shouldStop')
    /\ UNCHANGED <<stopOnError, first, done, reported, returned>>

\* successCount of a batch: items.length - errors.length.
ErrorsIgnored == Cardinality(Batch)                     \* mutant: errors not taken off
BatchSuccess == Cardinality(Batch) - Cardinality(failed \cap Batch)

\* All workers of the batch have ended.
FirstEnded == \E w \in Workers : working[w] = 0         \* mutant: race, not all
AllSettled == Batch \subseteq done \cup failed           \* mutant: items, not workers
Ended == \A w \in Workers : working[w] = 0

\* executeBatched goes on with the next batch.
LastBatch == LastOf(first) = N
Broken == stopOnError /\ failed \cap Batch # {}

NextBatch ==
    /\ Ended /\ ~ returned
    /\ ~ LastBatch /\ ~ Broken
    /\ first' = first + BatchSize
    /\ working' = StartWorkers(first + BatchSize)
    /\ itemIndex' = itemIndex + Started(first + BatchSize)
    /\ shouldStop' = FALSE
    /\ reported' = reported + BatchSuccess
    /\ UNCHANGED <<stopOnError, done, failed, returned>>

\* It returns after the last batch, or with stopOnError after a failed one.
Return ==
    /\ Ended /\ ~ returned
    /\ LastBatch \/ Broken
    /\ returned' = TRUE
    /\ reported' = reported + BatchSuccess
    /\ UNCHANGED <<stopOnError, first, itemIndex, working, done, failed, shouldStop>>

Next ==
    \/ \E w \in Workers : Succeed(w) \/ Fail(w)
    \/ NextBatch
    \/ Return

Spec == Init /\ [][Next]_vars

\* Every operation settles, and the caller of the workers goes on.
Fairness ==
    /\ \A w \in Workers : WF_vars(Succeed(w) \/ Fail(w))
    /\ WF_vars(NextBatch \/ Return)

FairSpec == Spec /\ Fairness

-----------------------------------------------------------------------------
InFlight == {working[w] : w \in Workers} \ {0}

\* Sharing itemIndex between the workers hands every item out once and leaves
\* none out: those handed out are in flight with one worker, done or failed
\* (ConcurrentExecutor.ts:116-130, 143).
EachItemOnce ==
    /\ done \cup failed \cup InFlight = 1..itemIndex
    /\ done \cap failed = {} /\ (done \cup failed) \cap InFlight = {}
    /\ \A v, w \in Workers : working[v] = working[w] /\ v # w => working[v] = 0

\* "ensuring ordering between batches": an operation runs only when those of all
\* earlier batches have settled (ConcurrentExecutor.ts:155, 213-221).
BatchOrder == InFlight # {} => 1..(first - 1) \subseteq done \cup failed

\* A call that was not stopped has settled all items and counts them right
\* (ConcurrentExecutor.ts:162, 225, 243).
FullReport ==
    returned /\ (stopOnError => failed = {}) =>
        done \cup failed = Items /\ reported = Cardinality(done)

\* From the failure of an operation under stopOnError on, nothing new is started,
\* in this batch or a later one (ConcurrentExecutor.ts:125, 144-147, 242-244).
StopsStarting ==
    [][stopOnError /\ failed' # {} => itemIndex' = itemIndex]_vars

\* The call returns when every operation settles (ConcurrentExecutor.ts:122-155, 205-217).
Returns == <>returned

\* "Number of successful operations" in the result.
SuccessCountExact == returned => reported = Cardinality(done)
=============================================================================

---------------------------- MODULE ParallelPool ----------------------------
(***************************************************************************)
(* insertTabletsParallel and executeParallel of BaseSessionPool.ts: a call *)
(* first takes its sessions from the pool, one after the other, holding    *)
(* those it has, and then runs one worker per session over its items.      *)
(*                                                                         *)
(* Several calls share a pool that has grown to its size and loses no      *)
(* connection; the sessions are counted, as SessionAllocator does.  The    *)
(* queue is concrete: an entry whose call gave up stays                    *)
(* (BaseSessionPool.ts:277-291) and swallows the session it is given.      *)
(***************************************************************************)
EXTENDS Integers, Sequences, FiniteSets, FiniteSetsExt, SequencesExt

CONSTANTS
    Calls,     \* concurrent calls
    ItemCount, \* ItemCount[k]: length of the items of call k
    Width,     \* Width[k]: options.concurrency of call k
    Permits,   \* sessions of the pool
    GaveUp     \* the entry of a call that gave up

\* An empty list returns at once, and options.concurrency || maxPoolSize || 10 is
\* not 0.
ASSUME CallsAssumption   == IsFiniteSet(Calls) /\ GaveUp \notin Calls
ASSUME OptionsAssumption == /\ ItemCount \in [Calls -> Nat \ {0}]
                            /\ Width \in [Calls -> Nat \ {0}]
ASSUME PermitsAssumption == Permits \in Nat

VARIABLES
    kind,      \* kind[k]: insertTabletsParallel, executeParallel with stopOnError or without
    stage,     \* stage[k]: where the call is
    held,      \* held[k]: how many sessions it has
    free,      \* idle sessions
    entries,   \* this.waitQueue
    taken,     \* taken[k]: items its workers have taken
    busy,      \* busy[k]: items in flight
    settled,   \* settled[k]: items whose operation has ended
    errors,    \* errors[k]: those of them that failed
    halted     \* halted[k]: shouldStop

parallelVars == <<kind, stage, held, free, entries, taken, busy, settled, errors, halted>>

Kinds == {"insert", "execute", "stopping"}

Wanted(k) == Min({Width[k], ItemCount[k]})

ParallelInit ==
    /\ kind \in [Calls -> Kinds]
    /\ stage = [k \in Calls |-> "acquiring"]
    /\ held = [k \in Calls |-> 0]
    /\ free = Permits
    /\ entries = <<>>
    /\ taken = [k \in Calls |-> 0]
    /\ busy = [k \in Calls |-> {}]
    /\ settled = [k \in Calls |-> {}]
    /\ errors = [k \in Calls |-> {}]
    /\ halted = [k \in Calls |-> FALSE]

-----------------------------------------------------------------------------
(* Sessions *)

\* sessions.push(await this.getSession())
Obtain(k) ==
    /\ stage[k] = "acquiring" /\ held[k] < Wanted(k)
    /\ \/ /\ free > 0
          /\ free' = free - 1
          /\ held' = [held EXCEPT ![k] = @ + 1]
          /\ UNCHANGED <<stage, entries>>
       \/ /\ free = 0
          /\ entries' = Append(entries, k)
          /\ stage' = [stage EXCEPT ![k] = "waiting"]
          /\ UNCHANGED <<free, held>>
    /\ UNCHANGED <<kind, taken, busy, settled, errors, halted>>

\* releaseSession for all n sessions of call k, in one turn: they go to the first
\* n entries of the queue, and to idle when there are fewer.
ReleaseAll(k, n, queue, outcome) ==
    LET served == Min({n, Len(queue)})
        winners == {queue[i] : i \in 1..served} \ {GaveUp}
    IN  /\ entries' = SubSeq(queue, served + 1, Len(queue))
        /\ free' = free + n - served
        /\ held' = [c \in Calls |->
                       IF c \in winners THEN held[c] + 1 ELSE IF c = k THEN 0 ELSE held[c]]
        /\ stage' = [c \in Calls |->
                        IF c \in winners THEN "acquiring" ELSE IF c = k THEN outcome ELSE stage[c]]

\* How many sessions a call gives back when it cannot get another one.
KeepsThem(k) == 0                                       \* mutant: not released
GivesBack(k) == held[k]

\* waitTimeout passes for the session the call waits for.
Unbounded(k) == stage[k] = "waiting" /\ held[k] = 0     \* mutant: no timer while holding
Impatient(k) == stage[k] = "waiting"

AcquisitionFails(k) ==
    /\ Impatient(k)
    /\ ReleaseAll(k, GivesBack(k), [i \in DOMAIN entries |->
                                       IF entries[i] = k THEN GaveUp ELSE entries[i]], "gaveup")
    /\ UNCHANGED <<kind, taken, busy, settled, errors, halted>>

-----------------------------------------------------------------------------
(* Workers *)

\* All sessions are there: each worker takes an item.
StartWorking(k) ==
    /\ stage[k] = "acquiring" /\ held[k] = Wanted(k)
    /\ stage' = [stage EXCEPT ![k] = "working"]
    /\ taken' = [taken EXCEPT ![k] = held[k]]
    /\ busy' = [busy EXCEPT ![k] = 1..held[k]]
    /\ UNCHANGED <<kind, held, free, entries, settled, errors, halted>>

\* The loop condition of a worker, in the state after its operation.
StopIgnored(k) == taken[k] < ItemCount[k]               \* mutant: shouldStop not read
GoesOn(k) == ~ halted'[k] /\ taken[k] < ItemCount[k]

\* Operation i of call k ends; its worker takes the next item or ends.
Settle(k, i) ==
    /\ i \in busy[k]
    /\ settled' = [settled EXCEPT ![k] = @ \cup {i}]
    /\ \/ UNCHANGED <<errors, halted>>
       \/ /\ errors' = [errors EXCEPT ![k] = @ \cup {i}]
          /\ halted' = [halted EXCEPT ![k] = @ \/ kind[k] = "stopping"]
    /\ \/ /\ GoesOn(k)
          /\ taken' = [taken EXCEPT ![k] = @ + 1]
          /\ busy' = [busy EXCEPT ![k] = (@ \ {i}) \cup {taken[k] + 1}]
       \/ /\ ~ GoesOn(k)
          /\ busy' = [busy EXCEPT ![k] = @ \ {i}]
          /\ UNCHANGED taken
    /\ UNCHANGED <<kind, stage, held, free, entries>>

\* All workers have ended: the finally block, then the report.
AnyDone(k) == settled[k] # {}                           \* mutant: race, not all
AllDone(k) == busy[k] = {}

FinishCall(k) ==
    /\ stage[k] = "working" /\ AllDone(k)
    /\ ReleaseAll(k, held[k], entries,
                  IF errors[k] # {} /\ kind[k] # "execute" THEN "threw" ELSE "returned")
    /\ UNCHANGED <<kind, taken, busy, settled, errors, halted>>

CallSteps(k) ==
    Obtain(k) \/ StartWorking(k) \/ FinishCall(k) \/ \E i \in 1..ItemCount[k] : Settle(k, i)

ParallelNext == \E k \in Calls : CallSteps(k) \/ AcquisitionFails(k)

ParallelSpec == ParallelInit /\ [][ParallelNext]_parallelVars

-----------------------------------------------------------------------------
Over(k) == stage[k] \in {"gaveup", "threw", "returned"}

\* When all calls are over the sessions are back, but for at most one per call
\* that gave up: a call that fails half-way neither keeps those it had nor gives
\* one back twice (BaseSessionPool.ts:585-596, 622-627, 703-711, 737-741).
SessionsBack ==
    (\A k \in Calls : Over(k)) =>
        /\ free <= Permits
        /\ free + Cardinality({k \in Calls : stage[k] = "gaveup"}) >= Permits

\* The workers of a call share its index without a gap or an item done twice, a
\* call that ends has nothing in flight and, unless it was stopped, has tried
\* every item; one that got no sessions has tried none, and from the failure that
\* stops a call on its workers run out (BaseSessionPool.ts:599-621, 644-656, 714-736).
ItemsOnce ==
    \A k \in Calls :
        /\ settled[k] \cup busy[k] = 1..taken[k] /\ settled[k] \cap busy[k] = {}
        /\ stage[k] \in {"threw", "returned"} =>
            busy[k] = {} /\ (halted[k] \/ settled[k] = 1..ItemCount[k])
        /\ stage[k] = "gaveup" => settled[k] = {}
        /\ halted[k] /\ stage[k] = "working" => Cardinality(busy[k]) < held[k]

\* Every call comes to an end, although calls hold sessions while they wait for
\* each other: the timers break the circle (BaseSessionPool.ts:270, 585-589).
CallsEnd == \A k \in Calls : <>Over(k)
=============================================================================

---------------------------- MODULE ProcessCleanup ----------------------------
(***************************************************************************)
(* ProcessCleanup.ts: sessions and pools register themselves, and events   *)
(* of the process (signals, uncaught errors, an empty event loop) close    *)
(* all of them once, within a time limit, before the process exits.  The   *)
(* sessions of a pool are registered like those of the user, and a pool    *)
(* that is closed closes its sessions itself.                              *)
(***************************************************************************)
EXTENDS Integers, Sequences, FiniteSets

CONSTANTS
    Sessions,    \* sessions that may be created
    Pools,       \* pools that may be created
    Directly,    \* not through a pool
    Events,      \* process events with a handler
    BeforeExit,  \* the one of them that does not end the process
    Unlimited    \* timeoutMs is 0

ASSUME CleanupAssumption ==
    /\ BeforeExit \in Events
    /\ Sessions \cap Pools = {} /\ Directly \notin Pools

Closables == Sessions \cup Pools

VARIABLES
    closables,     \* the registered ones
    closeState,    \* closeState[x]: "none", "opening", "open" or "closed"
    owner,         \* owner[s]: the pool that created session s, or Directly
    pooled,        \* pooled[p]: the sessions in this.pool of pool p
    closing,       \* close() calls in flight: <<of whom, "user" or "cleanup", through whom>>
    closeCalls,    \* closeCalls[x]: how often the cleanup had x closed
    cleanup,       \* cleanupInProgress: "null", "pending" or "settled"
    snapshot,      \* what was registered when the cleanup began
    waiting,       \* handlers that await the cleanup, in the order they came
    expired,       \* the time limit has passed
    exited         \* process.exit has been called

cleanupVars == <<closables, closeState, owner, pooled, closing, closeCalls, cleanup, snapshot,
                 waiting, expired, exited>>
runVars == <<closeCalls, cleanup, snapshot, waiting, expired, exited>>

CleanupInit ==
    /\ closables = {}
    /\ closeState = [x \in Closables |-> "none"]
    /\ owner = [s \in Sessions |-> Directly]
    /\ pooled = [p \in Pools |-> {}]
    /\ closing = {}
    /\ closeCalls = [x \in Closables |-> 0]
    /\ cleanup = "null"
    /\ snapshot = {}
    /\ waiting = <<>>
    /\ expired = FALSE
    /\ exited = FALSE

\* A constructor registers what it makes.
Register(x, state) ==
    /\ closeState[x] = "none"
    /\ closeState' = [closeState EXCEPT ![x] = state]
    /\ closables' = closables \cup {x}

NewPool(p) ==
    /\ Register(p, "open")
    /\ UNCHANGED <<owner, pooled, closing, runVars>>

\* A user or a pool, closed or not, makes a session and calls its open().
NewSession(s, o) ==
    /\ o \in Pools => closeState[o] # "none"
    /\ Register(s, "opening")
    /\ owner' = [owner EXCEPT ![s] = o]
    /\ UNCHANGED <<pooled, closing, runVars>>

\* open() ends well, and a session of a pool joins it.
Opened(s) ==
    /\ closeState[s] = "opening"
    /\ closeState' = [closeState EXCEPT ![s] = "open"]
    /\ pooled' = [p \in Pools |-> IF owner[s] = p THEN pooled[p] \cup {s} ELSE pooled[p]]
    /\ UNCHANGED <<closables, owner, closing, runVars>>

\* A pool removes a session it has closed, or whose connection it finds lost.
Removed(p, s) ==
    /\ s \in pooled[p]
    /\ pooled' = [pooled EXCEPT ![p] = @ \ {s}]
    /\ UNCHANGED <<closables, closeState, owner, closing, runVars>>

\* The calls that are made at once when x.close() is called.
Members(x) == IF x \in Pools THEN pooled[x] ELSE {}
CallsOf(x, who) == {<<x, who, Directly>>} \cup {<<s, who, x>> : s \in Members(x)}

\* The user closes a session or a pool, or a pool an idle session.  A bound: again only
\* when the first call has ended.
UserCloses(x) ==
    /\ closeState[x] \in {"opening", "open"} /\ <<x, "user", Directly>> \notin closing
    /\ closing' = closing \cup CallsOf(x, "user")
    /\ UNCHANGED <<closables, closeState, owner, pooled, runVars>>

\* A close() ends, never with an error.  That of a pool has waited for those of its
\* sessions, and drops whatever has joined meanwhile.
CloseEnds(x, who, via) ==
    /\ <<x, who, via>> \in closing
    /\ \A call \in closing : ~ (call[2] = who /\ call[3] = x)
    /\ closing' = closing \ {<<x, who, via>>}
    /\ closeState' = [closeState EXCEPT ![x] = "closed"]
    /\ closables' = closables \ {x}
    /\ pooled' = [p \in Pools |-> IF p = x THEN {} ELSE pooled[p]]
    /\ UNCHANGED <<owner, runVars>>

\* The test in runCleanup.
Again == TRUE                                           \* mutant: started by every event
NotBegun == cleanup = "null"

\* The close() calls of all that is registered.
CleanupCalls == UNION {CallsOf(x, "cleanup") : x \in closables}

\* An event of the process: its handler starts the cleanup, or joins it.
Event(e) ==
    /\ waiting' = Append(waiting, e)
    /\ \/ /\ NotBegun
          /\ cleanup' = "pending"
          /\ snapshot' = closables
          /\ closing' = closing \cup CleanupCalls
          /\ closeCalls' = [x \in Closables |->
                closeCalls[x] + Cardinality({call \in CleanupCalls : call[1] = x})]
       \/ ~ NotBegun /\ UNCHANGED <<cleanup, snapshot, closing, closeCalls>>
    /\ UNCHANGED <<closables, closeState, owner, pooled, expired, exited>>

TimeLimit ==
    /\ cleanup = "pending" /\ ~ Unlimited
    /\ expired' = TRUE
    /\ cleanup' = "settled"
    /\ UNCHANGED <<closables, closeState, owner, pooled, closing, closeCalls, snapshot, waiting,
                   exited>>

\* Promise.allSettled of the calls made.
SettledAll == \A x \in snapshot : <<x, "cleanup", Directly>> \notin closing

AllSettledFirst ==
    /\ cleanup = "pending" /\ SettledAll
    /\ cleanup' = "settled"
    /\ UNCHANGED <<closables, closeState, owner, pooled, closing, closeCalls, snapshot, waiting,
                   expired, exited>>

\* The handlers go on, the first one first: process.exit, but for beforeExit.
HandlerEnds ==
    /\ cleanup = "settled" /\ waiting # <<>>
    /\ waiting' = Tail(waiting)
    /\ exited' = (Head(waiting) # BeforeExit)
    /\ UNCHANGED <<closables, closeState, owner, pooled, closing, closeCalls, cleanup, snapshot,
                   expired>>

\* A bound: each event happens once at a time.
CleanupNext ==
    /\ ~ exited
    /\ \/ \E p \in Pools : NewPool(p) \/ \E s \in Sessions : Removed(p, s)
       \/ \E s \in Sessions : Opened(s) \/ \E o \in Pools \cup {Directly} : NewSession(s, o)
       \/ \E x \in Closables : UserCloses(x)
       \/ \E call \in closing : CloseEnds(call[1], call[2], call[3])
       \/ \E e \in Events : (\A i \in DOMAIN waiting : waiting[i] # e) /\ Event(e)
       \/ TimeLimit \/ AllSettledFirst \/ HandlerEnds

CleanupSpec == CleanupInit /\ [][CleanupNext]_cleanupVars

-----------------------------------------------------------------------------
\* However many events come, the cleanup runs once: it closes a pool and a session of
\* the user once at most, and a session of a pool once itself and once more through
\* its pool, never more often.  The process does not exit before everything that was
\* registered at the first event has been closed or the time is over
\* (ProcessCleanup.ts:45-64, 83-124, BaseSessionPool.ts:114, 466-484, Session.ts:227).
CleanupOnce ==
    /\ \A x \in Closables :
          closeCalls[x] <= IF x \in Sessions /\ owner[x] \in Pools THEN 2 ELSE 1
    /\ exited => expired \/ \A x \in snapshot : closeState[x] = "closed"
=============================================================================

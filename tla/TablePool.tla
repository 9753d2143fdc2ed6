------------------------------- MODULE TablePool -------------------------------
(***************************************************************************)
(* TableSessionPool.ts on top of SessionPool: the database a pool works    *)
(* in.  Each connection has its own database at the server, changed by the *)
(* statement USE; the pool tries to keep all of them in currentDatabase.   *)
(*                                                                         *)
(* The statements sent over one connection are executed in the order they  *)
(* are sent.  A client executes a USE through the pool, or holds a session *)
(* for something else.  Faults of connections are those of SessionPool and *)
(* are left out here: to this code they are statements that fail.          *)
(***************************************************************************)
EXTENDS SessionPool

CONSTANTS
    Databases,
    NoDatabase,      \* undefined
    UseFails         \* may a USE fail?

ASSUME NoDatabaseAssumption == NoDatabase \notin Databases
ASSUME UseFailsAssumption   == UseFails \in BOOLEAN
ASSUME CreationsAssumption  == Clients \cap (1..MinPoolSize) = {}

VARIABLES
    configDatabase,  \* config.database, given by the caller
    currentDatabase, \* this.currentDatabase of the pool
    database,        \* database[s]: what the server has for the session
    sent,            \* sent[s]: USE statements on their way over the connection of s
    applying,        \* applying[k]: the USE of createPoolSession in flight for creation k
    statement,       \* statement[c]: the database of the USE of c
    syncing,         \* syncing[c]: USE statements of the sync of c not answered yet
    missed,          \* history: sessions the last change of database has not reached
    leftIn           \* history: the database of the pool before currentDatabase was set back

tableVars == <<configDatabase, currentDatabase, database, sent, applying, statement, syncing,
               missed, leftIn>>
tablePoolVars == <<vars, tableVars>>

\* The calls of createPoolSession: those of init(), numbered, and one per client.
Creations == Clients \cup (1..MinPoolSize)

\* A USE in flight: who waits for it, and whether it is the statement of that
\* client or belongs to its sync.
Statements == [to : Databases, by : Clients, sync : BOOLEAN]

\* A creation is connecting (or not begun), has its USE in flight, or is over.
Connecting == [at |-> "connecting", to |-> NoDatabase, fromConfig |-> FALSE]
Over       == [at |-> "over", to |-> NoDatabase, fromConfig |-> FALSE]
Applying(d, config) == [at |-> "use", to |-> d, fromConfig |-> config]
CreationStates == {Connecting, Over} \cup {Applying(d, x) : d \in Databases, x \in BOOLEAN}

TableTypeOK ==
    /\ configDatabase \in Databases \cup {NoDatabase}
    /\ currentDatabase \in Databases \cup {NoDatabase}
    /\ database \in [Sessions -> Databases \cup {NoDatabase}]
    /\ sent \in [Sessions -> Seq(Statements)]
    /\ applying \in [Creations -> CreationStates]
    /\ statement \in [Clients -> Databases \cup {NoDatabase}]
    /\ syncing \in [Clients -> Nat]
    /\ missed \subseteq Sessions
    /\ leftIn \in Databases \cup {NoDatabase}

TableInit ==
    /\ Init
    /\ configDatabase \in Databases \cup {NoDatabase}
    /\ currentDatabase = NoDatabase
    /\ database = [s \in Sessions |-> NoDatabase]
    /\ sent = [s \in Sessions |-> <<>>]
    /\ applying = [k \in Creations |-> Connecting]
    /\ statement = [c \in Clients |-> NoDatabase]
    /\ syncing = [c \in Clients |-> 0]
    /\ missed = {}
    /\ leftIn = NoDatabase

\* The statement of a client that gets a session in this turn goes out at once.
Sends(queue) ==
    [s \in Sessions |->
        IF \E c \in Clients : holds'[c] = s /\ holds[c] # s /\ statement'[c] # NoDatabase
          THEN LET c == CHOOSE d \in Clients : holds'[d] = s /\ holds[d] # s
               IN  Append(queue[s], [to |-> statement'[c], by |-> c, sync |-> FALSE])
          ELSE queue[s]]

-----------------------------------------------------------------------------
(* createPoolSession() *)

InCreation(k) ==
    IF k \in Clients THEN pc[k] = "creating" ELSE k <= MinPoolSize /\ applying[k] # Over

\* The creation ends with session s, or with none, for whoever asked for it.
CreatedBy(k) == IF k \in Clients THEN CreateDone(k) ELSE InitCreated
FailedFor(k) == IF k \in Clients THEN CreateFails(k) ELSE InitFails
NewSession   == CHOOSE s \in Sessions : Fresh(s) /\ conn'[s] = "open"
Ended(k)     == applying' = [applying EXCEPT ![k] = IF k \in Clients THEN Connecting ELSE Over]

\* open() is through: USE the database of the pool or, if there is none, of the
\* configuration.
ContextToApply ==
    IF currentDatabase # NoDatabase THEN currentDatabase ELSE configDatabase

ApplyContext(k) ==
    /\ InCreation(k) /\ applying[k] = Connecting
    /\ ContextToApply # NoDatabase
    /\ applying' = [applying EXCEPT ![k] =
                       Applying(ContextToApply, currentDatabase = NoDatabase)]
    /\ UNCHANGED <<vars, currentDatabase, database, sent, statement, syncing, missed, leftIn>>

\* No database is known: the session is ready.
CreatedBare(k) ==
    /\ InCreation(k) /\ applying[k] = Connecting
    /\ ContextToApply = NoDatabase
    /\ CreatedBy(k)
    /\ Ended(k)
    /\ UNCHANGED <<statement, syncing>>
    /\ sent' = Sends(sent)
    /\ missed' = missed \cup {NewSession}
    /\ UNCHANGED <<currentDatabase, database, leftIn>>

\* The configured database becomes that of the pool, whatever that has become while
\* its USE was under way.  No other session is told.
SetBack(d) ==
    /\ currentDatabase' = d
    /\ leftIn' = IF currentDatabase \in {NoDatabase, d} THEN leftIn ELSE currentDatabase

\* The USE is answered.  An error is logged and ignored.
CreatedIn(k) ==
    /\ InCreation(k) /\ applying[k].at = "use"
    /\ CreatedBy(k)
    /\ Ended(k)
    /\ UNCHANGED <<statement, syncing>>
    /\ sent' = Sends(sent)
    /\ \/ /\ database' = [database EXCEPT ![NewSession] = applying[k].to]
          /\ \/ applying[k].fromConfig /\ SetBack(applying[k].to) /\ UNCHANGED missed
             \/ /\ ~ applying[k].fromConfig
                /\ UNCHANGED <<currentDatabase, leftIn>>
                /\ missed' = missed \cup {x \in {NewSession} : applying[k].to # currentDatabase}
       \/ /\ UseFails
          /\ missed' = missed \cup {NewSession}
          /\ UNCHANGED <<database, currentDatabase, leftIn>>

NotCreated(k) ==
    /\ InCreation(k) /\ applying[k] = Connecting
    /\ FailedFor(k)
    /\ Ended(k)
    /\ statement' = IF k \in Clients THEN [statement EXCEPT ![k] = NoDatabase] ELSE statement
    /\ UNCHANGED <<currentDatabase, database, sent, syncing, missed, leftIn>>

-----------------------------------------------------------------------------
(* executeNonQueryStatement("USE d"), and other users of a session *)

Begin(c) ==
    /\ \E d \in Databases \cup {NoDatabase} : statement' = [statement EXCEPT ![c] = d]
    /\ Reuse(c) \/ CreateNew(c) \/ Enqueue(c)
    /\ sent' = Sends(sent)
    /\ UNCHANGED <<currentDatabase, database, applying, syncing, missed, leftIn>>

\* Another use of a session ends.
OtherEnds(c) ==
    /\ statement[c] = NoDatabase
    /\ Release(c)
    /\ UNCHANGED <<currentDatabase, database, applying, statement, syncing, missed, leftIn>>
    /\ sent' = Sends(sent)

\* syncDatabaseContextToPool: the sessions not marked in use.  Sessions taken
\* from idle by getSession are not marked.
OnlyIdle == ToSet(idle)                                 \* mutant: what the doc says
SyncTargets == pool \ inUse

\* The sessions a change reaches: those it is sent to, and the one that carried it,
\* unless statements of others wait behind it.
Reached(s) == SyncTargets \cup {t \in {s} : Len(sent[t]) = 1}

\* The server answers the next USE of session s; the one of c succeeds and the
\* pool follows.
Follow(c, s) ==
    /\ currentDatabase' = statement[c]
    /\ syncing' = [syncing EXCEPT ![c] = Cardinality(SyncTargets)]
    /\ missed' = (missed \cup (pool \cap inUse)) \ Reached(s)
    /\ leftIn' = NoDatabase

Sync(c, queue) ==
    [s \in Sessions |->
        IF s \in SyncTargets
          THEN Append(queue[s], [to |-> statement[c], by |-> c, sync |-> TRUE]) ELSE queue[s]]

\* c has nothing more to wait for: the finally block releases its session.
Finish(c) ==
    /\ Release(c)
    /\ statement' = [statement EXCEPT ![c] = NoDatabase]

Answered(s) ==
    /\ sent[s] # <<>>
    /\ LET m == Head(sent[s])
           c == m.by
           rest == [sent EXCEPT ![s] = Tail(@)]
       IN  \/ /\ ~ m.sync
              /\ database' = [database EXCEPT ![s] = m.to]
              /\ Follow(c, s)
              /\ \/ SyncTargets # {} /\ sent' = Sync(c, rest) /\ UNCHANGED <<vars, statement>>
                 \/ SyncTargets = {} /\ Finish(c) /\ sent' = Sends(rest)
           \/ /\ ~ m.sync /\ UseFails
              /\ Finish(c) /\ sent' = Sends(rest)
              /\ UNCHANGED <<currentDatabase, database, syncing, missed, leftIn>>
           \/ /\ m.sync
              /\ \/ database' = [database EXCEPT ![s] = m.to] /\ UNCHANGED missed
                 \/ UseFails /\ missed' = missed \cup {s} /\ UNCHANGED database
              /\ syncing' = [syncing EXCEPT ![c] = @ - 1]
              /\ \/ syncing[c] > 1 /\ sent' = rest /\ UNCHANGED <<vars, statement>>
                 \/ syncing[c] = 1 /\ Finish(c) /\ sent' = Sends(rest)
              /\ UNCHANGED <<currentDatabase, leftIn>>
    /\ UNCHANGED applying

TableNext ==
    /\ UNCHANGED configDatabase
    /\ \/ \E k \in Creations : ApplyContext(k) \/ CreatedBare(k) \/ CreatedIn(k) \/ NotCreated(k)
       \/ \E c \in Clients : Begin(c) \/ OtherEnds(c)
       \/ \E s \in Sessions : Answered(s)

TableSpec == TableInit /\ [][TableNext]_tablePoolVars

-----------------------------------------------------------------------------
\* No caller is inside the pool and no statement is on its way.
Quiet ==
    /\ \A c \in Clients : pc[c] = "out"
    /\ initPending = 0
    /\ \A s \in Sessions : sent[s] = <<>>

InContext(s) == database[s] = currentDatabase
InOneLeft(s) == leftIn # NoDatabase /\ database[s] = leftIn

\* Concurrent USE statements leave the pool in one database: at rest, every
\* session is where the pool thinks it is, except those that missed the last
\* change because they were marked in use (the one that carried it too, when it was
\* shared and had more to do), were being created or failed.  When a late USE of the
\* configured database has set currentDatabase back, the sessions it did not tell are
\* all in the one database the pool had followed its callers to
\* (TableSessionPool.ts:62-88, 116-128, 139-154).
ContextFollows ==
    Quiet /\ currentDatabase # NoDatabase =>
        \A s \in pool \ missed : InContext(s) \/ InOneLeft(s)
=============================================================================

------------------------------ MODULE Connection ------------------------------
(***************************************************************************)
(* One Connection object (Connection.ts) of a Session: open() with its two *)
(* calls and their 30 s timers, the socket events, and close() with its    *)
(* 5 s race.  open() may be called again when the session is not open, so  *)
(* several sockets can come and go; attempt k opens socket k, and the ids  *)
(* the server returns over it are written k as well.                       *)
(*                                                                         *)
(* An action is one turn of the event loop.  A thrift callback that comes  *)
(* after its timer has fired still runs, on whatever the object has become.*)
(***************************************************************************)
EXTENDS Integers, FiniteSets

CONSTANTS
    MaxOpens,   \* bound: how often open() is called
    Closers     \* concurrent callers of close(): user, pool cleanup, exit hook

ASSUME MaxOpensAssumption == MaxOpens \in Nat \ {0}

VARIABLES
    started,      \* number of open() calls so far
    stage,        \* stage[k]: where the k-th open() is
    late,         \* late[k]: its calls that timed out but may still be answered
    socket,       \* socket[k]
    connection,   \* this.connection (and this.client): a socket, 0 is null
    isConnected,  \* this.isConnected
    sessionId,    \* this.sessionId, 0 is null
    statementId,  \* this.statementId, 0 is null
    closer        \* closer[c]: where a caller of close() is

vars == <<started, stage, late, socket, connection, isConnected, sessionId, statementId, closer>>

Attempts == 1..MaxOpens
Ids      == 0..MaxOpens
Calls    == {"openSession", "requestStatementId"}

TypeOK ==
    /\ started \in Ids
    /\ stage \in [Attempts -> {"none", "openSession", "requestStatementId", "open", "failed"}]
    /\ late \in [Attempts -> SUBSET Calls]
    /\ socket \in [Attempts -> {"none", "up", "down", "destroyed"}]
    /\ connection \in {0, started}
    /\ isConnected \in BOOLEAN
    /\ sessionId \in Ids
    /\ statementId \in Ids
    /\ closer \in [Closers -> {"out", "closing"}]

IsOpenById == sessionId # 0                             \* mutant: flag not looked at
IsOpen == isConnected /\ sessionId # 0

Init ==
    /\ started = 0
    /\ stage = [k \in Attempts |-> "none"]
    /\ late = [k \in Attempts |-> {}]
    /\ socket = [k \in Attempts |-> "none"]
    /\ connection = 0
    /\ isConnected = FALSE
    /\ sessionId = 0
    /\ statementId = 0
    /\ closer = [c \in Closers |-> "out"]

-----------------------------------------------------------------------------
(* open() *)

Opening(k) == stage[k] \in Calls

\* this.connection after thrift.createConnection().
KeepOld == IF connection # 0 THEN connection ELSE started + 1  \* mutant
NewConnection == started + 1

\* Callers open a session that is not open, one open() at a time.  The old
\* socket, if a failed open() left one, is overwritten, not destroyed.
OpenStart ==
    /\ started < MaxOpens
    /\ ~ IsOpen
    /\ \A k \in Attempts : ~ Opening(k)
    /\ started' = started + 1
    /\ stage' = [stage EXCEPT ![started + 1] = "openSession"]
    /\ socket' = [socket EXCEPT ![started + 1] = "up"]
    /\ connection' = NewConnection
    /\ UNCHANGED <<late, isConnected, sessionId, statementId, closer>>

\* openSession is answered with status 200: the next call goes out.
SessionReply(k) ==
    /\ stage[k] = "openSession"
    /\ socket[k] = "up"
    /\ sessionId' = k
    /\ stage' = [stage EXCEPT ![k] = "requestStatementId"]
    /\ UNCHANGED <<started, late, socket, connection, isConnected, statementId, closer>>

\* requestStatementId is answered: open() resolves in the same turn.
StatementReply(k) ==
    /\ stage[k] = "requestStatementId"
    /\ socket[k] = "up"
    /\ statementId' = k
    /\ isConnected' = TRUE
    /\ stage' = [stage EXCEPT ![k] = "open"]
    /\ UNCHANGED <<started, late, socket, connection, sessionId, closer>>

\* A call is answered with an error or a bad status: open() rejects and leaves
\* the socket as it is.
CallFails(k) ==
    /\ Opening(k)
    /\ socket[k] = "up"
    /\ stage' = [stage EXCEPT ![k] = "failed"]
    /\ UNCHANGED <<started, late, socket, connection, isConnected, sessionId, statementId, closer>>

\* The 30 s timer of a call: open() rejects, the callback stays registered.
TimedCallsFirstOnly == {"openSession"}                  \* mutant: one timer missing
TimedCalls == Calls

CallTimer(k) ==
    /\ Opening(k)
    /\ stage[k] \in TimedCalls
    /\ late' = [late EXCEPT ![k] = @ \cup {stage[k]}]
    /\ stage' = [stage EXCEPT ![k] = "failed"]
    /\ UNCHANGED <<started, socket, connection, isConnected, sessionId, statementId, closer>>

\* A late answer still writes its id.
LateReply(k) ==
    /\ socket[k] = "up"
    /\ \/ /\ "openSession" \in late[k]
          /\ late' = [late EXCEPT ![k] = @ \ {"openSession"}]
          /\ sessionId' = k
          /\ UNCHANGED statementId
       \/ /\ "requestStatementId" \in late[k]
          /\ late' = [late EXCEPT ![k] = @ \ {"requestStatementId"}]
          /\ statementId' = k
          /\ UNCHANGED sessionId
    /\ UNCHANGED <<started, stage, socket, connection, isConnected, closer>>

-----------------------------------------------------------------------------
(* Socket events *)

\* isConnected after an "error" or "close" event, of any socket.
EventIgnored == isConnected                             \* mutant: no handler
AfterEvent == FALSE

\* A socket dies; its pending calls are never answered.
SocketCloses(k) ==
    /\ socket[k] = "up"
    /\ socket' = [socket EXCEPT ![k] = "down"]
    /\ isConnected' = AfterEvent
    /\ UNCHANGED <<started, stage, late, connection, sessionId, statementId, closer>>

-----------------------------------------------------------------------------
(* close() *)

\* The sockets after the current one, if any, has been destroyed.
NotDestroyed == socket                                  \* mutant: only forgotten
Destroyed ==
    [k \in Attempts |-> IF k = connection THEN "destroyed" ELSE socket[k]]

\* The cleanup part of close(): whatever the current connection is by now.
TearDown ==
    /\ sessionId' = 0
    /\ isConnected' = FALSE
    /\ socket' = Destroyed
    /\ connection' = 0

\* close() on a connection: with a session id it sends closeSession first.
CloseStart(c) ==
    /\ closer[c] = "out"
    /\ isConnected \/ connection # 0
    /\ \/ /\ sessionId # 0
          /\ closer' = [closer EXCEPT ![c] = "closing"]
          /\ UNCHANGED <<isConnected, socket, connection, sessionId>>
       \/ /\ sessionId = 0
          /\ TearDown
          /\ UNCHANGED closer
    /\ UNCHANGED <<started, stage, late, statementId>>

\* The answer, its error or the 5 s timer, whichever is first.
CloseFinish(c) ==
    /\ closer[c] = "closing"
    /\ closer' = [closer EXCEPT ![c] = "out"]
    /\ TearDown
    /\ UNCHANGED <<started, stage, late, statementId>>

-----------------------------------------------------------------------------
Next ==
    \/ OpenStart
    \/ \E k \in Attempts :
        \/ SessionReply(k)
        \/ StatementReply(k)
        \/ CallFails(k)
        \/ CallTimer(k)
        \/ LateReply(k)
        \/ SocketCloses(k)
    \/ \E c \in Closers : CloseStart(c) \/ CloseFinish(c)

Spec == Init /\ [][Next]_vars

\* The timers fire if nothing else happens; no call has to be answered.
FairSpec ==
    /\ Spec
    /\ \A k \in Attempts : WF_vars(CallTimer(k))
    /\ \A c \in Closers : WF_vars(CloseFinish(c))

-----------------------------------------------------------------------------
\* isOpen() is what the pool trusts before it hands a session out: it implies
\* a live socket, through every mix of events, timers and concurrent closes
\* (Connection.ts:76-84, 92, 236-253, 295).
OpenMeansUp ==
    /\ IsOpen => connection # 0 /\ socket[connection] = "up"
    /\ connection = 0 => ~ isConnected

\* The socket of the latest open() stays within reach of close() until it dies
\* or is destroyed; only a later open() can make an object lose a live socket
\* (Connection.ts:59-74, 93-96, 239-251).
SocketOwned ==
    \A k \in Attempts : socket[k] = "up" /\ k = started => connection = k

\* A session that has been open and is not any more never opens by itself, not
\* even through a late answer: only a new open() can (Connection.ts:92, 147).
LostIsLost ==
    [][started # 0 /\ stage[started] = "open" /\ ~ IsOpen
          => ~ IsOpen' \/ started' # started]_vars

\* Every open() and every close() settles, answered or not
\* (Connection.ts:125-127, 160-162, 211-223).
Settles ==
    /\ \A k \in Attempts : Opening(k) ~> ~ Opening(k)
    /\ \A c \in Closers : closer[c] = "closing" ~> closer[c] = "out"
=============================================================================

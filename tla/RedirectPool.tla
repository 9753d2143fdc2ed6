----------------------------- MODULE RedirectPool -----------------------------
(***************************************************************************)
(* insertTablet of BaseSessionPool.ts with redirection enabled, on top of  *)
(* SessionPool.  The server may answer an insert with a recommendation:    *)
(* write to that endpoint from now on.  The session keeps it, insertTablet *)
(* of the pool moves it to a cache per device, and the pool opens one      *)
(* session per endpoint that all writers share.  Clients that take a       *)
(* session and insert with it themselves (the users of getSession,         *)
(* insertTabletsParallel, executeParallel) get recommendations too, and    *)
(* do not look at them.                                                    *)
(*                                                                         *)
(* Replies that arrive in one chunk of data of a connection run their      *)
(* callbacks in one turn, before the continuations of the inserts; `turn`  *)
(* is the queue of these continuations, and nothing else runs until it is  *)
(* empty.                                                                  *)
(***************************************************************************)
EXTENDS SessionPool, RedirectCache

CONSTANTS
    NodeUrls,    \* this.endPoints, a sequence
    NoDevice,    \* device[c] of a client that inserts nothing
    MaxIdle,     \* bound: no new insert on a shared session beyond this many idle entries
    MaxDetours   \* bound: how many faults happen and sessions are taken by TakeSession

ASSUME NodeUrlsAssumption == NodeUrls \in Seq(Endpoints) /\ NodeUrls # <<>>
ASSUME NothingAssumption  == NoEndpoint \notin Endpoints /\ NoDevice \notin Devices
ASSUME BoundsAssumption   == MaxIdle \in Nat /\ MaxDetours \in Nat

VARIABLES
    endPointIndex, \* this.currentEndPointIndex, as the position of the next in NodeUrls
    initDialing,   \* endpoints of the createSession calls of init() in flight
    dialing,       \* dialing[c]: the endpoint client c is connecting to
    peer,          \* peer[s]: the endpoint session s is connected to
    sessionAt,     \* this.endPointToSession
    target,        \* target[c]: the endpoint c asked getSessionForEndpoint for
    device,        \* device[c]: the device of the tablet c inserts
    direct,        \* the clients that use a session, or wait for one, to insert themselves
    lastRedirect,  \* lastRedirect[s]: session.lastRedirectEndpoint
    detoursLeft,   \* those that may still happen
    turn,          \* continuations to run: [client, ok]
    askedFor,      \* history: the device lastRedirect[s] was recommended for
    foreign,       \* history: sessions whose advice, not left unread, was cached for another device
    unread,        \* history: sessions released with a recommendation that was not read yet
    shared,        \* history: two clients have had one session at once
    redirected     \* history: sessions opened by getSessionForEndpoint

dialVars  == <<endPointIndex, initDialing, dialing, peer>>
history   == <<askedFor, foreign, unread, shared, redirected>>
routeVars == <<cache, dialVars, sessionAt, target, device, direct, lastRedirect, detoursLeft, turn,
               history>>
redirectVars == <<vars, routeVars>>

Here == Endpoints \cup {NoEndpoint}

RedirectTypeOK ==
    /\ cache \in Seq(Entries)
    /\ endPointIndex \in DOMAIN NodeUrls
    /\ initDialing \in Seq(Endpoints) /\ Len(initDialing) = initPending
    /\ dialing \in [Clients -> Here] /\ target \in [Clients -> Here]
    /\ peer \in [Sessions -> Here] /\ lastRedirect \in [Sessions -> Here]
    /\ sessionAt \in [Endpoints -> Sessions \cup {NoSession}]
    /\ device \in [Clients -> Devices \cup {NoDevice}]
    /\ direct \in SUBSET Clients
    /\ detoursLeft \in 0..MaxDetours
    /\ turn \in Seq([client : Clients, ok : BOOLEAN])
    /\ pool \in SUBSET Sessions /\ idle \in Seq(Sessions)
    /\ \A s \in Sessions : (peer[s] = NoEndpoint) <=> Fresh(s)
    /\ \A c \in Clients : pc[c] = "opening" <=> target[c] # NoEndpoint

\* getNextEndPoint(): the nodes in turn.
NextEndPoint == NodeUrls[endPointIndex]
NoWrap == endPointIndex' = endPointIndex + 1            \* mutant: no modulo
Advance == endPointIndex' = (endPointIndex % Len(NodeUrls)) + 1

RedirectInit ==
    /\ Init
    /\ CacheInit
    /\ initDialing = [i \in 1..MinPoolSize |-> NodeUrls[((i - 1) % Len(NodeUrls)) + 1]]
    /\ endPointIndex = (MinPoolSize % Len(NodeUrls)) + 1
    /\ dialing = [c \in Clients |-> NoEndpoint]
    /\ peer = [s \in Sessions |-> NoEndpoint]
    /\ sessionAt = [e \in Endpoints |-> NoSession]
    /\ target = [c \in Clients |-> NoEndpoint]
    /\ device = [c \in Clients |-> NoDevice]
    /\ direct = {}
    /\ lastRedirect = [s \in Sessions |-> NoEndpoint]
    /\ detoursLeft = MaxDetours
    /\ turn = <<>>
    /\ askedFor = [s \in Sessions |-> NoDevice]
    /\ foreign = {} /\ unread = {}
    /\ shared = FALSE
    /\ redirected = {}

\* History: does the step give a session to a second client?
NoteSharing ==
    shared' = (shared \/ \E c, d \in Clients :
                  c # d /\ holds'[c] # NoSession /\ holds'[c] = holds'[d])

-----------------------------------------------------------------------------
(* insertTablet: which session? *)

\* The steps of init(), which connects to the nodes in turn.
InitStep ==
    /\ InitCreated \/ InitFails
    /\ \E i \in DOMAIN initDialing :
        /\ initDialing' = RemoveAt(initDialing, i)
        /\ peer' = [s \in Sessions |->
                       IF conn[s] = "none" /\ conn'[s] = "open" THEN initDialing[i] ELSE peer[s]]
    /\ UNCHANGED <<cache, endPointIndex, dialing, sessionAt, target, device, direct, lastRedirect,
                   detoursLeft, turn, history>>

\* getSession(): an idle session, a place in the queue, or a new connection to the
\* node whose turn it is.
GetSession(c) ==
    /\ \/ (Reuse(c) \/ Enqueue(c)) /\ UNCHANGED <<endPointIndex, dialing>>
       \/ CreateNew(c) /\ dialing' = [dialing EXCEPT ![c] = NextEndPoint] /\ Advance
    /\ NoteSharing
    /\ UNCHANGED <<initDialing, peer, sessionAt, target, lastRedirect, turn, askedFor,
                   foreign, unread, redirected>>

\* No recommendation is known for the device: an ordinary session.
InsertAnywhere(c, d) ==
    /\ Found(d) = NoEndpoint
    /\ Get(d)
    /\ device' = [device EXCEPT ![c] = d]
    /\ GetSession(c)
    /\ UNCHANGED <<direct, detoursLeft>>

\* A bound: each fault, and each session taken by a caller who inserts himself, uses
\* up one of the detours allowed.
Detour == detoursLeft > 0 /\ detoursLeft' = detoursLeft - 1

\* A caller that inserts itself takes any session.
TakeSession(c) ==
    /\ Detour
    /\ direct' = direct \cup {c}
    /\ GetSession(c)
    /\ UNCHANGED <<cache, device>>

\* The caller gets an error instead of a session.
GivesUp(c) ==
    /\ device' = [device EXCEPT ![c] = NoDevice]
    /\ direct' = direct \ {c}

\* It connects, or does not.
Connected(c) ==
    /\ \/ /\ CreateDone(c) /\ peer' = [peer EXCEPT ![holds'[c]] = dialing[c]]
          /\ UNCHANGED <<device, direct>>
       \/ CreateFails(c) /\ GivesUp(c) /\ UNCHANGED peer
    /\ dialing' = [dialing EXCEPT ![c] = NoEndpoint]
    /\ NoteSharing
    /\ UNCHANGED <<cache, endPointIndex, initDialing, sessionAt, target, lastRedirect, detoursLeft,
                   turn, askedFor, foreign, unread, redirected>>

\* getSessionForEndpoint: the session kept for the endpoint, if it is open.
Reusable(e) == sessionAt[e] # NoSession /\ IsOpen(sessionAt[e])

\* It is taken as it is: it stays where it is in idle, and may be in use.
InsertThere(c, d) ==
    LET e == Found(d)
    IN  /\ MayCall(c)
        /\ e # NoEndpoint /\ Reusable(e)
        /\ Len(idle) < MaxIdle
        /\ inUse' = inUse \cup {sessionAt[e]}
        /\ pc' = [pc EXCEPT ![c] = "using"]
        /\ holds' = [holds EXCEPT ![c] = sessionAt[e]]
        /\ device' = [device EXCEPT ![c] = d]
        /\ NoteSharing
        /\ UNCHANGED <<phase, initPending, pool, idle, active, waitQueue, conn, cleaning, closing,
                       leaked, cache, dialVars, sessionAt, target, direct, lastRedirect, detoursLeft,
                       turn, askedFor, foreign, unread, redirected>>

\* Otherwise a new one is opened by createPoolSession, which is not told the
\* endpoint: it connects to the node whose turn it is.
InsertOpens(c, d) ==
    LET e == Found(d)
    IN  /\ MayCall(c)
        /\ e # NoEndpoint /\ ~ Reusable(e)
        /\ target' = [target EXCEPT ![c] = e]
        /\ dialing' = [dialing EXCEPT ![c] = NextEndPoint] /\ Advance
        /\ pc' = [pc EXCEPT ![c] = "opening"]
        /\ device' = [device EXCEPT ![c] = d]
        /\ UNCHANGED <<phase, initPending, poolVars, conn, cleaning, closing, holds, leaked, cache,
                       initDialing, peer, sessionAt, direct, lastRedirect, detoursLeft, turn,
                       history>>

\* The pool after a session for an endpoint has been opened, whatever its size.
OpenedNotPooled(s) == pool                              \* mutant: push forgotten
Opened(s) == pool \cup {s}

InsertOpened(c) ==
    /\ pc[c] = "opening"
    /\ \/ \E s \in Sessions :
            /\ Fresh(s)
            /\ conn' = [conn EXCEPT ![s] = "open"]
            /\ peer' = [peer EXCEPT ![s] = dialing[c]]
            /\ sessionAt' = [sessionAt EXCEPT ![target[c]] = s]
            /\ redirected' = redirected \cup {s}
            /\ pool' = Opened(s)
            /\ inUse' = inUse \cup {s}
            /\ holds' = [holds EXCEPT ![c] = s]
            /\ pc' = [pc EXCEPT ![c] = "using"]
            /\ UNCHANGED device
       \/ /\ pc' = [pc EXCEPT ![c] = "out"]
          /\ device' = [device EXCEPT ![c] = NoDevice]
          /\ UNCHANGED <<conn, peer, sessionAt, redirected, pool, inUse, holds>>
    /\ dialing' = [dialing EXCEPT ![c] = NoEndpoint]
    /\ target' = [target EXCEPT ![c] = NoEndpoint]
    /\ UNCHANGED <<phase, initPending, idle, active, waitQueue, cleaning, closing, leaked, cache,
                   endPointIndex, initDialing, direct, lastRedirect, detoursLeft, turn, askedFor,
                   foreign, unread, shared>>

-----------------------------------------------------------------------------
(* The answer to an insert *)

\* A caller that has a session of its own inserts.  A bound: one insert at a time.
DirectInsert(c, d) ==
    /\ c \in direct /\ pc[c] = "using" /\ device[c] = NoDevice
    /\ device' = [device EXCEPT ![c] = d]
    /\ UNCHANGED <<vars, cache, dialVars, sessionAt, target, direct, lastRedirect, detoursLeft, turn,
                   history>>

\* Callbacks of replies that may run in the current turn: none has yet, or they
\* come over the same connection.
SameChunk(c) ==
    /\ pc[c] = "using" /\ device[c] # NoDevice
    /\ \A i \in DOMAIN turn : turn[i].client # c /\ holds[turn[i].client] = holds[c]

\* The callback: status 200 leaves lastRedirectEndpoint alone, 400 sets it, and
\* anything else rejects.
Reply(c) ==
    /\ SameChunk(c)
    /\ \/ /\ \E ok \in BOOLEAN : turn' = Append(turn, [client |-> c, ok |-> ok])
          /\ UNCHANGED <<lastRedirect, askedFor, unread>>
       \/ \E e \in Endpoints :
            /\ turn' = Append(turn, [client |-> c, ok |-> TRUE])
            /\ lastRedirect' = [lastRedirect EXCEPT ![holds[c]] = e]
            /\ askedFor' = [askedFor EXCEPT ![holds[c]] = device[c]]
            /\ unread' = unread \ {holds[c]}
    /\ UNCHANGED <<vars, cache, dialVars, sessionAt, target, device, direct, detoursLeft, foreign,
                   shared, redirected>>

\* getAndClearLastRedirect().
NotCleared(s) == lastRedirect                           \* mutant: only read
Cleared(s) == [lastRedirect EXCEPT ![s] = NoEndpoint]

\* The continuation of insertTablet of the pool: remember the recommendation, release
\* the session.
Continue ==
    /\ turn # <<>> /\ Head(turn).client \notin direct
    /\ LET c == Head(turn).client
           s == holds[c]
           advised == Head(turn).ok /\ lastRedirect[s] # NoEndpoint
       IN  /\ \/ advised /\ Set(device[c], lastRedirect[s])
              \/ ~ advised /\ UNCHANGED cache
           /\ foreign' = foreign \cup
                 {x \in {s} : advised /\ askedFor[s] # device[c] /\ s \notin unread}
           /\ \/ advised /\ lastRedirect' = Cleared(s) /\ unread' = unread \ {s}
              \/ ~ advised /\ UNCHANGED <<lastRedirect, unread>>
           /\ askedFor' = [askedFor EXCEPT ![s] = IF lastRedirect'[s] = NoEndpoint
                                                    THEN NoDevice ELSE @]
           /\ Release(c)
           /\ device' = [device EXCEPT ![c] = NoDevice]
    /\ turn' = Tail(turn)
    /\ NoteSharing
    /\ UNCHANGED <<dialVars, sessionAt, target, direct, detoursLeft, redirected>>

\* A caller that has used a session itself releases it, with the recommendation.
GiveBack(c) ==
    /\ Release(c)
    /\ direct' = direct \ {c}
    /\ unread' = unread \cup {s \in {holds[c]} : lastRedirect[s] # NoEndpoint}

\* The continuation of its insert: it goes on with the session, or releases it.
DirectContinue ==
    /\ turn # <<>> /\ Head(turn).client \in direct
    /\ LET c == Head(turn).client
       IN  /\ device' = [device EXCEPT ![c] = NoDevice]
           /\ GiveBack(c) \/ UNCHANGED <<vars, direct, unread>>
    /\ turn' = Tail(turn)
    /\ NoteSharing
    /\ UNCHANGED <<cache, dialVars, sessionAt, target, lastRedirect, detoursLeft, askedFor, foreign,
                   redirected>>

DirectRelease(c) ==
    /\ c \in direct /\ device[c] = NoDevice
    /\ GiveBack(c)
    /\ NoteSharing
    /\ UNCHANGED <<cache, dialVars, sessionAt, target, device, lastRedirect, detoursLeft, turn,
                   askedFor, foreign, redirected>>

-----------------------------------------------------------------------------
(* Other turns *)

TimedOut(c) ==
    /\ Timeout(c) /\ Detour /\ GivesUp(c)
    /\ UNCHANGED <<cache, dialVars, sessionAt, target, lastRedirect, turn, history>>

\* ttl passes for the next entry.
EntryAges ==
    /\ Age
    /\ UNCHANGED <<vars, dialVars, sessionAt, target, device, direct, lastRedirect, detoursLeft, turn,
                   history>>

Maintenance ==
    /\ \/ ((\E s \in Sessions : Lose(s)) \/ CleanupTick) /\ Detour
       \/ (\E s \in Sessions : Cleaned(s)) /\ UNCHANGED detoursLeft
    /\ UNCHANGED <<cache, dialVars, sessionAt, target, device, direct, lastRedirect, turn, history>>

\* close(), which also clears the map and the cache.
Closing ==
    /\ \/ CloseStart /\ Detour
       \/ (\E s \in Sessions : CloseSession(s)) /\ UNCHANGED detoursLeft
    /\ \/ phase' # "closed" /\ UNCHANGED <<cache, sessionAt>>
       \/ phase' = "closed" /\ Clear /\ sessionAt' = [e \in Endpoints |-> NoSession]
    /\ UNCHANGED <<dialVars, target, device, direct, lastRedirect, turn, history>>

RedirectNext ==
    \/ /\ turn = <<>>
       /\ \/ InitStep
          \/ \E c \in Clients :
                \/ \E d \in Devices :
                      \/ InsertAnywhere(c, d) \/ InsertThere(c, d) \/ InsertOpens(c, d)
                      \/ DirectInsert(c, d)
                \/ TakeSession(c)
                \/ DirectRelease(c)
                \/ Connected(c)
                \/ InsertOpened(c)
                \/ TimedOut(c)
          \/ EntryAges
          \/ Maintenance
          \/ Closing
    \/ \E c \in Clients : Reply(c)
    \/ Continue
    \/ DirectContinue

RedirectSpec == RedirectInit /\ [][RedirectNext]_redirectVars

-----------------------------------------------------------------------------
\* lastRedirectEndpoint belongs to a session, not to an insert, and stays set until
\* insertTablet of the pool reads it.  As long as no two clients have had one session
\* at once, what insertTablet files for a device is what the server said of it, unless
\* a caller who had inserted with the session himself released it with that advice
\* unread (Session.ts:243-247, 462-468, 558-564, 1462-1468,
\* BaseSessionPool.ts:441-449, 611).
OwnAdvice == ~ shared => foreign = {}

\* Sessions opened for an endpoint are not forgotten either: until close() every
\* open connection is in the pool, where cleanup and close() find it
\* (BaseSessionPool.ts:217-218).
RedirectPooled == OpenIsPooled

\* In a pool that never grows by itself only sessions opened for an endpoint are
\* ever in two hands, or idle twice: sharing them does not spread to the others
\* (BaseSessionPool.ts:201-205, 303-333).
SharingConfined ==
    Undisturbed => \A s \in Sessions \ redirected :
        Cardinality({i \in DOMAIN idle : idle[i] = s})
            + Cardinality({c \in Clients : holds[c] = s}) <= 1

\* "Get or create a session for a specific endpoint" (BaseSessionPool.ts:192-194).
EndpointHonoured ==
    \A e \in Endpoints : sessionAt[e] # NoSession => peer[sessionAt[e]] = e
=============================================================================

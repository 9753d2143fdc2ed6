--------------------------- MODULE SessionAllocator ---------------------------
(***************************************************************************)
(* What the session pool promises its callers as long as connections stay  *)
(* up and nothing is cleaned up or closed: a counting semaphore with one   *)
(* first-come first-served queue, whose number of permits may grow.  Which *)
(* session stands for a permit is of no concern here.                      *)
(*                                                                         *)
(* A caller that gives up leaves a dead entry behind, and a permit that    *)
(* meets one is lost: that is the one weakness the promise has.  After a   *)
(* disruption nothing is promised.                                         *)
(***************************************************************************)
EXTENDS Integers

CONSTANT Clients

VARIABLES
    up,      \* no disruption so far
    free,    \* permits nobody has
    users,   \* clients that have a permit
    waiting, \* clients that wait for one
    before,  \* pairs of them: the first has waited longer
    dead,    \* entries of clients that gave up
    lost     \* permits that met a dead entry

allocatorVars == <<up, free, users, waiting, before, dead, lost>>

AllocatorInit ==
    /\ up = TRUE
    /\ free = 0
    /\ users = {}
    /\ waiting = {}
    /\ before = {}
    /\ dead = 0
    /\ lost = 0

Outside(c) == c \notin users /\ c \notin waiting

\* Client c has waited longest.
First(c) == c \in waiting /\ \A d \in waiting : <<d, c>> \notin before

\* It waits no longer.
Leaves(c) ==
    /\ waiting' = waiting \ {c}
    /\ before' = {p \in before : p[1] # c /\ p[2] # c}

\* A new permit, free or for a caller that asked for it to be made.
Grow ==
    /\ free' = free + 1
    /\ UNCHANGED <<up, users, waiting, before, dead, lost>>

Admit(c) ==
    /\ Outside(c)
    /\ users' = users \cup {c}
    /\ UNCHANGED <<up, free, waiting, before, dead, lost>>

\* A caller gets a free permit only if nobody is before it, and waits only if
\* there is none.
Take(c) ==
    /\ Outside(c)
    /\ free > 0 /\ waiting = {}
    /\ free' = free - 1
    /\ users' = users \cup {c}
    /\ UNCHANGED <<up, waiting, before, dead, lost>>

Await(c) ==
    /\ Outside(c)
    /\ free = 0
    /\ waiting' = waiting \cup {c}
    /\ before' = before \cup (waiting \X {c})
    /\ UNCHANGED <<up, free, users, dead, lost>>

GiveUp(c) ==
    /\ c \in waiting
    /\ Leaves(c)
    /\ dead' = dead + 1
    /\ UNCHANGED <<up, free, users, lost>>

\* A permit that comes back goes to the caller that has waited longest, to a
\* dead entry, or, if there is no entry at all, becomes free.
HandOver(c) ==
    /\ c \in users
    /\ \E d \in waiting :
        /\ First(d)
        /\ users' = (users \ {c}) \cup {d}
        /\ Leaves(d)
    /\ UNCHANGED <<up, free, dead, lost>>

Waste(c) ==
    /\ c \in users /\ dead > 0
    /\ users' = users \ {c}
    /\ dead' = dead - 1
    /\ lost' = lost + 1
    /\ UNCHANGED <<up, free, waiting, before>>

GiveBack(c) ==
    /\ c \in users /\ waiting = {} /\ dead = 0
    /\ users' = users \ {c}
    /\ free' = free + 1
    /\ UNCHANGED <<up, waiting, before, dead, lost>>

\* A connection is lost, a cleanup begins or the pool is closed.
Disrupt ==
    /\ up /\ up' = FALSE
    /\ free' = 0 /\ users' = {} /\ waiting' = {} /\ before' = {}
    /\ dead' = 0 /\ lost' = 0

AllocatorNext ==
    \/ /\ up
       /\ \/ Grow
          \/ \E c \in Clients :
                \/ Admit(c) \/ Take(c) \/ Await(c) \/ GiveUp(c)
                \/ HandOver(c) \/ Waste(c) \/ GiveBack(c)
    \/ Disrupt

AllocatorSpec == AllocatorInit /\ [][AllocatorNext]_allocatorVars
=============================================================================

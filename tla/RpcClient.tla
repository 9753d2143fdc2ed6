------------------------------ MODULE RpcClient ------------------------------
(***************************************************************************)
(* The generated thrift client of one connection (IClientRPCService.js): a *)
(* table of callbacks by sequence number.  The server executes the         *)
(* requests of a connection one after the other.  When the socket is gone  *)
(* nothing is called back any more: the callbacks stay in the table.       *)
(***************************************************************************)
EXTENDS Integers, Sequences, FiniteSets, SequencesExt

VARIABLES
    seqid,   \* this._seqid
    reqs,    \* this._reqs: the calls whose callback is registered, with their seqid
    wire,    \* requests sent and not answered, oldest first
    linked   \* the socket is up, and with it Connection.isConnected

rpcVars == <<seqid, reqs, wire, linked>>

RpcInit ==
    /\ seqid = 0
    /\ reqs = {}
    /\ wire = <<>>
    /\ linked = TRUE

\* client.<method>(req, callback): register the callback, then send.
SameSeqid == seqid                                      \* mutant: not incremented
NewSeqid == seqid + 1

Call(call) ==
    /\ linked
    /\ seqid' = NewSeqid
    /\ reqs' = reqs \cup {[seq |-> NewSeqid, call |-> call]}
    /\ wire' = Append(wire, [seq |-> NewSeqid, call |-> call])
    /\ UNCHANGED linked

\* recv_<method>: find the callback by the seqid of the reply, and forget it.
KeptCallback(seq) == reqs                               \* mutant: not deleted
Forgotten(seq) == {r \in reqs : r.seq # seq}

\* The reply to the oldest request: whose callback is called.
Recv(call) ==
    /\ linked /\ wire # <<>>
    /\ \E r \in reqs : r.seq = Head(wire).seq /\ r.call = call
    /\ reqs' = Forgotten(Head(wire).seq)
    /\ wire' = Tail(wire)
    /\ UNCHANGED <<seqid, linked>>

\* A callback that calls again in its turn.
RecvAndCall(call, next) ==
    /\ linked /\ wire # <<>>
    /\ \E r \in reqs : r.seq = Head(wire).seq /\ r.call = call
    /\ seqid' = NewSeqid
    /\ reqs' = Forgotten(Head(wire).seq) \cup {[seq |-> NewSeqid, call |-> next]}
    /\ wire' = Append(Tail(wire), [seq |-> NewSeqid, call |-> next])
    /\ UNCHANGED linked

LinkLost == linked /\ linked' = FALSE /\ UNCHANGED <<seqid, reqs, wire>>

-----------------------------------------------------------------------------
\* Seqids tell the calls apart, and the table holds the calls without an answer
\* and no others: each callback runs once at most, with its own answer
\* (IClientRPCService.js:6695-6763).
RpcExact ==
    /\ \A q, r \in reqs : q.seq = r.seq => q = r
    /\ reqs = ToSet(wire)
    /\ Cardinality(reqs) = Len(wire)
=============================================================================

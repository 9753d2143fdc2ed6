----------------------------- MODULE MCConnection -----------------------------
(***************************************************************************)
(* A session from below and from above, model-checked by one run: its      *)
(* connection, a result set that is read over it, the structs and the      *)
(* bytes that cross it, and the cleanup when the process ends.  The parts  *)
(* share no state; a behaviour is one of the part that Init chooses.       *)
(***************************************************************************)
EXTENDS Connection, DataSet, ProcessCleanup, Wire, MCCodec, TLC

CONSTANTS c1, c2

VARIABLE part  \* "connection", "dataset", "cleanup", "wire" or "codec"

sumVars == <<part, vars, dataSetVars, cleanupVars, wireVars, codecVars>>

\* A part that is not chosen stays at one of its initial states.
NoDataSet == DataSetInit /\ style = [r \in Readers |-> "iterator"]
NoWire    == /\ call = NoCall /\ struct = "TSCloseSessionReq" /\ given = {} /\ alien = "no"
             /\ envelope = <<>> /\ message = <<>> /\ object = {} /\ step = "construct"
NoCodec   == /\ kind = "none" /\ sample = <<>> /\ options = <<>> /\ sent = <<>> /\ got = <<>>
             /\ phase = "ready"

SumInit ==
    /\ Init /\ CleanupInit
    /\ \/ part \in {"connection", "cleanup"} /\ NoDataSet /\ NoWire /\ NoCodec
       \/ part = "dataset" /\ DataSetInit /\ NoWire /\ NoCodec
       \/ part = "wire" /\ NoDataSet /\ WireInit /\ NoCodec
       \/ part = "codec" /\ NoDataSet /\ NoWire /\ CodecInit

ConnectionStep(action) ==
    /\ part = "connection"
    /\ action
    /\ UNCHANGED <<part, dataSetVars, cleanupVars, wireVars, codecVars>>

SumNext ==
    \/ ConnectionStep(Next)
    \/ /\ part = "dataset" /\ DataSetNext
       /\ UNCHANGED <<part, vars, cleanupVars, wireVars, codecVars>>
    \/ /\ part = "cleanup" /\ CleanupNext
       /\ UNCHANGED <<part, vars, dataSetVars, wireVars, codecVars>>
    \/ /\ part = "wire" /\ WireNext
       /\ UNCHANGED <<part, vars, dataSetVars, cleanupVars, codecVars>>
    \/ /\ part = "codec" /\ CodecNext
       /\ UNCHANGED <<part, vars, dataSetVars, cleanupVars, wireVars>>

\* The timers of the connection fire, as in Connection!FairSpec.
SumSpec ==
    /\ SumInit /\ [][SumNext]_sumVars
    /\ \A k \in Attempts : WF_sumVars(ConnectionStep(CallTimer(k)))
    /\ \A c \in Closers : WF_sumVars(ConnectionStep(CloseFinish(c)))
=============================================================================

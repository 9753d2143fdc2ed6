------------------------------- MODULE DataSet -------------------------------
(***************************************************************************)
(* A SessionDataSet of a session pool: executeQueryStatement takes a       *)
(* session, the set reads the rows batch by batch over its connection, and *)
(* close() gives the session back.  Rows are numbered in the order of the  *)
(* result.                                                                 *)
(*                                                                         *)
(* Readers iterate, with hasNext() and next() or inside toColumnar(), and  *)
(* everybody may call close() at any time.  One caller reading alone is    *)
(* the intended use; nothing in the code enforces it.                      *)
(***************************************************************************)
EXTENDS RpcClient, FiniteSetsExt

CONSTANTS
    Readers,  \* callers that read
    Owner,    \* the caller of the query, who may close the set at any time
    Rows,     \* number of rows of the result
    Fetch,    \* fetchSize
    MaxRows   \* options.maxRows of toColumnar, 0 for no limit

ASSUME CallersAssumption == Owner \notin Readers
ASSUME RowsAssumption    == Rows \in Nat /\ Fetch \in Nat \ {0} /\ MaxRows \in Nat

VARIABLES
    style,       \* style[r]: "iterator" or "columnar"
    query,       \* executeQueryStatement: "asked", "open" or "failed"
    currentRows, \* this.currentRows
    rowIndex,    \* this.currentRowIndex: rows of the batch already read
    hasMoreData, \* this.hasMoreData
    isClosed,    \* this.isClosed
    released,    \* how often the session has been released
    at,          \* at[r]: where a caller is
    readBy,      \* readBy[r]: rows the reader has got
    cursor,      \* the server: rows sent
    delivered,   \* history: the rows read, in order
    overlapped,  \* history: two fetches were in flight at once
    gap          \* history: the server sent an empty batch before the end

setVars == <<style, query, currentRows, rowIndex, hasMoreData, isClosed, released, at, readBy,
             cursor, delivered, overlapped, gap>>
dataSetVars == <<rpcVars, setVars>>

Callers == Readers \cup {Owner}

DataSetInit ==
    /\ RpcInit
    /\ style \in [Readers -> {"iterator", "columnar"}]
    /\ query = "asking"
    /\ currentRows = <<>>
    /\ rowIndex = 0
    /\ hasMoreData = FALSE
    /\ isClosed = FALSE
    /\ released = 0
    /\ at = [c \in Callers |-> "idle"]
    /\ readBy = [r \in Readers |-> 0]
    /\ cursor = 0
    /\ delivered = <<>>
    /\ overlapped = FALSE
    /\ gap = FALSE

\* Where the reading of a new batch starts.
KeptIndex == rowIndex                                   \* mutant: not reset
FirstRow == 0

\* A batch of the server: up to Fetch rows, and whether there may be more.
Sent(n, more) ==
    /\ n \in 0..Min({Fetch, Rows - cursor})
    /\ more \in BOOLEAN /\ (cursor + n < Rows => more)
    /\ cursor' = cursor + n
    /\ gap' = (gap \/ (n = 0 /\ more))
    /\ currentRows' = [i \in 1..n |-> cursor + i]
    /\ rowIndex' = FirstRow
    /\ hasMoreData' = more

\* pool.executeQueryStatement: a session is taken and the query sent.
Ask ==
    /\ query = "asking"
    /\ Call(<<Owner, "query">>)
    /\ query' = "asked"
    /\ UNCHANGED <<style, currentRows, rowIndex, hasMoreData, isClosed, released, at, readBy,
                   cursor, delivered, overlapped, gap>>

\* Its answer: a set, or an error and the session is released at once.
Answer ==
    /\ query = "asked"
    /\ Recv(<<Owner, "query">>)
    /\ \/ /\ \E n \in 0..Fetch, more \in BOOLEAN : Sent(n, more)
          /\ query' = "open"
          /\ UNCHANGED released
       \/ /\ query' = "failed"
          /\ released' = released + 1
          /\ UNCHANGED <<cursor, gap, currentRows, rowIndex, hasMoreData>>
    /\ UNCHANGED <<style, isClosed, at, readBy, delivered, overlapped>>

-----------------------------------------------------------------------------
(* close() *)

\* What a caller of close() waits for, and where it is afterwards.
After == [closing |-> "idle", ending |-> "complete", failing |-> "threw"]

\* The test at the beginning of close().
ClosesAgain == TRUE                                     \* mutant: flag not looked at
StillOpen == ~ isClosed

\* close() by caller c, which goes on as After[how] says: on a closed set it does
\* nothing; on an open one it calls closeOperation; without a connection getClient()
\* throws and the finally block runs at once.
CloseNothing(c, how) ==
    /\ ~ StillOpen
    /\ at' = [at EXCEPT ![c] = After[how]]
    /\ UNCHANGED <<isClosed, released, rpcVars>>

CloseAsks(c, how) ==
    /\ StillOpen
    /\ isClosed' = TRUE
    /\ Call(<<c, "close">>)
    /\ at' = [at EXCEPT ![c] = how]
    /\ UNCHANGED released

CloseAtOnce(c, how) ==
    /\ StillOpen /\ ~ linked
    /\ isClosed' = TRUE
    /\ released' = released + 1
    /\ at' = [at EXCEPT ![c] = After[how]]
    /\ UNCHANGED rpcVars

Close(c) ==
    /\ query = "open"
    /\ at[c] \in {"idle", "ready"}
    /\ CloseNothing(c, "closing") \/ CloseAsks(c, "closing") \/ CloseAtOnce(c, "closing")
    /\ UNCHANGED <<style, query, currentRows, rowIndex, hasMoreData, readBy, cursor, delivered,
                   overlapped, gap>>

\* closeOperation is answered, well or not: the cleanup callback releases.
Closed(c) ==
    /\ Recv(<<c, "close">>)
    /\ released' = released + 1
    /\ at' = [at EXCEPT ![c] = After[at[c]]]
    /\ UNCHANGED <<style, query, currentRows, rowIndex, hasMoreData, isClosed, readBy, cursor,
                   delivered, overlapped, gap>>

-----------------------------------------------------------------------------
(* hasNext() and next() *)

\* toColumnar() leaves its loop after MaxRows rows, noted as one row more, and
\* calls hasNext() again: are there more?
Limited(r) == style[r] = "columnar" /\ MaxRows > 0
Full(r)    == Limited(r) /\ readBy[r] = MaxRows
Left(r)    == Limited(r) /\ readBy[r] > MaxRows
HasOne(r)  == IF Left(r) THEN "truncated" ELSE "ready"

\* hasNext() without a call: false on a closed set, true on one with rows left.
Look(r) ==
    /\ query = "open" /\ at[r] = "idle"
    /\ \/ isClosed /\ at' = [at EXCEPT ![r] = "ended"]
       \/ ~ isClosed /\ rowIndex < Len(currentRows) /\ at' = [at EXCEPT ![r] = HasOne(r)]
    /\ UNCHANGED <<rpcVars, style, query, currentRows, rowIndex, hasMoreData, isClosed, released,
                   readBy, cursor, delivered, overlapped, gap>>

Exhausted(r) ==
    /\ query = "open" /\ at[r] = "idle"
    /\ ~ isClosed /\ rowIndex >= Len(currentRows)

\* At the end hasNext() closes the set.
Finished(r) ==
    /\ Exhausted(r) /\ ~ hasMoreData
    /\ CloseAsks(r, "ending") \/ CloseAtOnce(r, "ending")
    /\ UNCHANGED <<style, query, currentRows, rowIndex, hasMoreData, readBy, cursor, delivered,
                   overlapped, gap>>

FetchNextBatch(r) ==
    /\ Exhausted(r) /\ hasMoreData
    /\ \/ /\ Call(<<r, "fetch">>)
          /\ at' = [at EXCEPT ![r] = "fetching"]
          /\ overlapped' = (overlapped \/ \E q \in Readers : at[q] = "fetching")
          /\ UNCHANGED <<isClosed, released>>
       \/ /\ CloseAtOnce(r, "failing")
          /\ UNCHANGED overlapped
    /\ UNCHANGED <<style, query, currentRows, rowIndex, hasMoreData, readBy, cursor, delivered,
                   gap>>

\* The batch is there: an empty one makes hasNext() false, and the set stays open.
Fetched(r) ==
    /\ Recv(<<r, "fetch">>)
    /\ \E n \in 0..Fetch, more \in BOOLEAN :
        /\ Sent(n, more)
        /\ at' = [at EXCEPT ![r] = IF n > 0 THEN HasOne(r) ELSE "complete"]
    /\ UNCHANGED <<style, query, isClosed, released, readBy, delivered, overlapped>>

\* Or an error: hasNext() closes the set and throws.
FetchFails(r) ==
    /\ \/ /\ StillOpen
          /\ RecvAndCall(<<r, "fetch">>, <<r, "close">>)
          /\ isClosed' = TRUE
          /\ at' = [at EXCEPT ![r] = "failing"]
       \/ /\ ~ StillOpen
          /\ Recv(<<r, "fetch">>)
          /\ at' = [at EXCEPT ![r] = "threw"]
          /\ UNCHANGED isClosed
    /\ UNCHANGED <<style, query, currentRows, rowIndex, hasMoreData, released, readBy, cursor,
                   delivered, overlapped, gap>>

\* next() checks again; toColumnar() takes what is there.
Refused(r) == style[r] = "iterator" /\ isClosed

Take(r) ==
    /\ at[r] = "ready"
    /\ \/ /\ Full(r)
          /\ at' = [at EXCEPT ![r] = "idle"]
          /\ readBy' = [readBy EXCEPT ![r] = @ + 1]
          /\ UNCHANGED <<rowIndex, delivered>>
       \/ /\ ~ Full(r)
          /\ Refused(r) \/ rowIndex >= Len(currentRows)
          /\ at' = [at EXCEPT ![r] = "threw"]
          /\ UNCHANGED <<rowIndex, readBy, delivered>>
       \/ /\ ~ Full(r) /\ ~ Refused(r) /\ rowIndex < Len(currentRows)
          /\ rowIndex' = rowIndex + 1
          /\ readBy' = [readBy EXCEPT ![r] = @ + 1]
          /\ delivered' = Append(delivered, currentRows[rowIndex + 1])
          /\ at' = [at EXCEPT ![r] = "idle"]
    /\ UNCHANGED <<rpcVars, style, query, currentRows, hasMoreData, isClosed, released, cursor,
                   overlapped, gap>>

Lost == LinkLost /\ UNCHANGED setVars

DataSetNext ==
    \/ Ask \/ Answer \/ Lost
    \/ \E c \in Callers : Close(c) \/ Closed(c)
    \/ \E r \in Readers :
        Look(r) \/ Finished(r) \/ FetchNextBatch(r) \/ Fetched(r) \/ FetchFails(r) \/ Take(r)

DataSetSpec == DataSetInit /\ [][DataSetNext]_dataSetVars

-----------------------------------------------------------------------------
Ascending == \A i, j \in DOMAIN delivered : i < j => delivered[i] < delivered[j]

\* No row is read twice or out of order; unless two fetches overlap none is left
\* out, and a reader that came to the end by itself, without an empty batch on
\* the way, has seen them all, and one told of a truncation, reading alone, has not
\* (SessionDataSet.ts:163-188, 294-300, 356-395).
RowsInOrder ==
    /\ Ascending
    /\ ~ overlapped =>
        /\ delivered = [i \in DOMAIN delivered |-> i]
        /\ \A r \in Readers :
            at[r] = "truncated" /\ (\A q \in Readers \ {r} : readBy[q] = 0) =>
                rowIndex < Len(currentRows)
    /\ ~ overlapped /\ ~ gap =>
        \A r \in Readers : at[r] = "complete" => Len(delivered) = Rows

\* The session goes back to the pool once: after a failed query, or when the set
\* has been closed and closeOperation has been answered, whoever closes it and
\* however often (BaseSessionPool.ts:379-394, SessionDataSet.ts:399-444).
SessionBackOnce ==
    /\ released <= 1
    /\ released = 1 => query = "failed" \/ isClosed
    /\ isClosed /\ (\A c \in Callers : at[c] \notin DOMAIN After) => released = 1
=============================================================================

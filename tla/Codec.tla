-------------------------------- MODULE Codec --------------------------------
(***************************************************************************)
(* A tablet on its way to the server, or a result on its way back: the one *)
(* side writes bytes, the other side reads them.  Every behaviour is one   *)
(* of the samples, the constants, of what the program or the server sends. *)
(*                                                                         *)
(* A table is a block or a data set: a record of times and columns.        *)
(***************************************************************************)
EXTENDS TabletCodec, ResultCodec

CONSTANTS
    TabletRequests, \* what insertTablets is called with: sequences of tablets
    BlockResults,   \* what a query is answered with: sequences of tables,
    DataSets,       \* or tables
    Mappings        \* places of columns in a row, counted from 0; none: their order

\* Rows that are null have a value only for the reader.
ValuesOf(type) == IF type = Boolean THEN {0, 1} ELSE IF type \in Texts THEN Nat ELSE Int
IsColumn(values, type, n) ==
    /\ values \in Seq(ValuesOf(type) \cup {Null})
    /\ Len(values) = n

IsTablet(tablet) ==
    /\ tablet.times \in Seq(Int \cup {Infinite})
    /\ tablet.types \in Seq(DataTypes)
    /\ tablet.columns \in Seq(Seq(Int \cup {Null}))
    /\ Len(tablet.columns) = Len(tablet.types)
    /\ \A c \in DOMAIN tablet.types :
         IsColumn(tablet.columns[c], tablet.types[c], Len(tablet.times))
    /\ tablet.dates \in BOOLEAN

\* A run-length encoding needs one value for all rows.
IsTable(table) ==
    /\ table.times \in Seq(Int)
    /\ table.columns \in Seq([type : DataTypes, encoding : Nat, values : Seq(Int \cup {Null})])
    /\ \A c \in DOMAIN table.columns :
         LET column == table.columns[c]
         IN  /\ IsColumn(column.values, column.type, Len(table.times))
             /\ \/ column.encoding = EncodingOf(column.type)
                \/ /\ column.encoding = Rle
                   /\ \E v \in ToSet(column.values) : ToSet(column.values) = {v}

ASSUME SampleAssumption ==
    /\ \A tablets \in TabletRequests : /\ tablets = [t \in 1..Len(tablets) |-> tablets[t]]
                                       /\ Len(tablets) \in Nat
                                       /\ \A t \in DOMAIN tablets : IsTablet(tablets[t])
    /\ \A blocks \in BlockResults : /\ blocks = [b \in 1..Len(blocks) |-> blocks[b]]
                                    /\ Len(blocks) \in Nat
                                    /\ \A b \in DOMAIN blocks : IsTable(blocks[b])
    /\ \A table \in DataSets : IsTable(table)
    /\ Mappings \subseteq Seq(Nat)

VARIABLES
    kind,    \* "tablet", "blocks" or "dataset"
    sample,  \* what is sent
    options, \* how: a record of the settings for this kind
    sent,    \* what is on the wire
    got,     \* what the other side has read
    phase    \* "ready", "thrown", "sent" or "read"

codecVars == <<kind, sample, options, sent, got, phase>>

-----------------------------------------------------------------------------
TabletSample ==
    /\ kind = "tablet"
    /\ sample \in TabletRequests
    /\ options \in [fast : BOOLEAN, hit : BOOLEAN]

ResultSample ==
    /\ \/ kind = "blocks" /\ sample \in BlockResults
       \/ kind = "dataset" /\ sample \in {<<table>> : table \in DataSets}
    /\ options \in [ignoreTimeStamp : BOOLEAN, mapping : Mappings \cup {<<>>},
                    littleTimes : BOOLEAN]
    /\ IF kind = "dataset" THEN ~ options.ignoreTimeStamp ELSE ~ options.littleTimes
    /\ \A b \in DOMAIN sample : \A c \in DOMAIN options.mapping :
         options.mapping[c] < Len(sample[b].columns)

CodecInit ==
    /\ TabletSample \/ ResultSample
    /\ sent = <<>>
    /\ got = <<>>
    /\ phase = "ready"

-----------------------------------------------------------------------------
(* Sending and reading *)

\* insertTablets throws, or sends all tablets in one request.
SendTablets ==
    /\ phase = "ready" /\ kind = "tablet"
    /\ \/ /\ \E t \in DOMAIN sample : Throws(sample[t])
          /\ phase' = "thrown"
          /\ UNCHANGED sent
       \/ /\ \A t \in DOMAIN sample : ~ Throws(sample[t])
          /\ sent' = TabletsRequest(sample, options.fast, options.hit)
          /\ phase' = "sent"
    /\ UNCHANGED <<kind, sample, options, got>>

ServerReads ==
    /\ phase = "sent" /\ kind = "tablet"
    /\ got' = [t \in DOMAIN sample |-> TabletRead(sent, t)]
    /\ phase' = "read"
    /\ UNCHANGED <<kind, sample, options, sent>>

\* Blocks are big-endian.  For the times of a data set, either order is tried: the
\* code reads them as little-endian, its comments call a data set big-endian.
ServerSends ==
    /\ phase = "ready" /\ kind # "tablet"
    /\ sent' = IF kind = "blocks"
               THEN [b \in DOMAIN sample |-> BlockSent(sample[b].times, sample[b].columns)]
               ELSE DataSetSent(sample[1].times, sample[1].columns, options.littleTimes)
    /\ phase' = "sent"
    /\ UNCHANGED <<kind, sample, options, got>>

\* executeQueryStatement and fetchNextBatch: blocks, or a data set.
ParseRows ==
    /\ phase = "sent" /\ kind # "tablet"
    /\ got' = IF kind = "blocks" THEN ParseQueryResult(sent, options.ignoreTimeStamp)
              ELSE ParseDataSet(sent, [c \in DOMAIN sample[1].columns |->
                                          sample[1].columns[c].type])
    /\ phase' = "read"
    /\ UNCHANGED <<kind, sample, options, sent>>

CodecNext == SendTablets \/ ServerReads \/ ServerSends \/ ParseRows

CodecSpec == CodecInit /\ [][CodecNext]_codecVars

-----------------------------------------------------------------------------
\* Row i of block b, and what the server sent in it in the column with name c.
Place(b, i) == [block |-> b, row |-> i]
Places == FlattenSeq([b \in DOMAIN sample |-> [i \in DOMAIN sample[b].times |-> Place(b, i)]])

ColumnNames(b) == IF options.mapping = <<>> THEN DOMAIN sample[b].columns
                  ELSE DOMAIN options.mapping
Named(b, c)   == sample[b].columns[IF options.mapping = <<>> THEN c ELSE options.mapping[c] + 1]

TabletArrives(tablet, read) ==
    /\ read.rest = 0
    /\ \A i \in DOMAIN tablet.times :
        2 * read.times[i] <= tablet.times[i] /\ tablet.times[i] < 2 * read.times[i] + 2
    /\ \A c \in DOMAIN tablet.columns : \A i \in DOMAIN tablet.times :
        LET v == tablet.columns[c][i]
            x == read.columns[c][i]
        IN  IF v # Null /\ tablet.types[c] = Date /\ tablet.dates
            THEN x # Null /\ x * Day <= v /\ v < (x + 1) * Day
            ELSE x = v

\* By the name c, the program gets x for what the server sent.
ValueArrives(column, i, x) ==
    LET v == column.values[i]
    IN  IF v = Null THEN IsNull(x) \/ (kind = "blocks" /\ column.type = Boolean)
        ELSE x = IF kind = "dataset" THEN Converted(column.type, v) ELSE v

\* The time of a row of a data set arrives if the server writes it little-endian.
TimeArrives(b, i, time) ==
    IF options.ignoreTimeStamp THEN time = 0
    ELSE kind = "blocks" \/ options.littleTimes => time = sample[b].times[i]

RowArrives(row, place) ==
    LET b == place.block
        i == place.row
    IN  /\ TimeArrives(b, i, TimestampOf(row, options.ignoreTimeStamp))
        /\ \A c \in ColumnNames(b) :
             ValueArrives(Named(b, c), i,
                          GetValue(row, options.ignoreTimeStamp, options.mapping, c))

\* Values, nulls and times arrive on the other side at their place, whatever is
\* around them: those of the tablets of an insert, with either serializer and
\* whatever buffer the pool has, and those of the columns of a result, by their
\* names; but for the null booleans of a block, and for the times of a data set
\* whose server writes them in the order it writes the values in
\* (Session.ts:592-878, 892-1048, 1112-1370, FastSerializer.ts, ColumnDecoder.ts).
CodecSound ==
    phase = "read" =>
        IF kind = "tablet"
        THEN \A t \in DOMAIN sample : TabletArrives(sample[t], got[t])
        ELSE /\ Len(got) = Len(Places)
             /\ \A r \in DOMAIN got : RowArrives(got[r], Places[r])

\* "All data types support null values" (docs/data-types.md:198): a null that the
\* server sends is a null for the program.
NullsKept ==
    phase = "read" /\ kind # "tablet" =>
        \A r \in DOMAIN got : \A c \in ColumnNames(Places[r].block) :
            Named(Places[r].block, c).values[Places[r].row] = Null =>
                IsNull(GetValue(got[r], options.ignoreTimeStamp, options.mapping, c))
=============================================================================

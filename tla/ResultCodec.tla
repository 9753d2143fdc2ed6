----------------------------- MODULE ResultCodec -----------------------------
(***************************************************************************)
(* How the bytes of a query result become rows: TsBlocks, read by the      *)
(* decoders of ColumnDecoder.ts, and the older TSQueryDataSet, a buffer    *)
(* per column with a bitmap.                                               *)
(*                                                                         *)
(* The server's side is written from what the code reads.  A column of a   *)
(* block is a record of its type, its encoding, the encoding of the one    *)
(* value of a run, and the values.                                         *)
(***************************************************************************)
EXTENDS Bytes

\* ColumnEncoding
ByteArray   == 0
Int32Array  == 1
Int64Array  == 2
BinaryArray == 3
Rle         == 4

EncodingOf(type) ==
    IF type = Boolean THEN ByteArray
    ELSE IF type \in Fours THEN Int32Array
    ELSE IF type \in Eights THEN Int64Array
    ELSE BinaryArray

-----------------------------------------------------------------------------
(* The server writes a block *)

NullRows(values) == {i \in DOMAIN values : values[i] = Null}
TrueRows(values) == {i \in DOMAIN values : values[i] = 1}

Indicators(values) ==
    IF NullRows(values) = {} THEN Put(0, 1)
    ELSE Put(1, 1) \o Bits(NullRows(values), Len(values), HighFirst)

ArraySent(type, values) ==
    Indicators(values) \o
        IF type = Boolean THEN Bits(TrueRows(values), Len(values), HighFirst)
        ELSE FlattenSeq([i \in DOMAIN values |->
                 IF values[i] = Null THEN <<>> ELSE PutItem(type, values[i])])

ColumnSent(column) ==
    IF column.encoding = Rle
    THEN Put(EncodingOf(column.type), 1) \o ArraySent(column.type, SubSeq(column.values, 1, 1))
    ELSE ArraySent(column.type, column.values)

TimeColumn(times) == [type |-> Timestamp, encoding |-> Int64Array, values |-> times]

BlockSent(times, columns) ==
    Put(Len(columns), 4)
        \o FlattenSeq([c \in DOMAIN columns |-> Put(columns[c].type, 1)])
        \o Put(Len(times), 4)
        \o Put(Int64Array, 1)
        \o FlattenSeq([c \in DOMAIN columns |-> Put(columns[c].encoding, 1)])
        \o ColumnSent(TimeColumn(times))
        \o FlattenSeq([c \in DOMAIN columns |-> ColumnSent(columns[c])])

-----------------------------------------------------------------------------
(* The decoders: the values, and the bytes read up to off *)

\* A flag and, when it is set, a bitmap.
LowBits(buf, off, n) == RowsSet(buf, off, n, LowFirst)  \* mutant: the other bit order
BooleanArray(buf, off, n) == RowsSet(buf, off, n, HighFirst)

NullIndicators(buf, off, n) ==
    IF Get(buf, off, 1) = 0 THEN [rows |-> {}, off |-> off + 1]
    ELSE [rows |-> BooleanArray(buf, off + 1, n), off |-> off + 1 + ByteCount(n)]

Failure(off) == [values |-> <<>>, off |-> off, failed |-> TRUE]
Success(values, off) == [values |-> values, off |-> off, failed |-> FALSE]

\* The rows that are null take no space.
SkippingNulls(type, buf, off, n) ==
    LET nulls == NullIndicators(buf, off, n)
        items == Items(type, buf, nulls.off, n, nulls.rows)
    IN  Success(items.values, items.off)

Int32ArrayColumn(buf, off, type, n) ==
    IF type \in Fours THEN SkippingNulls(type, buf, off, n) ELSE Failure(off)

Int64ArrayColumn(buf, off, type, n) ==
    IF type \in Eights THEN SkippingNulls(type, buf, off, n) ELSE Failure(off)

BinaryArrayColumn(buf, off, type, n) ==
    IF type \in Texts THEN SkippingNulls(type, buf, off, n) ELSE Failure(off)

\* Booleans have a bit for every row.  The null indicators are returned, but the
\* values are not null, and nobody looks at the indicators.
ByteArrayColumn(buf, off, type, n) ==
    LET nulls == NullIndicators(buf, off, n)
        trues == BooleanArray(buf, nulls.off, n)
    IN  IF type # Boolean THEN Failure(off)
        ELSE Success([i \in 1..n |-> IF i \in trues THEN 1 ELSE 0], nulls.off + ByteCount(n))

ArrayColumn(encoding, buf, off, type, n) ==
    CASE encoding = Int32Array  -> Int32ArrayColumn(buf, off, type, n)
      [] encoding = Int64Array  -> Int64ArrayColumn(buf, off, type, n)
      [] encoding = ByteArray   -> ByteArrayColumn(buf, off, type, n)
      [] encoding = BinaryArray -> BinaryArrayColumn(buf, off, type, n)
      [] OTHER -> Failure(off)

\* One value for all rows, behind the encoding it has.
RunLengthColumn(buf, off, type, n) ==
    LET inner == ArrayColumn(Get(buf, off, 1), buf, off + 1, type, 1)
    IN  [inner EXCEPT !.values = [i \in 1..n |-> inner.values[1]]]

ReadColumn(encoding, buf, off, type, n) ==
    IF encoding = Rle THEN RunLengthColumn(buf, off, type, n)
    ELSE ArrayColumn(encoding, buf, off, type, n)

\* parseTsBlock: rows of the time, unless it is to be ignored, and the values.  The
\* time column is there in any case.
NoTimeColumn(ignoreTimeStamp) == ~ ignoreTimeStamp      \* mutant: not there when ignored
HasTimeColumn(ignoreTimeStamp) == TRUE

ParseTsBlock(buf, ignoreTimeStamp) ==
    LET count == Get(buf, 0, 4)
        n     == Get(buf, 4 + count, 4)
        Type(c)     == Get(buf, 4 + c - 1, 1)
        Encoding(c) == Get(buf, 9 + count + c - 1, 1)
        head  == 9 + 2 * count
        time  == IF HasTimeColumn(ignoreTimeStamp)
                 THEN ReadColumn(Get(buf, 8 + count, 1), buf, head, Timestamp, n)
                 ELSE Success(<<>>, head)
        ends[c \in 0..count] ==
            IF c = 0 THEN time.off ELSE ReadColumn(Encoding(c), buf, ends[c - 1], Type(c), n).off
        columns == [c \in 1..count |-> ReadColumn(Encoding(c), buf, ends[c - 1], Type(c), n)]
    IN  [r \in 1..n |->
            (IF ignoreTimeStamp THEN <<>> ELSE <<time.values[r]>>)
                \o [c \in 1..count |-> columns[c].values[r]]]

\* parseQueryResult: the blocks one after the other.
ParseQueryResult(blocks, ignoreTimeStamp) ==
    FlattenSeq([b \in DOMAIN blocks |-> ParseTsBlock(blocks[b], ignoreTimeStamp)])

-----------------------------------------------------------------------------
(* TSQueryDataSet *)

\* The server: a value of fixed width at its row, with anything for a null, or
\* texts one behind the other; a set bit for a value.
DataSetColumnSent(column) ==
    [valueBuffer |-> FlattenSeq([i \in DOMAIN column.values |->
                        IF column.values[i] # Null THEN PutItem(column.type, column.values[i])
                        ELSE IF column.type \in Texts THEN <<>>
                        ELSE Put(0, Width(column.type))]),
     bitmap |-> IF NullRows(column.values) = {} THEN <<>>
                ELSE Bits(DOMAIN column.values \ NullRows(column.values),
                          Len(column.values), LowFirst)]

\* The times are in one buffer, in either order.
DataSetSent(times, columns, little) ==
    [time    |-> FlattenSeq([i \in DOMAIN times |->
                     IF little THEN PutLE(times[i], 8) ELSE Put(times[i], 8)]),
     columns |-> [c \in DOMAIN columns |-> DataSetColumnSent(columns[c])]]

\* isNull: without a bitmap, or behind its end, there is no null.
AtBit(bitmap, i) == bitmap # <<>> /\ i \notin RowsSet(bitmap, 0, 8 * Len(bitmap), LowFirst)
                        /\ i <= 8 * Len(bitmap)

\* What the program gets for a stored number.
Converted(type, v) == IF type = Date THEN v * Day ELSE v

\* deserializeColumn.  Texts end with the buffer: nulls behind the last text are
\* missing from the values, which makes them undefined in the rows.
DeserializeColumn(buffer, type, rowCount, bitmap) ==
    LET nulls == {i \in 1..rowCount : AtBit(bitmap, i)}
        Fixed(i) == IF i \in nulls THEN Null
                    ELSE Converted(type, Get(buffer, (i - 1) * Width(type), Width(type)))
        at[i \in 0..rowCount] ==
            IF i = 0 THEN 0
            ELSE LET here == at[i - 1]
                 IN  IF here >= Len(buffer) \/ i \in nulls THEN here
                     ELSE here + 4 + GetText(buffer, here)
        Text(i) == IF i \in nulls THEN Null ELSE GetText(buffer, at[i - 1])
    IN  IF type \in Texts
        THEN [i \in {k \in 1..rowCount : at[k - 1] < Len(buffer)} |-> Text(i)]
        ELSE [i \in 1..rowCount |-> Fixed(i)]

\* parseDataSet: the times are read as little-endian, all values as big-endian.
ParseDataSet(dataset, types) ==
    LET rowCount == Len(dataset.time) \div 8
        parsed == [c \in DOMAIN dataset.columns |->
                      DeserializeColumn(dataset.columns[c].valueBuffer, types[c], rowCount,
                                        dataset.columns[c].bitmap)]
        ValueAt(c, i) == IF i \in DOMAIN parsed[c] THEN parsed[c][i] ELSE Undefined
    IN  [i \in 1..rowCount |->
            <<GetLE(dataset.time, (i - 1) * 8, 8)>> \o [c \in DOMAIN parsed |-> ValueAt(c, i)]]

-----------------------------------------------------------------------------
(* SessionDataSet and RowRecord *)

\* The place in a row of the column with some name: the server's mapping, if any.
ByPosition(mapping, c) == c                             \* mutant: mapping not used
IndexOf(mapping, c) == IF mapping = <<>> THEN c ELSE mapping[c] + 1

\* next(): the timestamp and the fields of a row.
TimestampOf(row, ignoreTimeStamp) == IF ignoreTimeStamp THEN 0 ELSE row[1]
FieldsOf(row, ignoreTimeStamp)    == IF ignoreTimeStamp THEN row ELSE Tail(row)

\* RowRecord.getValue of a column, by its name.
GetValue(row, ignoreTimeStamp, mapping, c) ==
    FieldsOf(row, ignoreTimeStamp)[IndexOf(mapping, c)]
=============================================================================

----------------------------- MODULE TabletCodec -----------------------------
(***************************************************************************)
(* How insertTablet and insertTablets put tablets into bytes, with the     *)
(* serializers of Session.ts or the fast ones of FastSerializer.ts, which  *)
(* write large columns into a buffer of the buffer pool.                   *)
(*                                                                         *)
(* A tablet is a record of types, columns (a sequence of values each),     *)
(* times in halves of a millisecond, and dates: whether the program gives  *)
(* the values of DATE and TIMESTAMP columns as Date objects.               *)
(***************************************************************************)
EXTENDS Bytes

CONSTANTS
    PoolFrom,    \* columns and times of as many bytes take a buffer of the pool
    SizeClasses  \* lengths of these buffers

ASSUME PoolAssumption == SizeClasses # {} /\ SizeClasses \subseteq Nat

-----------------------------------------------------------------------------
(* BufferPool *)

SizeClass(n) == LET fitting == {c \in SizeClasses : n <= c}
                IN  IF fitting = {} THEN n ELSE Min(fitting)

\* The length of what acquire(n) returns: a new buffer has that of its class, one
\* that comes out of the pool, a hit, is cut to n.
Acquired(n, hit) == IF hit THEN n ELSE SizeClass(n)

\* Neither kind is cleared.
Dirty(n) == [k \in 1..n |-> <<Garbage, k, n>>]

\* Bytes that are written into a buffer of the pool, if there are enough of them, and
\* cut off behind the last one.
Uncut(buf, size) == buf                                 \* mutant: no subarray
Cut(buf, size) == SubSeq(buf, 1, size)

InPooled(cells, hit) ==
    LET size  == Len(cells)
        taken == IF size >= PoolFrom THEN Acquired(size, hit) ELSE size
    IN  Cut([k \in 1..taken |-> IF k <= size THEN cells[k] ELSE Dirty(taken)[k]], size)

-----------------------------------------------------------------------------
(* Columns *)

\* What is written for a value: null is 0, false or an empty text, a Date is a
\* number of days, rounded down, or of milliseconds.
TruncatedDays(ms) == IF ms < 0 THEN - ((- ms) \div Day) ELSE ms \div Day  \* mutant: towards 0
DaysOf(ms) == ms \div Day

Stored(type, dates, v) ==
    IF v = Null THEN 0
    ELSE IF type = Date /\ dates THEN DaysOf(v)
    ELSE v

\* writeInt32BE throws a RangeError.
Fits(type, x) == type \in {1, Date} => x \in (- MaxInt32 - 1)..MaxInt32

Numbers(type, dates, column) == [i \in DOMAIN column |-> Stored(type, dates, column[i])]

SerializeColumn(type, numbers) ==
    FlattenSeq([i \in DOMAIN numbers |-> PutItem(type, numbers[i])])

\* The fast one: BOOLEAN columns never take a pooled buffer.
SerializeColumnFast(type, numbers, hit) ==
    LET cells == SerializeColumn(type, numbers)
    IN  IF type = Boolean THEN cells ELSE InPooled(cells, hit)

\* A bitmap per column, behind a flag: none when the column has no null.
NullsIn(column) == {i \in DOMAIN column : column[i] = Null}

HighBits(rows, n) == Bits(rows, n, HighFirst)           \* mutant: the other bit order
NullBits(rows, n) == Bits(rows, n, LowFirst)

SerializeBitMap(column, rowCount) ==
    IF NullsIn(column) = {} THEN Put(0, 1)
    ELSE Put(1, 1) \o NullBits(NullsIn(column), rowCount)

SerializeBitMaps(columns, rowCount) ==
    FlattenSeq([c \in DOMAIN columns |-> SerializeBitMap(columns[c], rowCount)])

\* fast: enableFastSerialization.
SerializeTabletValues(tablet, fast, hit) ==
    LET Column(c) ==
            LET numbers == Numbers(tablet.types[c], tablet.dates, tablet.columns[c])
            IN  IF fast THEN SerializeColumnFast(tablet.types[c], numbers, hit)
                ELSE SerializeColumn(tablet.types[c], numbers)
    IN  FlattenSeq([c \in DOMAIN tablet.types |-> Column(c)])
            \o SerializeBitMaps(tablet.columns, Len(tablet.times))

\* Timestamps are rounded down; one that is not finite is refused.
SerializeTimestamps(times, fast, hit) ==
    LET cells == FlattenSeq([i \in DOMAIN times |-> Put(times[i] \div 2, 8)])
    IN  IF fast THEN InPooled(cells, hit) ELSE cells

\* Does an insert throw before anything is sent?
Throws(tablet) ==
    \/ \E i \in DOMAIN tablet.times : tablet.times[i] = Infinite
    \/ \E c \in DOMAIN tablet.types : \E i \in DOMAIN tablet.columns[c] :
         ~ Fits(tablet.types[c], Stored(tablet.types[c], tablet.dates, tablet.columns[c][i]))

\* The request of insertTablets: a list of each part; insertTablet sends one.
TabletsRequest(tablets, fast, hit) ==
    [typesList      |-> [i \in DOMAIN tablets |-> tablets[i].types],
     sizeList       |-> [i \in DOMAIN tablets |-> Len(tablets[i].times)],
     timestampsList |-> [i \in DOMAIN tablets |->
                            SerializeTimestamps(tablets[i].times, fast, hit)],
     valuesList     |-> [i \in DOMAIN tablets |->
                            SerializeTabletValues(tablets[i], fast, hit)]]

-----------------------------------------------------------------------------
(* The server: columns one behind the other, then their bitmaps *)

TabletRead(req, t) ==
    LET types == req.typesList[t]
        size  == req.sizeList[t]
        buf   == req.valuesList[t]
        count == Len(types)
        ends[c \in 0..count] ==
            IF c = 0 THEN 0 ELSE Items(types[c], buf, ends[c - 1], size, {}).off
        maps[c \in 0..count] ==
            IF c = 0 THEN ends[count]
            ELSE LET flag == maps[c - 1]
                 IN  flag + 1 + (IF Get(buf, flag, 1) = 0 THEN 0 ELSE ByteCount(size))
        Nulls(flag) == IF Get(buf, flag, 1) = 0 THEN {}
                       ELSE RowsSet(buf, flag + 1, size, LowFirst)
        Column(c) ==
            LET values == Items(types[c], buf, ends[c - 1], size, {}).values
                nulls  == Nulls(maps[c - 1])
            IN  [i \in 1..size |-> IF i \in nulls THEN Null ELSE values[i]]
    IN  [times   |-> Items(2, req.timestampsList[t], 0, size, {}).values,
         columns |-> [c \in 1..count |-> Column(c)],
         rest    |-> Len(buf) - maps[count]]
=============================================================================

-------------------------------- MODULE Bytes --------------------------------
(***************************************************************************)
(* Buffers of the formats of tablets and results.  A buffer is a sequence  *)
(* of bytes, and byte k of a value v that takes w of them, the most        *)
(* significant one first, is <<v, k, w>>: what is read at a wrong place,   *)
(* in a wrong width or in the wrong order is Garbage.                      *)
(*                                                                         *)
(* A text or a blob of n bytes is stood for by the number n.               *)
(***************************************************************************)
EXTENDS Integers, Sequences, FiniteSets, SequencesExt, FiniteSetsExt

CONSTANTS
    Day,       \* milliseconds of a day, scaled down
    MaxInt32,  \* the largest INT32, scaled down
    Null,      \* null
    Undefined, \* undefined
    Infinite   \* a number that is not finite

ASSUME NumberAssumption == /\ Day \in Nat \ {0}
                           /\ MaxInt32 \in Nat
                           /\ {Null, Undefined, Infinite} \cap Int = {}

\* What a misplaced read gives; no length of a text.
Garbage == -903

IsNull(v) == v \in {Null, Undefined}

\* TSDataType: the codes on the wire, by their width.
Boolean   == 0
Date      == 9
Timestamp == 8
Fours     == {1, 3, 9}    \* INT32, FLOAT, DATE
Eights    == {2, 4, 8}    \* INT64, DOUBLE, TIMESTAMP
Texts     == {5, 10, 11}  \* TEXT, BLOB, STRING
DataTypes == {Boolean} \cup Fours \cup Eights \cup Texts

Width(type) == IF type = Boolean THEN 1 ELSE IF type \in Fours THEN 4 ELSE 8

-----------------------------------------------------------------------------
\* Big-endian, and little-endian.
Put(v, w)   == [k \in 1..w |-> <<v, k, w>>]
PutLE(v, w) == [k \in 1..w |-> <<v, w + 1 - k, w>>]

\* Read w bytes behind the first off ones, in either order.
Get(buf, off, w) ==
    IF off >= 0 /\ off + w <= Len(buf) /\ \A k \in 1..w : buf[off + k] = <<buf[off + 1][1], k, w>>
    THEN buf[off + 1][1]
    ELSE Garbage

GetLE(buf, off, w) ==
    IF /\ off >= 0 /\ off + w <= Len(buf)
       /\ \A k \in 1..w : buf[off + k] = <<buf[off + 1][1], w + 1 - k, w>>
    THEN buf[off + 1][1]
    ELSE Garbage

\* A length and so many bytes.
PutText(n) == Put(n, 4) \o Put(n, n)
GetText(buf, off) ==
    LET n == Get(buf, off, 4)
    IN  IF n = 0 \/ (n # Garbage /\ Get(buf, off + 4, n) = n) THEN n ELSE Garbage

PutItem(type, v) == IF type \in Texts THEN PutText(v) ELSE Put(v, Width(type))
GetItem(type, buf, off) ==
    IF type \in Texts THEN GetText(buf, off) ELSE Get(buf, off, Width(type))

SizeOf(type, v) == IF type \in Texts THEN 4 + v ELSE Width(type)

\* Read the items of rows 1..n one behind the other, but for the rows in skip,
\* which take no space and are null: the values, and where the reading ends.
Items(type, buf, off, n, skip) ==
    LET at[i \in 0..n] == IF i = 0 THEN off
                          ELSE LET here == at[i - 1]
                               IN  IF i \in skip THEN here
                                   ELSE here + SizeOf(type, GetItem(type, buf, here))
    IN  [values |-> [i \in 1..n |-> IF i \in skip THEN Null ELSE GetItem(type, buf, at[i - 1])],
         off    |-> at[n]]

-----------------------------------------------------------------------------
(* Bits, eight rows to a byte *)

ByteCount(n) == (n + 7) \div 8

\* The weights of the rows of a byte: the first row in the lowest, or the highest, bit.
LowFirst  == <<1, 2, 4, 8, 16, 32, 64, 128>>
HighFirst == <<128, 64, 32, 16, 8, 4, 2, 1>>

\* Byte b of a bitmap with the bits of rows set.
Byte(rows, b, weights) ==
    LET Bit(k) == IF 8 * (b - 1) + k \in rows THEN weights[k] ELSE 0
    IN  Bit(1) + Bit(2) + Bit(3) + Bit(4) + Bit(5) + Bit(6) + Bit(7) + Bit(8)

\* The bitmap of n rows.
Bits(rows, n, weights) == [b \in 1..ByteCount(n) |-> <<Byte(rows, b, weights), 1, 1>>]

\* The rows of 1..n whose bit is set in the bitmap behind the first off bytes.
RowsSet(buf, off, n, weights) ==
    {i \in 1..n : (Get(buf, off + (i - 1) \div 8, 1) \div weights[1 + ((i - 1) % 8)]) % 2 = 1}
=============================================================================

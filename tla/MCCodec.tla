------------------------------- MODULE MCCodec -------------------------------
(***************************************************************************)
(* Samples for TLC: two columns, the second one of any type with nulls     *)
(* anywhere, in a bitmap of one byte or of two.                            *)
(***************************************************************************)
EXTENDS Codec

Values(type) == IF type = Boolean THEN 0..1
                ELSE IF type \in Texts THEN 0..2
                ELSE {- Day - 1, -1, 0, Day - 1}

\* Columns of up to two rows, and of nine: a byte of a bitmap and one bit.
Short(type) == UNION {[1..n -> Values(type) \cup {Null}] : n \in 1..2}
LongNulls   == {{}, {1}, {8}, {9}, {1, 8, 9}, 1..9}
Spread(type, i) == SetToSeq(Values(type))[1 + (i % Cardinality(Values(type)))]
Long(type)  == {[i \in 1..9 |-> IF i \in nulls THEN Null ELSE Spread(type, i)] :
                   nulls \in LongNulls}

\* The other column: texts, or numbers with a null at the end.
Others(n) == {[type |-> 5, values |-> [i \in 1..n |-> i % 3]],
              [type |-> 1, values |-> [i \in 1..n |-> IF i = n THEN Null ELSE i % 3]]}

\* The two columns, with their types.
Pairs == UNION {UNION {{<<other, [type |-> type, values |-> column]>> :
                           other \in Others(Len(column))} :
                       column \in Short(type) \cup Long(type)} : type \in DataTypes}

\* Times in halves of a millisecond: whole, fractional and negative, or not finite.
Times(n) == {[i \in 1..n |-> 2 * i], [i \in 1..n |-> 2 * i - 5],
             [i \in 1..n |-> IF i = n THEN Infinite ELSE i]}

\* A second tablet, or a second block, is behind the one in question.
OneRow(type) == [types |-> <<type>>, columns |-> <<<<1>>>>, times |-> <<6>>, dates |-> FALSE]

Tablet(pair, times, dates) ==
    [types |-> <<pair[1].type, pair[2].type>>, columns |-> <<pair[1].values, pair[2].values>>,
     times |-> times, dates |-> dates]

SomeTablets ==
    UNION {{<<Tablet(pair, times, dates), OneRow(pair[2].type)>> :
               times \in Times(Len(pair[2].values)),
               dates \in {d \in BOOLEAN : d => pair[2].type \in {Date, Timestamp}}} :
           pair \in Pairs}

Encoded(column, run) ==
    [type |-> column.type, encoding |-> IF run THEN Rle ELSE EncodingOf(column.type),
     values |-> column.values]

TableOf(pair, run) ==
    [times |-> [i \in DOMAIN pair[2].values |-> i],
     columns |-> <<Encoded(pair[1], FALSE), Encoded(pair[2], run)>>]

SomeTables == {TableOf(pair, FALSE) : pair \in Pairs}
Runs == {TableOf(pair, TRUE) : pair \in {p \in Pairs : Cardinality(ToSet(p[2].values)) = 1}}

TwoRows(types) ==
    TableOf(<<CHOOSE o \in Others(2) : o.type = types[1],
              [type |-> types[2], values |-> <<Null, 1>>]>>, FALSE)

SomeBlocks == {<<t, TwoRows([c \in 1..2 |-> t.columns[c].type])>> : t \in SomeTables \cup Runs}

SomeMappings == {<<0, 1>>, <<1, 0>>, <<1, 1>>}
=============================================================================

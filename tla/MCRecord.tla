------------------------------ MODULE MCRecord ------------------------------
(***************************************************************************)
(* Values of Record's constants for TLC.                                   *)
(***************************************************************************)
EXTENDS Record

ColumnType(name, len) == [name |-> name, len |-> len]

SmallTypes ==
    {ColumnType("int", WordBytes), ColumnType("float", WordBytes),
     ColumnType("varchar", 2), ColumnType("char", 2), ColumnType("binary", 2)}

SmallChars == {"0", "1", ".", "x", "a", Quote, " "}

\* One literal per way a statement can go wrong: too long for the column, too
\* long for the converter, of each type, at a boundary; a float that prints with
\* an exponent, and one whose dot is behind the characters that are read.
SmallProbes ==
    {<<"1">>, <<"1", ".", "1">>, <<"0", ".", "0", "1", "2">>,
     <<"1", "1", "1", "1", "1", ".", "1">>, <<Quote, "a", Quote>>, <<Quote, "a", " ", Quote>>,
     <<Quote, "a", "a", "a", Quote>>, <<Quote, "a", "a", "a", "a", Quote>>,
     <<"1", "x", "a">>, <<"1", "x", "a", "a", "a", "0">>,
     <<"1", "x", "1", "1", "1", "1", "1">>,
     <<"1", "x", "1", "1", "1", "1", "1", "1", "1">>}
=============================================================================

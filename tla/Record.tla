------------------------------- MODULE Record -------------------------------
(***************************************************************************)
(* One literal on its way through the program: typed, lexed, converted,    *)
(* validated, kept as the default of a column or written into a row, read  *)
(* back, compared with a WHERE clause, turned into an index key, saved in a*)
(* schema file and read again at the next start.                           *)
(*                                                                         *)
(* The table has a column a of any type and a column b of type int; it     *)
(* holds at most one row, since Table models what happens to several.      *)
(***************************************************************************)
EXTENDS Analyzer

CONSTANTS
    Chars,      \* characters that are typed
    MaxText,    \* how many, for the literal of CREATE TABLE and INSERT
    Types,      \* column types of a
    Probes,     \* texts of the other literals of INSERT, UPDATE and WHERE
    NoRow

VARIABLES
    text,       \* what is typed before CREATE TABLE
    schema,     \* the table in memory, <<>> if there is none
    declared,   \* history: the default of a that CREATE TABLE gave
    row,        \* the serialized row
    given,      \* history: the values that the statements gave the row
    life        \* "up"; "dead" after a memory error; "closed": the schema
                \* file does not load
vars == <<text, schema, declared, row, given, life>>

Only(t) == LET tokens == Tokens(t) IN Len(tokens) = 2 /\ IsLiteral(tokens[1])

ProbeLiterals == {Tokens(t)[1] : t \in Probes}
Typed == IF Only(text) THEN {Tokens(text)[1]} ELSE {}
Literals == ProbeLiterals \cup Typed

IntType == [name |-> "int", len |-> WordBytes]
One == [type |-> "int", val |-> 1]
Nine == Tokens(<<"9">>)[1]

Column(name, type, default) ==
    [name |-> name, type |-> type, default |-> default]

Init ==
    /\ text = <<>>
    /\ schema = <<>>
    /\ declared = NoDefault
    /\ row = NoRow
    /\ given = <<>>
    /\ life = "up"

Type(c) ==
    /\ schema = <<>>
    /\ Len(text) < MaxText
    /\ text' = Append(text, c)
    /\ UNCHANGED <<schema, declared, row, given, life>>

\* A text that is no literal, or none for the column, is refused.
Retype ==
    /\ schema = <<>> /\ text # <<>>
    /\ text' = <<>>
    /\ UNCHANGED <<schema, declared, row, given, life>>

\* plan_create_table: a default is converted and validated.
CreateTable(type, default) ==
    /\ schema = <<>>
    /\ default # NoDefault => Validates(type, default)
    /\ schema' = <<Column("a", type, default), Column("b", IntType, One)>>
    /\ declared' = default
    /\ UNCHANGED <<text, row, given, life>>

Written(values) == [c \in DOMAIN schema |-> Serialize(schema[c].type, values[c])]

Stored == [c \in DOMAIN schema |-> Deserialize(schema[c].type, row[c])]

NotValidated == Failed("does not fit the column")

\* What a statement says of the columns by name.
Meant(assigns, before) ==
    [c \in DOMAIN schema |->
        LET said == {i \in DOMAIN assigns : assigns[i].column = schema[c].name}
            value == ConvertValue(assigns[CHOOSE i \in said : TRUE].token)
        IN  IF said = {} THEN before[c]
            ELSE IF Validates(schema[c].type, value) THEN value ELSE NotValidated]

Insert(assigns) ==
    /\ life = "up" /\ schema # <<>> /\ row = NoRow
    /\ InsertAccepts(schema, assigns)
    /\ row' = Written(InsertValues(schema, assigns))
    /\ given' = Meant(assigns, <<declared, One>>)
    /\ UNCHANGED <<text, schema, declared, life>>

Delete(where) ==
    /\ life = "up" /\ row # NoRow
    /\ WhereAccepts(schema, where)
    /\ TRUE \in MatchesWhere(schema, Stored, where)
    /\ row' = NoRow /\ given' = <<>>
    /\ UNCHANGED <<text, schema, declared, life>>

\* fill_update_row takes the assignments that compare equal for no change.  A
\* literal of another type is compared with whatever bits it finds in the row;
\* bits that compare equal to a literal of the column's type are that value,
\* and it makes no difference to take it.
Equal(assigns) ==
    LET Place(i) == ColumnIndex(schema, assigns[i].column)
        New(i) == ConvertValue(assigns[i].token)
        fits == {i \in DOMAIN assigns : TypeMatches(schema[Place(i)].type, New(i))}
        same == {i \in fits : /\ Stored[Place(i)] # Garbage
                              /\ CompareValue(New(i), Stored[Place(i)]) = 0}
    IN  {same \cup any : any \in SUBSET (DOMAIN assigns \ fits)}

Updated(assigns, equal) ==
    [c \in DOMAIN schema |->
        LET i == Assigned(schema, assigns, c) \ equal
        IN  IF i = {} THEN Stored[c]
            ELSE ConvertValue(assigns[CHOOSE j \in i : TRUE].token)]

CanWrite(values) ==
    \A c \in DOMAIN schema : values[c] = Garbage \/ ~Overruns(schema[c].type, values[c])

\* A value of another type in a char or a binary has any length.
MayOverrun(values) ==
    \E c \in DOMAIN schema :
        BlankCell(schema[c].type)
            /\ (values[c] # Garbage => ~Validates(schema[c].type, values[c]))

\* execute_update for the row, if a value changes: the old one is flagged
\* before the new one is serialized.
Update(assigns, where) ==
    /\ life = "up" /\ row # NoRow
    /\ UpdateAccepts(schema, assigns) /\ WhereAccepts(schema, where)
    /\ TRUE \in MatchesWhere(schema, Stored, where)
    /\ \E equal \in Equal(assigns) \ {DOMAIN assigns} :
          LET values == Updated(assigns, equal)
          IN  \/ /\ CanWrite(values)
                 /\ row' = Written(values)
                 /\ given' = Meant(assigns, given)
                 /\ life' = "up"
              \/ /\ MayOverrun(values)
                 /\ row' = NoRow /\ given' = <<>>
                 /\ life' = "dead"
    /\ UNCHANGED <<text, schema, declared>>

\* The start reads the schema file, which holds the default as a literal, and
\* writes it again.
Restart ==
    /\ schema # <<>>
    /\ LET type == schema[1].type
           default == IF schema[1].default = NoDefault THEN NoDefault
                      ELSE ReadDefault(FormatLiteral(type, schema[1].default))
       IN  IF default # NoDefault /\ default.type = "none"
           THEN life' = "closed" /\ UNCHANGED schema
           ELSE life' = "up" /\ schema' = [schema EXCEPT ![1].default = default]
    /\ UNCHANGED <<text, declared, row, given>>

Assigns(literal) ==
    {[i \in DOMAIN names |->
        [column |-> names[i], token |-> IF names[i] = "b" THEN Nine ELSE literal]] :
      names \in {<<"a">>, <<"b">>, <<"a", "b">>, <<"b", "a">>, <<"a", "a">>,
                 <<"a", "z">>}}

Where(column, op, literal) == <<[column |-> column, op |-> op, token |-> literal]>>

Next ==
    \/ \E c \in Chars : Type(c)
    \/ Retype
    \/ \E type \in Types, literal \in (IF text = <<>> THEN ProbeLiterals ELSE Typed) :
          \E default \in {NoDefault, ConvertValue(literal)} :
              CreateTable(type, default)
    \/ \E literal \in Literals : \E assigns \in Assigns(literal) : Insert(assigns)
    \/ \E literal \in Literals, op \in {"=", "<"} : Delete(Where("a", op, literal))
    \/ \E literal \in ProbeLiterals : \E assigns \in Assigns(literal) :
          Update(assigns, Where("b", "!=", Nine))
    \/ Restart

Spec == Init /\ [][Next]_vars
-----------------------------------------------------------------------------
(***************************************************************************)
(* Properties                                                              *)
(***************************************************************************)
NoZeros(digits) == Len(digits) > 1 => digits[1] # "0"

DecimalsOf(lexeme) == Len(lexeme) - SelectInSeq(lexeme, LAMBDA c : c = ".")

\* An integer literal without superfluous zeros in front becomes that number
\* or is refused, though only the first characters of it are read; a float
\* literal becomes its digits with the dot where it was typed, if the literal
\* is not longer than what is read of it; a hex literal becomes the bytes of
\* its digits, whether their number is even or odd.
LiteralsExact ==
    \A token \in Literals :
        LET value == ConvertValue(token)
            digits == SelectSeq(token.lexeme, LAMBDA c : c # ".")
        IN  CASE value.type = "int" /\ NoZeros(token.lexeme) ->
                    value.val = Decimal(token.lexeme)
              [] value.type = "float" /\ Len(token.lexeme) =< FloatBuf
                    /\ DecimalsOf(token.lexeme) =< Decimals ->
                    value.val * 10^DecimalsOf(token.lexeme) = Decimal(digits) * Unit
              [] value.type = "binary" ->
                    FlattenSeq(value.val) \in {token.lexeme, <<"0">> \o token.lexeme}
              [] OTHER -> TRUE

\* A float that is printed with a dot, without an exponent and with all its
\* digits.
PrintsExactly(value) ==
    value.type = "float" =>
        /\ Rounded(value.val) = value.val
        /\ Contains(FloatText(value.val), ".")
        /\ ~Contains(FloatText(value.val), "e")

\* The default of a column survives saving, starting and saving again, and its
\* schema goes on loading.  Not so for a float that prints without a dot: it
\* comes back as an integer, whose bits do not even print as a literal; nor for
\* one that prints with an exponent, which is no literal.
DefaultsSurvive ==
    schema # <<>> /\ (declared # NoDefault => PrintsExactly(declared)) =>
        life # "closed" /\ schema[1].default = declared

Stripped(value) ==
    CASE value.type = "string" -> [value EXCEPT !.val = TrimEnd(@)]
      [] value.type = "binary" ->
            LET last == {i \in DOMAIN value.val : value.val[i] # <<"0", "0">>}
            IN  [value EXCEPT !.val =
                    SubSeq(@, 1, IF last = {} THEN 0 ELSE Max(last))]
      [] OTHER -> value

ExactDefault == declared = NoDefault \/ PrintsExactly(declared)

Sound(c) == ExactDefault /\ given[c] # NotValidated

\* A row gives back the values that INSERT and UPDATE named or defaulted for
\* its columns, whatever their order, but for the spaces of a char and the
\* zeros of a binary at the end.  An UPDATE is not validated: only columns with a
\* value they could have been inserted with are meant.
ReadBack ==
    row # NoRow => \A c \in DOMAIN schema : Sound(c) =>
        /\ Stored[c] # Garbage
        /\ IF schema[c].type.name = "varchar" THEN Stored[c] = given[c]
           ELSE Stripped(Stored[c]) = Stripped(given[c])

EndsInSpace(type, value) == type.name = "char" /\ TrimEnd(value.val) # value.val

PartLengths(type) == 1..(IF type.name \in {"int", "float"} THEN WordBytes ELSE type.len)

\* The key a row was inserted with is the key of the value it reads back and
\* of every literal that WHERE finds equal to it: deleting the row finds the
\* entry, and an index scan finds every row that a table scan finds.  Not so
\* for a char given with spaces at its end.
KeyAgrees ==
    row # NoRow /\ Sound(1) /\ ~EndsInSpace(schema[1].type, given[1]) =>
        \A u \in {Stored[1]} \cup
                 {ConvertValue(t) : t \in {l \in Literals :
                     LET where == Where("a", "=", l)
                     IN  WhereAccepts(schema, where)
                            /\ TRUE \in MatchesWhere(schema, Stored, where)}} :
            \A len \in PartLengths(schema[1].type) :
                KeyPart(u, len) = KeyPart(given[1], len)

Rows(type) ==
    {v \in {ConvertValue(t) : t \in Literals} :
        v.type # "none" /\ Validates(type, v) /\ ~EndsInSpace(type, v)}

\* The order of whole key parts is the order in which WHERE compares the values
\* that the rows read back; of cut parts of strings and binaries the compare says equal
\* only of equal bytes.  (A cut int reads past its bytes: Words.)
KeysDecide ==
    schema # <<>> =>
        LET type == schema[1].type
            Read(v) == Deserialize(type, Serialize(type, v))
        IN  \A u, v \in Rows(type), len \in PartLengths(type) :
                LET a == KeyPart(u, len)
                    b == KeyPart(v, len)
                IN  IF len = Max(PartLengths(type))
                    THEN CompareParts(type, a, b) = {CompareValue(Read(u), Read(v))}
                    ELSE type.name \notin {"int", "float"} =>
                            (0 \in CompareParts(type, a, b) <=> a = b)
=============================================================================

------------------------------ MODULE Analyzer ------------------------------
(***************************************************************************)
(* What the validator and the analyzer of DML make of the names and the    *)
(* literals of a statement (engine/dml/validator.c, engine/dml/analyzer.c).*)
(*                                                                         *)
(* A schema is a sequence of [name, type, default]; an assignment is       *)
(* [column, token], a condition [column, op, token].  A default is a value,*)
(* or NoDefault.                                                           *)
(***************************************************************************)
EXTENDS Values

CONSTANT NoDefault

\* The check of the assignments in validate_insert and validate_update.
DistinctColumns(assigns) ==
    \A i, j \in DOMAIN assigns : assigns[i].column = assigns[j].column => i = j

\* find_column_index; 0 is "not present"
ColumnIndex(schema, name) ==
    SelectInSeq(schema, LAMBDA column : column.name = name)

Known(schema, names) == \A name \in names : ColumnIndex(schema, name) # 0

Columns(items) == {items[i].column : i \in DOMAIN items}

Converts(token) == ConvertValue(token).type # "none"

Assigned(schema, assigns, c) ==
    {i \in DOMAIN assigns : ColumnIndex(schema, assigns[i].column) = c}

\* analyze_insert
InsertAccepts(schema, assigns) ==
    /\ DistinctColumns(assigns)
    /\ Len(assigns) =< Len(schema)
    /\ Known(schema, Columns(assigns))
    /\ \A i \in DOMAIN assigns :
          Validates(schema[ColumnIndex(schema, assigns[i].column)].type,
                    ConvertValue(assigns[i].token))
    /\ \A c \in DOMAIN schema :
          Assigned(schema, assigns, c) # {} \/ schema[c].default # NoDefault

BugByPosition(schema, assigns) ==
    [c \in DOMAIN schema |->
        IF c =< Len(assigns) THEN ConvertValue(assigns[c].token)
        ELSE schema[c].default]

InsertValues(schema, assigns) ==
    [c \in DOMAIN schema |->
        LET given == Assigned(schema, assigns, c)
        IN  IF given = {} THEN schema[c].default
            ELSE ConvertValue(assigns[CHOOSE i \in given : TRUE].token)]

\* analyze_update: the values are converted and not validated.
UpdateAccepts(schema, assigns) ==
    /\ DistinctColumns(assigns)
    /\ Known(schema, Columns(assigns))
    /\ \A i \in DOMAIN assigns : Converts(assigns[i].token)

\* analyze_where_conditions
WhereAccepts(schema, where) ==
    /\ Known(schema, Columns(where))
    /\ \A i \in DOMAIN where :
          /\ Converts(where[i].token)
          /\ TypeMatches(schema[ColumnIndex(schema, where[i].column)].type,
                         ConvertValue(where[i].token))

\* compare_matches_op
OpMatches(op, sign) ==
    \/ op = "=" /\ sign = 0
    \/ op = "!=" /\ sign # 0
    \/ op = "<" /\ sign < 0
    \/ op = "<=" /\ sign =< 0
    \/ op = ">" /\ sign > 0
    \/ op = ">=" /\ sign >= 0

\* What matches_where may answer for a row of values; garbage compares in
\* any way.
MatchesWhere(schema, values, where) ==
    LET Value(i) == values[ColumnIndex(schema, where[i].column)]
        Holds(i) == OpMatches(where[i].op,
                              CompareValue(Value(i), ConvertValue(where[i].token)))
        clear == {i \in DOMAIN where : Value(i) # Garbage}
    IN  IF \E i \in clear : ~Holds(i) THEN {FALSE}
        ELSE IF clear = DOMAIN where THEN {TRUE} ELSE BOOLEAN
=============================================================================

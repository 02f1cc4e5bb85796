------------------------------ MODULE MCTable ------------------------------
(* Instances of Table for TLC. *)
EXTENDS TableInvariants

CONSTANTS a, b, x, y, z

\* Index 1 on column a, index 2 on both columns.
TwoIndexes == [i \in {1, 2} |-> IF i = 1 THEN {a} ELSE {a, b}]
OneIndex == [i \in {1} |-> {a}]

WholeValues == [i \in Index |-> [c \in Column |-> [v \in Value |-> v]]]

NoPadding == [v \in Value |-> v]

\* WHERE clauses: none, a column, all columns; and a predicate no index serves.
Only(c, v) == [d \in {c} |-> v]
Clauses ==
    {[eq |-> <<>>, rest |-> Row],
     [eq |-> Only(a, x), rest |-> Row],
     [eq |-> [c \in Column |-> y], rest |-> Row],
     [eq |-> <<>>, rest |-> {r \in Row : r[a] # x}]}

Assignments == {Only(c, y) : c \in Column}
=============================================================================

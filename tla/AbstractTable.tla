--------------------------- MODULE AbstractTable ---------------------------
(***************************************************************************)
(* What a table promises to the one who types the statements: a bag of     *)
(* rows with unique keys.  A statement takes effect as a whole when it     *)
(* answers; one that cannot keep the keys unique changes nothing.          *)
(***************************************************************************)
EXTENDS Integers, FiniteSets

CONSTANTS
    Row, Index, Where, Assignment,
    KeyOf(_, _),      \* the key of a row in an index
    Satisfies(_, _),  \* does the row satisfy the WHERE clause?
    Assign(_, _)      \* the row after the SET clause

VARIABLES
    rows,    \* how often each row is in the table
    keys,    \* indexes defined
    doing,   \* the statement under way, or "none"
    answer

relation == <<rows, keys, doing, answer>>

Present(bag) == {r \in Row : bag[r] > 0}

Unique(bag, i) ==
    \A r, s \in Present(bag) :
        /\ bag[r] = 1
        /\ KeyOf(i, r) = KeyOf(i, s) => r = s

Plus(bag, r) == [bag EXCEPT ![r] = @ + 1]

Minus(bag, w) == [r \in Row |-> IF Satisfies(w, r) THEN 0 ELSE bag[r]]

Kept(bag, w) == [r \in Row |-> IF Satisfies(w, r) THEN bag[r] ELSE 0]

\* The rows of a bag one by one: a row and which of its copies it is.
Copies(bag) == UNION {{r} \X (1..bag[r]) : r \in Row}

Updated(r, w, asg) == IF Satisfies(w, r) THEN Assign(r, asg) ELSE r

Moved(bag, w, asg) ==
    [r \in Row |-> Cardinality({c \in Copies(bag) : Updated(c[1], w, asg) = r})]

\* Some row would have the key of another row, as that was or as it will be.
Clashes(bag, w, asg) ==
    \E i \in keys :
        \/ ~Unique(Moved(bag, w, asg), i)
        \/ \E r, s \in Present(bag) :
            Satisfies(w, r) /\ r # s /\ KeyOf(i, Assign(r, asg)) = KeyOf(i, s)

\* What the statement under way may make of the bag.
Effect(bag, after) ==
    \/ doing = "insert" /\ \E r \in Row : after = Plus(bag, r)
    \/ doing = "delete" /\ \E w \in Where : after = Minus(bag, w)
    \/ /\ doing = "update"
       /\ \E w \in Where, asg \in Assignment : after = Moved(bag, w, asg)
    \/ doing \notin {"insert", "delete", "update"} /\ after = bag

Ask ==
    /\ doing = "none"
    /\ doing' # "none"
    /\ answer' = [outcome |-> "none"]
    /\ rows' = IF doing' = "truncate" THEN [r \in Row |-> 0] ELSE rows
    /\ IF doing' = "drop_index" THEN \E i \in keys : keys' = keys \ {i}
       ELSE UNCHANGED keys

Define ==
    /\ doing = "create_index"
    /\ \E i \in Index \ keys : Unique(rows, i) /\ keys' = keys \cup {i}
    /\ UNCHANGED <<rows, doing, answer>>

Done ==
    /\ doing # "none"
    /\ doing' = "none"
    /\ answer' = [outcome |-> "ok"]
    /\ Effect(rows, rows')
    /\ \A i \in keys : Unique(rows', i)
    /\ UNCHANGED keys

\* The process dies: the statement had its effect, or had none.
Die ==
    /\ doing # "none"
    /\ doing' = "none"
    /\ answer' = [outcome |-> "died"]
    /\ rows' = rows \/ Effect(rows, rows')
    /\ UNCHANGED keys

Duplicate ==
    /\ doing = "none"
    /\ answer'.outcome = "duplicate"
    /\ \E s \in Present(rows) : \E i \in keys :
        KeyOf(i, answer'.row) = KeyOf(i, s)
    /\ UNCHANGED <<rows, keys, doing>>

Conflict ==
    /\ doing = "none"
    /\ answer' = [outcome |-> "conflict"]
    /\ \/ \E w \in Where, asg \in Assignment : Clashes(rows, w, asg)
       \/ \E i \in Index \ keys : ~Unique(rows, i)
    /\ UNCHANGED <<rows, keys, doing>>

Select ==
    /\ doing = "none"
    /\ answer'.outcome = "rows"
    /\ answer'.where \in Where
    /\ answer'.rows = Kept(rows, answer'.where)
    /\ UNCHANGED <<rows, keys, doing>>

Init ==
    /\ rows = [r \in Row |-> 0]
    /\ keys = {}
    /\ doing = "none"
    /\ answer = [outcome |-> "none"]

Next == Ask \/ Define \/ Done \/ Die \/ Select \/ Duplicate \/ Conflict
=============================================================================

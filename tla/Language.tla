------------------------------ MODULE Language ------------------------------
(***************************************************************************)
(* The statements maxQL promises (README.md, "Example"; the statements of  *)
(* parser/ast.h) and the schema files it writes (schema_save_table,        *)
(* index_serialize), as sets of sentences up to a length.  In a sentence   *)
(* "x" stands for every identifier, "1" for every number, "v" for every    *)
(* literal and "?" for every comparison.                                   *)
(***************************************************************************)
EXTENDS Naturals, Sequences

S \bullet T == {s \o t : s \in S, t \in T}
Opt(S) == S \cup {<<>>}

\* One to n items of S with separators between them
ListOf(S, separator, n) ==
    LET list[k \in 1..n] ==
            IF k = 1 THEN S
            ELSE S \cup (S \bullet {<<separator>>} \bullet list[k - 1])
    IN  list[n]

\* Up to n items of S, with a comma behind each
Lines(S, n) ==
    LET lines[k \in 0..n] ==
            IF k = 0 THEN {<<>>}
            ELSE Opt(S \bullet {<<",">>} \bullet lines[k - 1])
    IN  lines[n]

X == {<<"x">>}
InParens(S) == {<<"(">>} \bullet S \bullet {<<")">>}
Assignments(n) == {<<"set">>} \bullet ListOf({<<"x", "=", "v">>}, ",", n)
Where(n) == {<<"where">>} \bullet ListOf({<<"x", "?", "v">>}, "and", n)
Sized(S) == S \bullet Opt(InParens({<<"1">>}))
Definition == Sized({<<"x", "x">>}) \bullet Opt({<<"default", "v">>})

SelectSentences(n) ==
    {<<"select">>} \bullet ({<<"*">>} \cup ListOf(X, ",", n)) \bullet {<<"from", "x">>}
        \bullet Opt({<<"ignore_index">>}) \bullet Opt(Where(n))

ChangeSentences(n) ==
    ({<<"delete", "from", "x">>} \bullet Where(n))
        \cup ({<<"insert", "into", "x">>} \bullet Assignments(n))
        \cup ({<<"update", "x">>} \bullet Assignments(n) \bullet Where(n))

CreateSentences(n) ==
    ({<<"create", "table", "x">>} \bullet InParens(ListOf(Definition, ",", n)))
        \cup ({<<"create">>} \bullet Opt({<<"unique">>}) \bullet {<<"index", "x">>}
                 \bullet Opt({<<"using", "x">>}) \bullet {<<"on", "x">>}
                 \bullet InParens(ListOf(Sized(X), ",", n)))

PlainSentences ==
    {<<"drop", "table", "x">>, <<"drop", "index", "x", "on", "x">>,
     <<"truncate", "x">>, <<"show", "tables">>, <<"show", "table", "x">>,
     <<"show", "index", "types">>, <<"show", "index", "on", "x">>}

Queries(n, defs) ==
    (SelectSentences(n) \cup ChangeSentences(n) \cup CreateSentences(defs)
        \cup PlainSentences) \bullet Opt({<<";">>}) \bullet {<<"EOF">>}

SchemaTexts(n) ==
    {<<"table", "(", "columns">>} \bullet InParens(Lines(Definition, n) \ {<<>>})
        \bullet {<<",", "indexes">>}
        \bullet InParens(Lines({<<"x", "unique", "x">>}
                 \bullet InParens(ListOf({<<"x", "(", "1", ")">>}, ",", n)), n))
        \bullet {<<",", ")">>}
=============================================================================

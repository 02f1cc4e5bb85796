------------------------------ MODULE MCParser ------------------------------
(***************************************************************************)
(* Values of Parser's constants for TLC: one vocabulary per family of      *)
(* statements, with the keywords that the family could confuse.            *)
(***************************************************************************)
EXTENDS Parser

Text(start, opening, words, most) ==
    [start |-> start, opening |-> opening, words |-> words, most |-> most]

SmallInputs ==
    <<Text("query", <<>>, {"create", "drop", "truncate", "show", "table", "tables",
                           "unique", "index", "types", "on", "x", ";"}, 5),
      Text("query", <<"select">>, {"from", "where", "ignore_index", "x", "*", ",", ";"}, 8),
      Text("query", <<"select", "*", "from", "x">>,
           {"where", "and", "ignore_index", "x", "<=", "1", ";"}, 12),
      Text("query", <<"delete">>, {"from", "where", "and", "x", "=", "'s'", ";"}, 11),
      Text("query", <<"insert">>, {"into", "set", "x", "=", ",", "'s'", ";"}, 11),
      Text("query", <<"update">>, {"set", "where", "and", "x", "=", ",", "0x1", ";"}, 11),
      Text("query", <<"create", "table">>, {"default", "x", "(", ")", ",", "1", ";"}, 12),
      Text("query", <<"create", "index">>, {"using", "on", "x", "(", ")", ",", "1"}, 10),
      Text("schema", <<"table", "(", "columns", "(">>,
           {"indexes", "default", "x", "(", ")", ",", "1"}, 10),
      Text("schema", <<"table", "(", "columns", "(", "x", "x", ",", ")", ",", "indexes", "(">>,
           {"unique", "x", "(", ")", ",", "1"}, 22)>>
=============================================================================

--------------------------- MODULE MCDefinitions ---------------------------
(***************************************************************************)
(* Values of the constants of Definitions for TLC: one statement per way a *)
(* definition can go wrong, and the largest ones.                          *)
(***************************************************************************)
EXTENDS Definitions

Col(name, kind, len) ==
    [name |-> name, kind |-> kind, len |-> len, default |-> NoDefault]

Default(type, len) == [type |-> type, len |-> len]

Part(column, len) == [column |-> column, len |-> len]

Lengths == {NoLen, 0, 1, 128, 129, 255, 256, 257}

OneColumn ==
    {<<Col("a", kind, len)>> :
        kind \in DOMAIN TypeInfo \cup {"text"}, len \in Lengths}

WithDefault ==
    {<<[Col("a", kind, len) EXCEPT !.default = d]>> :
        kind \in DOMAIN TypeInfo \ {"float"}, len \in {NoLen, 2},
        d \in {Default("int", 4), Default("string", 2), Default("string", 3),
               Default("binary", 2), Default("binary", 3)}}

Wide(name) == Col(name, "varchar", 255)

SeveralColumns ==
    {<<Col("a", "int", NoLen), Wide("b")>>,
     <<Col("a", "char", 128), Col("b", "int", NoLen), Col("c", "binary", 128)>>,
     <<Wide("a"), Wide("b"), Wide("c"), Wide("d")>>,
     <<Col("a", "int", NoLen), Wide("b"), Wide("c"), Wide("d"), Wide("e")>>,
     <<Wide("a"), Wide("a")>>,
     <<Wide("a"), Wide("B")>>,
     <<Wide("a"), Wide("long")>>}

SmallTables == OneColumn \cup WithDefault \cup SeveralColumns

KeyParts ==
    {<<Part(column, len)>> :
        column \in {"a", "b", "z"}, len \in {NoLen, 0, 1, 4, 5, 255, 256}}
    \cup {<<Part("b", NoLen), Part("a", NoLen)>>,
          <<Part("c", 128), Part("a", 3)>>,
          <<Part("a", 1), Part("a", 2)>>,
          <<Part("d", NoLen), Part("b", 255), Part("c", NoLen), Part("a", 255)>>,
          <<Part("a", 1), Part("b", 1), Part("c", 1), Part("d", 1), Part("e", 1)>>}

Stmt(name, type, is_unique, parts) ==
    [name |-> name, type |-> type, is_unique |-> is_unique, parts |-> parts]

SmallIndexes ==
    {Stmt(name, "", TRUE, parts) : name \in {"i", "j"}, parts \in KeyParts}
    \cup {Stmt("i", "hash", TRUE, <<Part("a", NoLen)>>),
          Stmt("i", "btree", FALSE, <<Part("a", NoLen)>>),
          Stmt("k", "btree", TRUE, <<Part("a", NoLen)>>),
          Stmt("long", "", TRUE, <<Part("a", NoLen)>>)}
=============================================================================

------------------------------ MODULE Grammar ------------------------------
(***************************************************************************)
(* What the parser (parser/) does with each kind of statement and with a   *)
(* schema file: every parse_x function of the code is a sequence of the    *)
(* steps that primitives.c offers.  Parser takes the steps.                *)
(*                                                                         *)
(* A token is its spelling, and the spelling of a symbol is its type.      *)
(* Every word is an identifier, the keywords too; "x" stands for the words *)
(* that are no keywords.                                                   *)
(***************************************************************************)
EXTENDS Naturals, SequencesExt

Keywords ==
    {"select", "from", "ignore_index", "where", "and", "delete", "insert", "into",
     "set", "update", "create", "table", "default", "unique", "index", "using",
     "on", "drop", "truncate", "show", "tables", "types", "columns", "indexes"}
Operators == {"=", "!=", "<", "<=", ">", ">="}

TypeOf(token) ==
    CASE token \in Keywords \cup {"x"} -> "IDENT"
      [] token = "1" -> "NUMBER"
      [] token = "'s'" -> "STRING"
      [] token = "0x1" -> "HEX"
      [] OTHER -> token

(***************************************************************************)
(* Steps (primitives.c).                                                   *)
(***************************************************************************)
\* parser_expect, parser_expect_keyword
Expect(token) == [do |-> "expect", of |-> {token}]
\* parser_accept where the result is not kept
Skip(token) == [do |-> "skip", of |-> {token}]
\* parser_accept_keyword whose result is a field of the statement
Flag(token) == [do |-> "flag", of |-> {token}]
\* parse_ident, parse_number
Field(role, type) == [do |-> "field", role |-> role, of |-> {type}]
\* parse_value
Value(role) == [do |-> "field", role |-> role, of |-> {"NUMBER", "STRING", "HEX"}]
\* parse_comparison_op
Operator(role) == [do |-> "field", role |-> role, of |-> Operators]
\* a call of another function
Call(function) == [do |-> "call", call |-> function]
\* if accepted, or if not, a call; a call whose result is returned; a call for
\* as long as the token is accepted
If(token, function) == [do |-> "if", of |-> {token}, call |-> function]
Unless(token, function) == [do |-> "unless", of |-> {token}, call |-> function]
Return(token, function) == [do |-> "return", of |-> {token}, call |-> function]
While(token, function) == [do |-> "while", of |-> {token}, call |-> function]
\* while not ")" and no error yet
UntilParen(function) == [do |-> "until", call |-> function]
Type(type) == [do |-> "type", type |-> type]
Fail == [do |-> "fail"]

Name(role) == Field(role, "IDENT")
List(separator, item) == <<Call(item), While(separator, item)>>
Length == <<Field("len", "NUMBER"), Expect(")")>>
KeyPart == <<Name("part"), If("(", "length")>>
Assignment == <<Name("set"), Expect("="), Value("to")>>
Condition == <<Name("where"), Operator("op"), Value("value")>>
ConditionList == List("and", "condition")
ColumnDef ==
    <<Name("define"), Name("type"), If("(", "length"), If("default", "default")>>

(***************************************************************************)
(* Statements (parser.c).                                                  *)
(***************************************************************************)
End == <<Skip(";"), Expect("EOF")>>

BugFlagLost ==
    <<Type("select"), Unless("*", "idents"), Expect("from"), Name("from"),
      Skip("ignore_index"), If("where", "conditions")>> \o End

\* columns only if there is no star
ParseSelect ==
    <<Type("select"), Unless("*", "idents"), Expect("from"), Name("from"),
      Flag("ignore_index"), If("where", "conditions")>> \o End

ParseDelete ==
    <<Type("delete"), Expect("from"), Name("from"), Expect("where")>> \o
    ConditionList \o End

BugUsingRequired(unique) ==
    <<Type(IF unique THEN "create unique" ELSE "create"), Name("index"),
      Expect("using"), Name("using"), Expect("on"), Name("on"), Expect("(")>> \o
    List(",", "key part") \o <<Expect(")")>> \o End

ParseInsert ==
    <<Type("insert"), Expect("into"), Name("into"), Expect("set")>> \o
    List(",", "assignment") \o End

BugWhereOptional ==
    <<Type("update"), Name("alone"), Expect("set")>> \o List(",", "assignment") \o
    <<If("where", "conditions")>> \o End

ParseUpdate ==
    <<Type("update"), Name("alone"), Expect("set")>> \o List(",", "assignment") \o
    <<Expect("where")>> \o ConditionList \o End

ParseCreateTable ==
    <<Type("create"), Name("table"), Expect("(")>> \o List(",", "column") \o
    <<Expect(")")>> \o End

\* The flag is_unique is a parameter in the code.
ParseCreateIndex(unique) ==
    <<Type(IF unique THEN "create unique" ELSE "create"), Name("index"),
      If("using", "using"), Expect("on"), Name("on"), Expect("(")>> \o
    List(",", "key part") \o <<Expect(")")>> \o End

ParseDropTable == <<Type("drop"), Name("table")>> \o End
ParseDropIndex == <<Type("drop"), Name("index"), Expect("on"), Name("on")>> \o End
ParseTruncateTable == <<Type("truncate"), Name("alone")>> \o End
ParseShowTables == <<Type("show tables")>> \o End
ParseShowTable == <<Type("show"), Name("table")>> \o End
ParseShowIndex == <<Type("show index"), Expect("on"), Name("on")>> \o End
ParseShowIndexTypes == <<Type("show index types")>> \o End

\* A create, drop or show without a known word behind it is an error, and the
\* alternatives after it are still tried.
ParseQuery ==
    <<Return("select", "select"), Return("delete", "delete"),
      Return("insert", "insert"), Return("update", "update"),
      If("create", "create"), If("drop", "drop"),
      Return("truncate", "truncate"), If("show", "show"), Fail>>

CreateQuery ==
    <<Return("table", "create table"), Return("unique", "create unique"),
      Return("index", "create index"), Fail>>

DropQuery == <<Return("table", "drop table"), Return("index", "drop index"), Fail>>

ShowQuery ==
    <<Return("tables", "show tables"), Return("table", "show table"),
      Return("index", "show index"), Fail>>

(***************************************************************************)
(* Schema files (schema_parser.c).                                         *)
(***************************************************************************)
ParseIndexDef ==
    <<Name("kind"), Flag("unique"), Name("name"), Expect("(")>> \o
    List(",", "key part") \o <<Expect(")")>>

ParseSchema ==
    <<Type("schema"), Expect("table"), Expect("("),
      Expect("columns"), Expect("("), UntilParen("schema column"),
      Expect(")"), Skip(","),
      Expect("indexes"), Expect("("), UntilParen("schema index"),
      Expect(")"), Skip(","), Expect(")")>>

\* The functions by the names that Call, If, ... use.
Function ==
    "select" :> ParseSelect @@
    "delete" :> ParseDelete @@ "insert" :> ParseInsert @@ "update" :> ParseUpdate @@
    "create" :> CreateQuery @@ "create table" :> ParseCreateTable @@
    "create unique" :> (<<Expect("index")>> \o ParseCreateIndex(TRUE)) @@
    "create index" :> ParseCreateIndex(FALSE) @@
    "drop" :> DropQuery @@ "drop table" :> ParseDropTable @@
    "drop index" :> ParseDropIndex @@ "truncate" :> ParseTruncateTable @@
    "show" :> ShowQuery @@ "show tables" :> ParseShowTables @@
    "show table" :> ParseShowTable @@
    "show index" :> (<<Return("types", "show index types")>> \o ParseShowIndex) @@
    "show index types" :> ParseShowIndexTypes @@
    "idents" :> List(",", "ident") @@ "ident" :> <<Name("column")>> @@
    "length" :> Length @@ "key part" :> KeyPart @@ "assignment" :> Assignment @@
    "condition" :> Condition @@ "conditions" :> ConditionList @@
    "column" :> ColumnDef @@ "default" :> <<Value("default")>> @@
    "using" :> <<Name("using")>> @@
    "schema column" :> (<<Call("column"), Skip(",")>>) @@
    "schema index" :> (ParseIndexDef \o <<Skip(",")>>)
=============================================================================

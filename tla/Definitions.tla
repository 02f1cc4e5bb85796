----------------------------- MODULE Definitions -----------------------------
(***************************************************************************)
(* What CREATE TABLE and CREATE INDEX accept, keep in memory and write to  *)
(* the schema file, and what the next start makes of that file             *)
(* (engine/ddl/validator.c and planner.c, schema/, index/index_io.c,       *)
(* types/mapper.c).  Statement and start check the same things in two      *)
(* places of the code.                                                     *)
(*                                                                         *)
(* One table; a file is what parse_schema makes of it (text and tree are   *)
(* Parser's business, the file surviving is Catalog's).  A default is its  *)
(* type and length (its text is Record's business, and that of a float).   *)
(***************************************************************************)
EXTENDS NodeLayout, SequencesExt

CONSTANTS
    Plain,        \* names of lower case letters and underscores
    Odd,          \* names with a digit or a capital
    Long,         \* names of more than MAX_COLUMN_NAME_SIZE characters
    MaxColumns,   \* MAX_COLUMNS_PER_TABLE (16)
    MaxIndexes,   \* MAX_TABLE_INDEX_COUNT (8)
    MaxParts,     \* MAX_INDEX_COLUMN_COUNT (4)
    NodeSize,     \* BTREE_NODE_DEFAULT_SIZE (4096)
    Tables,       \* column lists of CREATE TABLE
    Indexes       \* CREATE INDEX statements

Name == Plain \cup Odd \cup Long
NoLen == -1                         \* no length in parentheses
AsByte(len) == IF len = NoLen THEN NoLen ELSE len % 256    \* (uint8_t) len
NoDefault == [type |-> "none", len |-> 0]

\* What the parser makes of the parentheses of both statements (ast.h).
ColumnDef ==
    [name : Name, kind : STRING, len : Int, default : [type : STRING, len : Nat]]
PartDef == [column : Name, len : Int]
IndexDef ==
    [name : Name, type : STRING, is_unique : BOOLEAN,
     parts : Seq(PartDef) \ {<<>>}]

ASSUME DefinitionsAssumption ==
    /\ {MaxColumns, MaxIndexes, MaxParts, NodeSize} \subseteq Nat \ {0}
    /\ Plain \cap Odd = {} /\ (Plain \cup Odd) \cap Long = {}
    /\ Tables \subseteq Seq(ColumnDef)
    /\ Indexes \subseteq IndexDef

VARIABLES
    table,      \* table and index_meta in memory: [columns, indexes]
    file,       \* the schema file, parsed
    pc,         \* the process: "up", "down", or "refused" to start
    declared    \* history: the statements that made the table
vars == <<table, file, pc, declared>>

NoTable == [columns |-> <<>>, indexes |-> <<>>]   \* in memory or on disk

(***************************************************************************)
(* Types (types/mapper.c).                                                 *)
(***************************************************************************)
Fixed(value) == [value |-> value, expects_len |-> FALSE, fixed_size |-> 4]
Sized(value, max) ==
    [value |-> value, expects_len |-> TRUE, min_len |-> 1, max_len |-> max]

TypeInfo ==
    [int |-> Fixed("int"), float |-> Fixed("float"),
     varchar |-> Sized("string", 255), char |-> Sized("string", 128),
     binary |-> Sized("binary", 128)]

KnownType(kind) == kind \in DOMAIN TypeInfo

\* resolve_type
Resolves(kind, len) ==
    /\ KnownType(kind)
    /\ IF TypeInfo[kind].expects_len
       THEN len \in TypeInfo[kind].min_len..TypeInfo[kind].max_len
       ELSE len = NoLen

ByteLen(kind, len) == IF len = NoLen THEN TypeInfo[kind].fixed_size ELSE len

\* resolved_type_validate
Validates(kind, byte_len, value) ==
    /\ TypeInfo[kind].value = value.type
    /\ TypeInfo[kind].expects_len => value.len =< byte_len

(***************************************************************************)
(* CREATE TABLE.                                                           *)
(***************************************************************************)
\* validate_create_table
ValidTable(defs) ==
    /\ Len(defs) =< MaxColumns
    /\ \A i, j \in DOMAIN defs : defs[i].name = defs[j].name => i = j
    /\ \A i \in DOMAIN defs : defs[i].name \notin Long /\ KnownType(defs[i].kind)

\* The check of a length, which is cast to a byte behind it.
LengthInByte(len) == len = NoLen \/ len \in 0..255

PlansColumn(def) ==
    /\ LengthInByte(def.len)
    /\ Resolves(def.kind, AsByte(def.len))
    /\ def.default # NoDefault =>
          Validates(def.kind, ByteLen(def.kind, AsByte(def.len)), def.default)

PlanColumn(def) ==
    [name |-> def.name, kind |-> def.kind,
     byte_len |-> ByteLen(def.kind, AsByte(def.len)), default |-> def.default]

(***************************************************************************)
(* CREATE INDEX and DROP INDEX.                                            *)
(***************************************************************************)
\* validate_create_index
ValidIndex(stmt) ==
    /\ stmt.name \notin Long
    /\ Len(stmt.parts) =< MaxParts
    /\ \A i \in DOMAIN stmt.parts : stmt.parts[i].column \notin Long
    /\ \A i, j \in DOMAIN stmt.parts :
          stmt.parts[i].column = stmt.parts[j].column => i = j

\* table_column_pos, counted from 1; 0: not found
ColumnPos(columns, name) == SelectInSeq(columns, LAMBDA c : c.name = name)

\* get_index_def
IndexNamed(indexes, name) == SelectInSeq(indexes, LAMBDA i : i.name = name)

KnownIndexType(type) == type = "btree"

\* The sum of a sequence of numbers.
Total(lens) ==
    LET sum[n \in 0..Len(lens)] == IF n = 0 THEN 0 ELSE sum[n - 1] + lens[n]
    IN  sum[Len(lens)]

\* key_part_length
KeyPartFits(part, column) == part.len = NoLen \/ part.len \in 1..column.byte_len
KeyPartLength(part, column) ==
    IF part.len = NoLen THEN column.byte_len ELSE AsByte(part.len)

PlansIndex(stmt) ==
    /\ Len(table.indexes) < MaxIndexes
    /\ IndexNamed(table.indexes, stmt.name) = 0
    /\ stmt.type = "" \/ KnownIndexType(stmt.type)
    /\ stmt.is_unique       \* the only type there is does not accept others
    /\ \A i \in DOMAIN stmt.parts :
        LET pos == ColumnPos(table.columns, stmt.parts[i].column)
        IN  pos # 0 /\ KeyPartFits(stmt.parts[i], table.columns[pos])

BugPosIsPart(columns, name, type, is_unique, parts) ==
    [name |-> name, type |-> type, is_unique |-> is_unique,
     node_size |-> NodeSize,
     parts |-> [i \in DOMAIN parts |->
        LET column == columns[ColumnPos(columns, parts[i].column)]
        IN  [column |-> parts[i].column, pos |-> i,
             type |-> TypeInfo[column.kind].value,
             len |-> KeyPartLength(parts[i], column)]],
     key_size |-> W16(Total([i \in DOMAIN parts |->
        KeyPartLength(parts[i], columns[ColumnPos(columns, parts[i].column)])]))]

\* The definition that plan_create_index and index_resolve build.
PlanIndex(columns, name, type, is_unique, parts) ==
    [name |-> name, type |-> type, is_unique |-> is_unique,
     node_size |-> NodeSize,
     parts |-> [i \in DOMAIN parts |->
        LET pos == ColumnPos(columns, parts[i].column)
        IN  [column |-> parts[i].column, pos |-> pos,
             type |-> TypeInfo[columns[pos].kind].value,
             len |-> KeyPartLength(parts[i], columns[pos])]],
     key_size |-> W16(Total([i \in DOMAIN parts |->
        KeyPartLength(parts[i], columns[ColumnPos(columns, parts[i].column)])]))]

\* schema_remove_index_def
WithoutIndex(indexes, pos) == RemoveAt(indexes, pos)

(***************************************************************************)
(* The schema file (schema_io.c, index_io.c).                              *)
(***************************************************************************)
\* The name of a type that takes a length is kept as "name(length)".
ColumnText(column) ==
    [name |-> column.name, kind |-> column.kind, default |-> column.default,
     len |-> IF TypeInfo[column.kind].expects_len THEN column.byte_len ELSE NoLen]

\* every part with its length
IndexText(index) ==
    [name |-> index.name, type |-> index.type, is_unique |-> index.is_unique,
     parts |-> [i \in DOMAIN index.parts |->
        [column |-> index.parts[i].column, len |-> index.parts[i].len]]]

Saved(t) ==
    [columns |-> [i \in DOMAIN t.columns |-> ColumnText(t.columns[i])],
     indexes |-> [i \in DOMAIN t.indexes |-> IndexText(t.indexes[i])]]

\* schema_validate_column_name
PlainName(name) == name \in Plain

LoadsColumn(def) ==
    /\ PlainName(def.name)
    /\ LengthInByte(def.len)
    /\ Resolves(def.kind, AsByte(def.len))

BugLastByteOut(part, column) == part.len = NoLen \/ part.len \in 1..(column.byte_len - 1)

LoadsPart(part, column) == part.len = NoLen \/ part.len \in 1..column.byte_len

LoadsIndex(columns, def) ==
    /\ KnownIndexType(def.type)
    /\ Len(def.parts) =< MaxParts
    /\ \A i \in DOMAIN def.parts :
        LET pos == ColumnPos(columns, def.parts[i].column)
        IN  pos # 0 /\ LoadsPart(def.parts[i], columns[pos])

LoadedColumns(f) == [i \in DOMAIN f.columns |-> PlanColumn(f.columns[i])]

\* schema_load_table and index_resolve; a default is converted, not validated
Loads(f) ==
    /\ Len(f.columns) =< MaxColumns
    /\ \A i \in DOMAIN f.columns : LoadsColumn(f.columns[i])
    /\ Len(f.indexes) =< MaxIndexes
    /\ \A i \in DOMAIN f.indexes : LoadsIndex(LoadedColumns(f), f.indexes[i])

Loaded(f) ==
    [columns |-> LoadedColumns(f),
     indexes |-> [i \in DOMAIN f.indexes |->
        PlanIndex(LoadedColumns(f), f.indexes[i].name, f.indexes[i].type,
                  f.indexes[i].is_unique, f.indexes[i].parts)]]

(***************************************************************************)
(* Statements and starts.  A refused statement changes nothing.            *)
(***************************************************************************)
Init ==
    /\ table = NoTable
    /\ file = NoTable
    /\ pc = "up"
    /\ declared = NoTable

CreateTable(defs) ==
    /\ pc = "up" /\ table = NoTable
    /\ ValidTable(defs)
    /\ \A i \in DOMAIN defs : PlansColumn(defs[i])
    /\ table' = [columns |-> [i \in DOMAIN defs |-> PlanColumn(defs[i])],
                 indexes |-> <<>>]
    /\ file' = Saved(table')
    /\ declared' = [columns |-> defs, indexes |-> <<>>]
    /\ UNCHANGED pc

DropTable ==
    /\ pc = "up" /\ table # NoTable
    /\ table' = NoTable /\ file' = NoTable /\ declared' = NoTable
    /\ UNCHANGED pc

CreateIndex(stmt) ==
    /\ pc = "up" /\ table # NoTable
    /\ ValidIndex(stmt) /\ PlansIndex(stmt)
    /\ table' = [table EXCEPT !.indexes = Append(@,
                    PlanIndex(table.columns, stmt.name, "btree",
                              stmt.is_unique, stmt.parts))]
    /\ file' = Saved(table')
    /\ declared' = [declared EXCEPT !.indexes = Append(@, stmt)]
    /\ UNCHANGED pc

DropIndex(name) ==
    /\ pc = "up"
    /\ LET pos == IndexNamed(table.indexes, name)
       IN  /\ pos # 0
           /\ table' = [table EXCEPT !.indexes = WithoutIndex(@, pos)]
    /\ file' = Saved(table')
    /\ \E k \in DOMAIN declared.indexes :
        /\ declared.indexes[k].name = name
        /\ declared' = [declared EXCEPT !.indexes = RemoveAt(@, k)]
    /\ UNCHANGED pc

\* The process ends and forgets.
Quit ==
    /\ pc = "up"
    /\ pc' = "down" /\ table' = NoTable
    /\ UNCHANGED <<file, declared>>

\* app_context_init reads the schema and writes it anew.
Start ==
    /\ pc \in {"down", "refused"}
    /\ IF Loads(file)
       THEN pc' = "up" /\ table' = Loaded(file) /\ file' = Saved(table')
       ELSE pc' = "refused" /\ UNCHANGED <<table, file>>
    /\ UNCHANGED declared

Next ==
    \/ \E defs \in Tables : CreateTable(defs)
    \/ DropTable
    \/ \E stmt \in Indexes : CreateIndex(stmt) \/ DropIndex(stmt.name)
    \/ Quit \/ Start

Spec == Init /\ [][Next]_vars
-----------------------------------------------------------------------------
(***************************************************************************)
(* Properties.                                                             *)
(***************************************************************************)
SameColumn(column, def) ==
    /\ column.name = def.name
    /\ column.kind = def.kind
    /\ column.default = def.default
    /\ TypeInfo[def.kind].expects_len => column.byte_len = def.len

\* An index without a length for a part covers the whole column.
SameIndex(index, stmt) ==
    /\ index.name = stmt.name /\ index.is_unique
    /\ Len(index.parts) = Len(stmt.parts)
    /\ \A i \in DOMAIN stmt.parts :
        LET column == declared.columns[ColumnPos(declared.columns, stmt.parts[i].column)]
        IN  /\ index.parts[i].column = stmt.parts[i].column
            /\ index.parts[i].len =
                  IF stmt.parts[i].len # NoLen THEN stmt.parts[i].len
                  ELSE IF column.len # NoLen THEN column.len ELSE 4

OddColumns == \E i \in DOMAIN declared.columns : declared.columns[i].name \in Odd

\* However often the process has ended and started, and whatever indexes were
\* dropped in between: the table has the columns, lengths, defaults and index
\* parts that its statements declared, no statement is accepted whose schema
\* the next start refuses, and none that stands for something else (a length
\* beyond a byte, a part beyond its column).  Only a column name that
\* schema_validate_column_name refuses keeps the database closed.
DefinitionsKept ==
    /\ pc = "refused" => OddColumns
    /\ pc = "up" =>
        /\ Len(table.columns) = Len(declared.columns)
        /\ Len(table.indexes) = Len(declared.indexes)
        /\ \A i \in DOMAIN declared.columns :
              SameColumn(table.columns[i], declared.columns[i])
        /\ \A i \in DOMAIN declared.indexes :
              SameIndex(table.indexes[i], declared.indexes[i])

\* Every index that a statement or a start has defined can work: each part
\* takes its bytes from its own column and not more than that has, the parts
\* fill the key, and btree_layout_create lays out nodes of such keys in a block
\* with room for splits and merges.
KeysFitNodes ==
    \A i \in DOMAIN table.indexes :
        LET index == table.indexes[i]
        IN  /\ \A p \in DOMAIN index.parts :
                LET part == index.parts[p]
                    column == table.columns[part.pos]
                IN  /\ part.pos \in DOMAIN table.columns
                    /\ column.name = part.column
                    /\ part.type = TypeInfo[column.kind].value
                    /\ part.len \in 1..column.byte_len
            /\ index.key_size =
                  Total([p \in DOMAIN index.parts |-> index.parts[p].len])
            /\ SectionsFit(index.node_size, index.key_size)
            /\ CountsFit(index.node_size, index.key_size)
=============================================================================

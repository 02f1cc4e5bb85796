------------------------------ MODULE Catalog ------------------------------
(***************************************************************************)
(* The files that say which tables there are (database/database.c,         *)
(* context/context.c, schema/schema_io.c, engine/ddl/executor.c): the      *)
(* catalog, one schema file and one data file per table, one file per      *)
(* index.  Every DDL statement is a sequence of writes to several of them, *)
(* and the start of the program is one too; the process may die between    *)
(* any two.                                                                *)
(*                                                                         *)
(* What is in a data file and an index file is the business of Table; here *)
(* they exist or not.  A schema file keeps the names of the indexes; its   *)
(* columns matter only in that the loader may refuse them.                 *)
(***************************************************************************)
EXTENDS Integers, Sequences, FiniteSets

CONSTANTS
    Table,     \* names CREATE TABLE may give
    Index,     \* names CREATE INDEX may give
    Long,      \* the names of MAX_TABLE_NAME_SIZE characters
    Odd,       \* tables with a column that CREATE TABLE takes and load refuses
    DropLast,  \* may the user drop the only table?
    MayCrash   \* may the process be interrupted?

ASSUME CatalogAssumption ==
    /\ Long \subseteq Table
    /\ Odd \subseteq Table
    /\ DropLast \in BOOLEAN
    /\ MayCrash \in BOOLEAN

VARIABLES
    catalog,   \* maxql.catalog: its lines
    schema,    \* schema[t]: the file <t>.schema
    rows,      \* tables whose <t>.data exists
    idx,       \* <<t, i>> for each existing <t>-<i>.idx
    tables,    \* db->tables of the running process: name, index_meta
    pc,        \* where the process is
    kind,      \* the running statement
    work,      \* the table, and the index, it is about
    queue,     \* tables whose schema the start has still to rewrite
    hurt       \* history: has a process died inside a "statement", or even
               \* where it leaves files that disagree (a "window")?

vars == <<catalog, schema, rows, idx, tables, pc, kind, work, queue, hurt>>
disk == <<catalog, schema, rows, idx>>

None == "none"
Junk == "junk"   \* a line that names no table

Missing == [state |-> "missing", defs |-> {}]
Torn == [state |-> "torn", defs |-> {}]
Whole(defs) == [state |-> "whole", defs |-> defs]

Names == [p \in 1..Len(tables) |-> tables[p].name]
Known == {tables[p].name : p \in 1..Len(tables)}

\* database_table_by_name
Meta(t) == CHOOSE m \in {tables[p] : p \in 1..Len(tables)} : m.name = t

WithDefs(t, defs) ==
    [p \in 1..Len(tables) |->
        IF tables[p].name = t THEN [name |-> t, defs |-> defs] ELSE tables[p]]

\* database_remove_table: the later entries move down one place
Place(t) == CHOOSE p \in 1..Len(tables) : tables[p].name = t

WithoutTable(t) ==
    [p \in 1..(Len(tables) - 1) |->
        IF p < Place(t) THEN tables[p] ELSE tables[p + 1]]

\* What database_save prints.  snprintf is given 32 bytes per name: a name of
\* 31 characters keeps its NUL, which ends the text.  With no table the
\* uninitialised buffer is printed: nothing, or the rubbish in it.
CatalogText(names) ==
    IF names = <<>> THEN {<<>>, <<Junk>>}
    ELSE {SubSeq(names, 1, p) : p \in
            {q \in 1..Len(names) :
                /\ \A r \in 1..(q - 1) : names[r] \notin Long
                /\ names[q] \in Long \/ q = Len(names)}}

\* database_load with schema_load_table; an empty schema does not parse
Loads ==
    \A p \in 1..Len(catalog) :
        /\ catalog[p] \in Table \ Odd
        /\ schema[catalog[p]].state = "whole"

Loaded ==
    [p \in 1..Len(catalog) |->
        [name |-> catalog[p], defs |-> schema[catalog[p]].defs]]

NoWork == [table |-> None, index |-> None]

\* The directory has an empty catalog, which nothing in the program creates.
Init ==
    /\ catalog = <<>>
    /\ schema = [t \in Table |-> Missing]
    /\ rows = {}
    /\ idx = {}
    /\ tables = <<>>
    /\ pc = "down"
    /\ kind = None
    /\ work = NoWork
    /\ queue = <<>>
    /\ hurt = "no"

(***************************************************************************)
(* The start: app_context_init.                                            *)
(***************************************************************************)
\* Rewrite the schemas of these tables, or be ready.
Continue(names) ==
    /\ queue' = names
    /\ IF names = <<>>
       THEN pc' = "ready" /\ kind' = None /\ work' = NoWork
       ELSE /\ pc' = "schema"
            /\ kind' = "start"
            /\ work' = [table |-> Head(names), index |-> None]

Start ==
    /\ pc = "down"
    /\ Loads
    /\ tables' = Loaded
    /\ Continue(catalog)
    /\ UNCHANGED <<disk, hurt>>

StartRefused ==
    /\ pc = "down"
    /\ ~Loads
    /\ pc' = "refused"
    /\ UNCHANGED <<disk, tables, kind, work, queue, hurt>>

StartAgain ==
    /\ pc = "refused"
    /\ pc' = "down"
    /\ UNCHANGED <<disk, tables, kind, work, queue, hurt>>

Begin(k, where, t, i) ==
    /\ pc' = where
    /\ kind' = k
    /\ work' = [table |-> t, index |-> i]
    /\ UNCHANGED <<queue, hurt>>

Go(where) == pc' = where /\ UNCHANGED <<kind, work, queue, hurt>>

Done ==
    /\ pc' = "ready"
    /\ kind' = None
    /\ work' = NoWork
    /\ UNCHANGED <<queue, hurt>>

\* Where a death leaves the files of a listed table disagreeing.
InWindow ==
    \/ pc = "schema_write" /\ kind # "create"
    \/ pc = "catalog_write"
    \/ kind = "drop"
    \/ kind = "truncate"

\* The process is gone, and with it what it had in memory.
Gone ==
    /\ pc' = "down"
    /\ kind' = None
    /\ work' = NoWork
    /\ queue' = <<>>
    /\ tables' = <<>>
    /\ hurt' = IF InWindow THEN "window"
               ELSE IF hurt = "no" /\ kind # None THEN "statement" ELSE hurt
    /\ UNCHANGED disk

(***************************************************************************)
(* schema_save_table: fopen "w" truncates, then the text is written.       *)
(***************************************************************************)
OpenSchema ==
    /\ pc = "schema"
    /\ schema' = [schema EXCEPT ![work.table] = Torn]
    /\ Go("schema_write")
    /\ UNCHANGED <<catalog, rows, idx, tables>>

BugForgetIndexes(t) == Whole({})

SchemaText(t) == Whole(IF kind = "create" THEN {} ELSE Meta(t).defs)

WriteSchema ==
    /\ pc = "schema_write"
    /\ schema' = [schema EXCEPT ![work.table] = SchemaText(work.table)]
    /\ CASE kind = "start" -> Continue(Tail(queue)) /\ UNCHANGED hurt
         [] kind = "create" -> Go("create_data")
         [] kind = "create_index" -> Done
         [] kind = "drop_index" -> Go("unlink")
    /\ UNCHANGED <<catalog, rows, idx, tables>>

(***************************************************************************)
(* execute_create_table.  The planner looks for the name in memory only.   *)
(***************************************************************************)
CreateTable(t) ==
    /\ pc = "ready"
    /\ t \notin Known
    /\ Begin("create", "schema", t, None)
    /\ UNCHANGED <<disk, tables>>

\* storage_create_table: fopen "wx"
CreateData ==
    /\ pc = "create_data"
    /\ work.table \notin rows
    /\ rows' = rows \cup {work.table}
    /\ Go("add")
    /\ UNCHANGED <<catalog, schema, idx, tables>>

\* "Failed to create data file" is a fatal error: handle_fatal_error exits.
CreateDataFatal ==
    /\ pc = "create_data"
    /\ work.table \in rows
    /\ Gone

\* database_add_table, up to the fopen of database_save
AddTable ==
    /\ pc = "add"
    /\ tables' = Append(tables, [name |-> work.table, defs |-> {}])
    /\ catalog' = <<>>
    /\ Go("catalog_write")
    /\ UNCHANGED <<schema, rows, idx>>

WriteCatalog ==
    /\ pc = "catalog_write"
    /\ catalog' \in CatalogText(Names)
    /\ Done
    /\ UNCHANGED <<schema, rows, idx, tables>>

(***************************************************************************)
(* execute_drop_table: index files, schema, data, catalog.                 *)
(***************************************************************************)
DropTable(t) ==
    /\ pc = "ready"
    /\ t \in Known
    /\ DropLast \/ Len(tables) > 1
    /\ Begin("drop", "purge", t, None)
    /\ UNCHANGED <<disk, tables>>

BugAssumePurged == TRUE

Purged == \A i \in Meta(work.table).defs : <<work.table, i>> \notin idx

\* index_set_purge, one file; that remove fails is not noticed
PurgeIndex ==
    /\ pc = "purge"
    /\ \E i \in Meta(work.table).defs :
        /\ <<work.table, i>> \in idx
        /\ idx' = idx \ {<<work.table, i>>}
    /\ UNCHANGED <<catalog, schema, rows, tables, pc, kind, work, queue, hurt>>

PurgeDone ==
    /\ pc = "purge"
    /\ Purged
    /\ Go(IF kind = "drop" THEN "drop_schema" ELSE "resave")
    /\ UNCHANGED <<disk, tables>>

RemoveSchema ==
    /\ pc = "drop_schema"
    /\ schema[work.table] # Missing
    /\ schema' = [schema EXCEPT ![work.table] = Missing]
    /\ Go("drop_data")
    /\ UNCHANGED <<catalog, rows, idx, tables>>

RemoveData ==
    /\ pc = "drop_data"
    /\ work.table \in rows
    /\ rows' = rows \ {work.table}
    /\ Go("remove")
    /\ UNCHANGED <<catalog, schema, idx, tables>>

\* "Cannot delete schema file", "Cannot delete data file": the statement ends
\* there and the table stays in memory and in the catalog.
RemoveFails ==
    /\ \/ pc = "drop_schema" /\ schema[work.table] = Missing
       \/ pc = "drop_data" /\ work.table \notin rows
    /\ Done
    /\ UNCHANGED <<disk, tables>>

BugNoSave ==
    /\ pc = "remove"
    /\ tables' = WithoutTable(work.table)
    /\ Done
    /\ UNCHANGED disk

\* database_remove_table, up to the fopen of database_save
RemoveTable ==
    /\ pc = "remove"
    /\ tables' = WithoutTable(work.table)
    /\ catalog' = <<>>
    /\ Go("catalog_write")
    /\ UNCHANGED <<schema, rows, idx>>

(***************************************************************************)
(* execute_create_index, execute_drop_index, execute_truncate_table.       *)
(***************************************************************************)
CreateIndex(t, i) ==
    /\ pc = "ready"
    /\ t \in Known \cap rows
    /\ i \notin Meta(t).defs
    /\ Begin("create_index", "index", t, i)
    /\ UNCHANGED <<disk, tables>>

\* backfill_index on a table without a data file: fseeko(NULL)
CreateIndexDies(t, i) ==
    /\ pc = "ready"
    /\ t \in Known \ rows
    /\ i \notin Meta(t).defs
    /\ Gone

SaveIndex ==
    /\ pc = "index"
    /\ idx' = idx \cup {<<work.table, work.index>>}
    /\ Go("define")
    /\ UNCHANGED <<catalog, schema, rows, tables>>

\* the definition in memory, and the fopen of schema_save_table
DefineIndex ==
    /\ pc = "define"
    /\ tables' =
         WithDefs(work.table, Meta(work.table).defs \cup {work.index})
    /\ schema' = [schema EXCEPT ![work.table] = Torn]
    /\ Go("schema_write")
    /\ UNCHANGED <<catalog, rows, idx>>

DropIndex(t, i) ==
    /\ pc = "ready"
    /\ t \in Known
    /\ i \in Meta(t).defs
    /\ tables' = WithDefs(t, Meta(t).defs \ {i})
    /\ schema' = [schema EXCEPT ![t] = Torn]
    /\ Begin("drop_index", "schema_write", t, i)
    /\ UNCHANGED <<catalog, rows, idx>>

DropIndexFile ==
    /\ pc = "unlink"
    /\ idx' = idx \ {<<work.table, work.index>>}
    /\ Done
    /\ UNCHANGED <<catalog, schema, rows, tables>>

\* on a table without a data file it is refused: "Cannot delete data file"
Truncate(t) ==
    /\ pc = "ready"
    /\ t \in Known \cap rows
    /\ rows' = rows \ {t}
    /\ Begin("truncate", "recreate", t, None)
    /\ UNCHANGED <<catalog, schema, idx, tables>>

RecreateData ==
    /\ pc = "recreate"
    /\ rows' = rows \cup {work.table}
    /\ Go("purge")
    /\ UNCHANGED <<catalog, schema, idx, tables>>

\* index_set_save, one file
ResaveIndex ==
    /\ pc = "resave"
    /\ \E i \in Meta(work.table).defs :
        /\ <<work.table, i>> \notin idx
        /\ idx' = idx \cup {<<work.table, i>>}
    /\ UNCHANGED <<catalog, schema, rows, tables, pc, kind, work, queue, hurt>>

ResaveDone ==
    /\ pc = "resave"
    /\ \A i \in Meta(work.table).defs : <<work.table, i>> \in idx
    /\ Done
    /\ UNCHANGED <<disk, tables>>

(***************************************************************************)
(* The end of a process.                                                   *)
(***************************************************************************)
\* The user leaves the REPL: nothing is saved, everything is saved already.
Quit ==
    /\ pc = "ready"
    /\ Gone

\* SIGINT: _exit between two writes
Crash ==
    /\ pc \notin {"down", "refused", "ready"}
    /\ MayCrash
    /\ Gone

Next ==
    \/ Start \/ StartRefused \/ StartAgain
    \/ OpenSchema \/ WriteSchema
    \/ \E t \in Table : CreateTable(t) \/ DropTable(t) \/ Truncate(t)
    \/ CreateData \/ CreateDataFatal \/ AddTable \/ WriteCatalog
    \/ PurgeIndex \/ PurgeDone \/ RemoveSchema \/ RemoveData \/ RemoveFails
    \/ RemoveTable
    \/ \E t \in Table, i \in Index :
        CreateIndex(t, i) \/ CreateIndexDies(t, i) \/ DropIndex(t, i)
    \/ SaveIndex \/ DefineIndex \/ DropIndexFile
    \/ RecreateData \/ ResaveIndex \/ ResaveDone
    \/ Quit \/ Crash

Spec == Init /\ [][Next]_vars

(***************************************************************************)
(* Properties.                                                             *)
(***************************************************************************)
\* Between statements the files and the memory of the process tell the same
\* story: the catalog lists the tables, each has its data file and a schema
\* with its indexes, each index its file; and unless a process died inside a
\* statement nothing else lies about (execute_create_table to
\* execute_truncate_table, which write these files one by one).  Only a death in
\* one of the windows ends that.
FilesAgree ==
    pc = "ready" /\ hurt # "window" =>
        LET indexes == {f \in Known \X Index : f[2] \in Meta(f[1]).defs}
        IN  /\ catalog = Names
            /\ \A t \in Known : schema[t] = Whole(Meta(t).defs)
            /\ Known \subseteq rows
            /\ indexes \subseteq idx
            /\ hurt = "no" =>
                /\ rows = Known
                /\ \A t \in Table \ Known : schema[t] = Missing
                /\ idx = indexes

\* After any crash, a process that has come up works on a catalog that lists
\* its tables, and the schema file of every table with rows is the one in
\* memory: no later start can read those rows otherwise (app_context_init).
OpenAgrees ==
    pc = "ready" =>
        /\ catalog = Names
        /\ \A t \in Known \cap rows : schema[t] = Whole(Meta(t).defs)

\* The program starts on the files that it has written ("Schema metadata is
\* persisted in `.schema` files", README.md:49), also after a death inside a
\* statement, but for the windows.
AlwaysOpens == hurt # "window" => pc # "refused"

\* The tables a running process knows, or the next one will.
Running == pc \notin {"down", "refused"}

Registered ==
    IF Running THEN {tables[p] : p \in 1..Len(tables)}
    ELSE IF Loads THEN {Loaded[p] : p \in 1..Len(catalog)}
    ELSE {}

Promise == INSTANCE Registry WITH registry <- Registered, up <- Running

\* Across statements, ends and starts of the process, and deaths outside the
\* windows, the database keeps its tables and index definitions, and changes
\* them one at a time.
IsRegistry ==
    Promise!Init /\ [][hurt' = "window" \/ Promise!Next]_(Promise!register)
=============================================================================

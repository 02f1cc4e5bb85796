--------------------------- MODULE CatalogProofs ---------------------------
(***************************************************************************)
(* Theorems about Catalog, for every set of tables and indexes, whether or *)
(* not the process may be interrupted: the files and the memory agree, a   *)
(* start succeeds, and the whole is a Registry.                            *)
(***************************************************************************)
EXTENDS Catalog, SequenceTheorems, TLAPS

(***************************************************************************)
(* The invariant.                                                          *)
(***************************************************************************)
Entry == [name : Table, defs : SUBSET Index]
SchemaFile == {Missing, Torn} \cup {Whole(defs) : defs \in SUBSET Index}

\* The tables in memory, and those that the files describe while none runs.
Entries == {tables[p] : p \in 1..Len(tables)}
Stored == IF Running THEN Entries ELSE {Loaded[p] : p \in 1..Len(catalog)}

ShapeInv ==
    /\ catalog \in Seq(Table)
    /\ schema \in [Table -> SchemaFile]
    /\ rows \subseteq Table
    /\ idx \subseteq Table \X Index
    /\ tables \in Seq(Entry)
    /\ queue \in Seq(Table)
    /\ hurt \in {"no", "statement", "window"}

\* The steps of each statement.
StepInv ==
    \/ kind = None /\ pc \in {"down", "refused", "ready"}
    \/ kind = "start" /\ pc \in {"schema", "schema_write"}
    \/ /\ kind = "create"
       /\ pc \in {"schema", "schema_write", "create_data", "add", "catalog_write"}
    \/ /\ kind = "drop"
       /\ pc \in {"purge", "drop_schema", "drop_data", "remove", "catalog_write"}
    \/ kind = "create_index" /\ pc \in {"index", "define", "schema_write"}
    \/ kind = "drop_index" /\ pc \in {"schema_write", "unlink"}
    \/ kind = "truncate" /\ pc \in {"recreate", "purge", "resave"}

\* What the running statement is about: a new table is not known before it is
\* added, a dropped one until it is removed, and every other one always.
WorkInv ==
    /\ kind # None => work.table \in Table
    /\ kind = "create" => (work.table \in Known <=> pc = "catalog_write")
    /\ kind = "drop" => (work.table \in Known <=> pc # "catalog_write")
    /\ kind \in {"create_index", "drop_index", "truncate"} => work.table \in Known
    /\ kind \in {"create_index", "drop_index"} => work.index \in Index
    /\ IF kind = "start"
       THEN /\ queue # <<>>
            /\ work.table = Head(queue)
            /\ \A p \in 1..Len(queue) : queue[p] \in Known
       ELSE queue = <<>>

\* No name is listed twice, in memory or on disk; the catalog is the list in
\* memory except while it is written; and the last table stays.
NamesInv ==
    /\ \A p, q \in 1..Len(tables) : tables[p].name = tables[q].name => p = q
    /\ \A p, q \in 1..Len(catalog) : catalog[p] = catalog[q] => p = q
    /\ ~Running => tables = <<>>
    /\ Running /\ pc # "catalog_write" => catalog = Names
    /\ pc = "catalog_write" => catalog = <<>> /\ tables # <<>>
    /\ kind = "drop" /\ pc # "catalog_write" => Len(tables) > 1

ListInv == ShapeInv /\ StepInv /\ WorkInv /\ NamesInv

\* How far the files of the running statement are.
ProgressInv ==
    /\ kind = "create" =>
        /\ pc \in {"create_data", "add"} => schema[work.table] = Whole({})
        /\ pc = "add" => work.table \in rows
    /\ kind = "drop" =>
        /\ pc \notin {"purge", "catalog_write"} => Purged
        /\ pc \in {"drop_data", "remove", "catalog_write"} =>
            schema[work.table] = Missing
        /\ pc \in {"remove", "catalog_write"} => work.table \notin rows
    /\ kind = "create_index" =>
        /\ pc # "index" => <<work.table, work.index>> \in idx
        /\ pc = "schema_write" =>
            \E m \in Entries : m.name = work.table /\ work.index \in m.defs
    /\ kind = "drop_index" =>
        \A m \in Entries : m.name = work.table => work.index \notin m.defs

\* A table with rows has the schema file that is in memory, but for the moments
\* where that file is rewritten or the table goes.
OpenInv ==
    \A m \in Entries :
        m.name \in rows \/ (m.name = work.table /\ pc = "recreate") =>
            \/ schema[m.name] = Whole(m.defs)
            \/ m.name = work.table /\ pc \in {"schema_write", "drop_data"}

\* Unless a process died in a window: a stored table has its data file, its
\* schema and its index files, but for the steps of the statement about it.
KeptEntry(m) ==
    /\ m.name \in rows \/ (m.name = work.table /\ pc \in {"recreate", "remove"})
    /\ \/ schema[m.name] = Whole(m.defs)
       \/ /\ m.name = work.table
          /\ pc \in {"schema_write", "drop_data", "remove"}
    /\ \A i \in m.defs :
        \/ <<m.name, i>> \in idx
        \/ m.name = work.table /\ kind \in {"drop", "truncate"}

KeptInv == hurt # "window" => \A m \in Stored : KeptEntry(m)

\* Unless a process died inside a statement: there is no other file.
NoOtherFile ==
    /\ \A t \in Table :
        \/ \E m \in Stored : m.name = t
        \/ t \notin rows /\ schema[t] = Missing
        \/ kind = "create" /\ t = work.table
    /\ \A t \in Table, i \in Index :
        <<t, i>> \in idx =>
            \/ \E m \in Stored : m.name = t /\ i \in m.defs
            \/ /\ kind \in {"create_index", "drop_index"}
               /\ t = work.table /\ i = work.index

PureInv == hurt = "no" => NoOtherFile

CatalogInv == ListInv /\ ProgressInv /\ OpenInv /\ KeptInv /\ PureInv


(***************************************************************************)
(* The list of tables.                                                     *)
(***************************************************************************)
Distinct ==
    \A p, q \in 1..Len(tables) : tables[p].name = tables[q].name => p = q

LEMMA ListTypes ==
    ASSUME tables \in Seq(Entry)
    PROVE  /\ Len(tables) \in Nat
           /\ \A p \in 1..Len(tables) : tables[p] \in Entry
           /\ Entries \subseteq Entry
           /\ Known = {m.name : m \in Entries}
           /\ Known \subseteq Table
           /\ Names \in Seq(Table) /\ Len(Names) = Len(tables)
           /\ \A p \in 1..Len(tables) : Names[p] = tables[p].name
<1>1. Len(tables) \in Nat /\ \A p \in 1..Len(tables) : tables[p] \in Entry
  BY ElementOfSeq, LenProperties
<1>2. Entries \subseteq Entry
  BY <1>1 DEF Entries
<1>3. Known = {m.name : m \in Entries}
  BY DEF Known, Entries
<1>4. Known \subseteq Table
  BY <1>2, <1>3 DEF Entry
<1>5. \A p \in 1..Len(tables) : tables[p].name \in Table
  BY <1>1 DEF Entry
<1>6. Names \in [1..Len(tables) -> Table]
  BY <1>5 DEF Names
<1>7. Names \in Seq(Table) /\ Len(Names) = Len(tables)
  BY <1>1, <1>6, SeqDef, LenProperties
<1>8. QED
  BY <1>1, <1>2, <1>3, <1>4, <1>7 DEF Names

\* What database_table_by_name finds.
LEMMA MetaIs ==
    ASSUME tables \in Seq(Entry), Distinct
    PROVE  /\ \A m \in Entries : m.name \in Known /\ Meta(m.name) = m
           /\ \A t \in Known : Meta(t) \in Entries /\ Meta(t).name = t
<1>1. ASSUME NEW m \in Entries, NEW k \in Entries, m.name = k.name
      PROVE  m = k
  BY <1>1 DEF Entries, Distinct
<1>2. Known = {m.name : m \in Entries}
  BY ListTypes
<1>3. ASSUME NEW t \in Known
      PROVE  Meta(t) \in Entries /\ Meta(t).name = t
  <2>1. \E m \in Entries : m.name = t
    BY <1>2
  <2>2. QED
    BY <2>1 DEF Meta, Entries
<1>4. ASSUME NEW m \in Entries
      PROVE  m.name \in Known /\ Meta(m.name) = m
  <2>1. m.name \in Known
    BY <1>2
  <2>2. QED
    BY <1>1, <1>3, <2>1
<1>5. QED
  BY <1>3, <1>4

LEMMA Appended ==
    ASSUME tables \in Seq(Entry), Distinct, NEW e \in Entry, e.name \notin Known,
           tables' = Append(tables, e)
    PROVE  /\ tables' \in Seq(Entry) /\ Distinct' /\ tables' # <<>>
           /\ Entries' = Entries \cup {e}
           /\ Known' = Known \cup {e.name}
<1>1. Len(tables) \in Nat /\ \A p \in 1..Len(tables) : tables[p] \in Entries
  BY ListTypes DEF Entries
<1>2. /\ tables' \in Seq(Entry) /\ tables' # <<>>
      /\ Len(tables') = Len(tables) + 1
      /\ \A p \in 1..Len(tables) : tables'[p] = tables[p]
      /\ tables'[Len(tables) + 1] = e
  BY AppendProperties
<1>3. \A p \in 1..Len(tables) : tables[p].name \in Known
  BY DEF Known
<1>4. Distinct'
  <2>1. SUFFICES ASSUME NEW p \in 1..(Len(tables) + 1),
                        NEW q \in 1..(Len(tables) + 1),
                        tables'[p].name = tables'[q].name
                 PROVE  p = q
    BY <1>2 DEF Distinct
  <2>2. CASE p \in 1..Len(tables) /\ q \in 1..Len(tables)
    BY <1>2, <2>1, <2>2 DEF Distinct
  <2>3. CASE p = Len(tables) + 1 /\ q \in 1..Len(tables)
    BY <1>2, <1>3, <2>1, <2>3
  <2>4. CASE q = Len(tables) + 1 /\ p \in 1..Len(tables)
    BY <1>2, <1>3, <2>1, <2>4
  <2>5. QED
    BY <1>1, <2>2, <2>3, <2>4
<1>5. Entries' = Entries \cup {e}
  <2>1. Entries' = {tables'[p] : p \in 1..(Len(tables) + 1)}
    BY <1>2 DEF Entries
  <2>2. \A p \in 1..(Len(tables) + 1) :
            p \in 1..Len(tables) \/ p = Len(tables) + 1
    BY <1>1
  <2>3. 1..Len(tables) \subseteq 1..(Len(tables) + 1)
        /\ Len(tables) + 1 \in 1..(Len(tables) + 1)
    BY <1>1
  <2>4. Entries = {tables'[p] : p \in 1..Len(tables)}
    BY <1>2 DEF Entries
  <2>5. QED
    BY <1>2, <2>1, <2>2, <2>3, <2>4
<1>6. Known = {m.name : m \in Entries} /\ Known' = {m.name : m \in Entries'}
  BY <1>2, ListTypes DEF Known, Entries
<1>7. QED
  BY <1>2, <1>4, <1>5, <1>6

LEMMA Redefined ==
    ASSUME tables \in Seq(Entry), Distinct, NEW t \in Known, NEW d \in SUBSET Index,
           tables' = WithDefs(t, d)
    PROVE  /\ tables' \in Seq(Entry) /\ Distinct'
           /\ Entries' = (Entries \ {Meta(t)}) \cup {[name |-> t, defs |-> d]}
           /\ Known' = Known /\ Names' = Names /\ Len(tables') = Len(tables)
<1> DEFINE e == [name |-> t, defs |-> d]
<1>1. /\ Len(tables) \in Nat
      /\ \A p \in 1..Len(tables) : tables[p] \in Entry
      /\ t \in Table
  BY ListTypes
<1>2. e \in Entry /\ e.name = t
  BY <1>1 DEF Entry
<1>3. tables' = [p \in 1..Len(tables) |-> IF tables[p].name = t THEN e ELSE tables[p]]
  BY DEF WithDefs
<1> HIDE DEF e
<1>4. tables' \in [1..Len(tables) -> Entry]
  BY <1>1, <1>2, <1>3
<1>5. tables' \in Seq(Entry) /\ Len(tables') = Len(tables)
  BY <1>1, <1>4, SeqDef, LenProperties
<1>6. \A p \in 1..Len(tables) :
          tables'[p] = (IF tables[p].name = t THEN e ELSE tables[p])
  BY <1>3
<1>7. \A p \in 1..Len(tables) : tables'[p].name = tables[p].name
  BY <1>2, <1>6
<1>8. Distinct'
  BY <1>5, <1>7 DEF Distinct
<1>9. Known' = Known /\ Names' = Names
  BY <1>5, <1>7 DEF Known, Names
<1>10. \A m \in Entries : m.name = t <=> m = Meta(t)
  BY MetaIs
<1>11. PICK n \in 1..Len(tables) : tables[n].name = t
  BY DEF Known
<1>12. Entries' = {tables'[p] : p \in 1..Len(tables)}
  BY <1>5 DEF Entries
<1>13. Entries' = (Entries \ {Meta(t)}) \cup {e}
  <2>1. ASSUME NEW x \in Entries' PROVE x \in (Entries \ {Meta(t)}) \cup {e}
    <3>1. PICK p \in 1..Len(tables) : x = tables'[p]
      BY <1>12
    <3>2. tables[p] \in Entries
      BY DEF Entries
    <3>3. QED
      BY <1>6, <1>10, <3>1, <3>2
  <2>2. e \in Entries'
    BY <1>6, <1>11, <1>12
  <2>3. ASSUME NEW x \in Entries \ {Meta(t)} PROVE x \in Entries'
    <3>1. PICK p \in 1..Len(tables) : x = tables[p]
      BY DEF Entries
    <3>2. QED
      BY <1>6, <1>10, <1>12, <2>3, <3>1
  <2>4. QED
    BY <2>1, <2>2, <2>3
<1>14. QED
  BY <1>5, <1>8, <1>9, <1>13 DEF e


LEMMA Removed ==
    ASSUME tables \in Seq(Entry), Distinct, NEW t \in Known, Len(tables) > 1,
           tables' = WithoutTable(t)
    PROVE  /\ tables' \in Seq(Entry) /\ Distinct' /\ tables' # <<>>
           /\ Entries' = Entries \ {Meta(t)}
           /\ Known' = Known \ {t}
<1> DEFINE n == Len(tables)
           h == Place(t)
           From(p) == IF p < h THEN p ELSE p + 1
<1>1. /\ n \in Nat /\ n > 1
      /\ \A p \in 1..n : tables[p] \in Entry
  BY ListTypes
<1>2. h \in 1..n /\ tables[h].name = t
  <2>1. \E p \in 1..n : tables[p].name = t
    BY DEF Known
  <2>2. QED
    BY <2>1 DEF Place
<1>3. tables' = [p \in 1..(n - 1) |-> IF p < h THEN tables[p] ELSE tables[p + 1]]
  BY DEF WithoutTable
<1> HIDE DEF n, h
<1>4. \A p \in 1..(n - 1) : From(p) \in (1..n) \ {h}
  BY <1>1, <1>2
<1>5. \A p \in 1..(n - 1) : tables'[p] = tables[From(p)]
  BY <1>3
<1>6. \A q \in (1..n) \ {h} : \E p \in 1..(n - 1) : From(p) = q
  <2>1. SUFFICES ASSUME NEW q \in (1..n) \ {h}
                 PROVE  \E p \in 1..(n - 1) : From(p) = q
    OBVIOUS
  <2>2. CASE q < h
    <3>1. q \in 1..(n - 1) /\ From(q) = q
      BY <1>1, <1>2, <2>2
    <3>2. QED
      BY <3>1
  <2>3. CASE ~(q < h)
    <3>1. q - 1 \in 1..(n - 1) /\ From(q - 1) = q
      BY <1>1, <1>2, <2>3
    <3>2. QED
      BY <3>1
  <2>4. QED
    BY <2>2, <2>3
<1>7. \A p, q \in 1..(n - 1) : From(p) = From(q) => p = q
  BY <1>1, <1>2
<1> HIDE DEF From
<1>8. tables' \in [1..(n - 1) -> Entry]
  <2>1. \A p \in 1..(n - 1) : tables'[p] \in Entry
    BY <1>1, <1>4, <1>5
  <2>2. QED
    BY <1>3, <2>1
<1>9. tables' \in Seq(Entry) /\ Len(tables') = n - 1 /\ tables' # <<>>
  <2>1. n - 1 \in Nat /\ n - 1 # 0
    BY <1>1
  <2>2. tables' \in Seq(Entry) /\ Len(tables') = n - 1
    BY <1>8, <2>1, SeqDef, LenProperties
  <2>3. QED
    BY <2>1, <2>2, EmptySeq
<1>10. Distinct'
  <2>1. SUFFICES ASSUME NEW p \in 1..(n - 1), NEW q \in 1..(n - 1),
                        tables'[p].name = tables'[q].name
                 PROVE  p = q
    BY <1>9 DEF Distinct
  <2>2. From(p) = From(q)
    BY <1>4, <1>5, <2>1 DEF Distinct, n
  <2>3. QED
    BY <1>7, <2>2
<1>11. \A m \in Entries : m.name = t <=> m = Meta(t)
  BY MetaIs
<1>12. Entries' = Entries \ {Meta(t)}
  <2>1. ASSUME NEW x \in Entries' PROVE x \in Entries \ {Meta(t)}
    <3>1. PICK p \in 1..(n - 1) : x = tables'[p]
      BY <1>9 DEF Entries
    <3>2. x = tables[From(p)] /\ From(p) \in 1..n /\ From(p) # h
      BY <1>4, <1>5, <3>1
    <3>3. x \in Entries /\ x.name # t
      BY <1>2, <3>2 DEF Entries, Distinct, n
    <3>4. QED
      BY <1>11, <3>3
  <2>2. ASSUME NEW x \in Entries \ {Meta(t)} PROVE x \in Entries'
    <3>1. PICK q \in 1..n : x = tables[q]
      BY DEF Entries, n
    <3>2. x.name # t
      BY <1>11, <2>2
    <3>3. q \in (1..n) \ {h}
      BY <1>2, <3>1, <3>2
    <3>4. PICK p \in 1..(n - 1) : From(p) = q
      BY <1>6, <3>3
    <3>5. x = tables'[p]
      BY <1>5, <3>1, <3>4
    <3>6. QED
      BY <1>9, <3>5 DEF Entries
  <2>3. QED
    BY <2>1, <2>2
<1>13. Known = {m.name : m \in Entries} /\ Known' = {m.name : m \in Entries'}
  BY <1>9, ListTypes DEF Known, Entries
<1>14. QED
  BY <1>9, <1>10, <1>11, <1>12, <1>13

\* What a start reads.
LEMMA LoadedIs ==
    ASSUME ShapeInv, NamesInv, Loads, tables' = Loaded
    PROVE  /\ tables' \in Seq(Entry) /\ Distinct'
           /\ Names' = catalog
           /\ \A p \in 1..Len(catalog) : catalog[p] \in Known'
           /\ Entries' = {Loaded[p] : p \in 1..Len(catalog)}
<1>1. /\ Len(catalog) \in Nat /\ catalog \in [1..Len(catalog) -> Table]
      /\ \A p \in 1..Len(catalog) : catalog[p] \in Table
  BY ElementOfSeq, LenProperties DEF ShapeInv
<1>2. \A p \in 1..Len(catalog) : schema[catalog[p]].defs \in SUBSET Index
  BY <1>1 DEF ShapeInv, SchemaFile, Missing, Torn, Whole
<1>3. \A p \in 1..Len(catalog) :
          Loaded[p] = [name |-> catalog[p], defs |-> schema[catalog[p]].defs]
  BY DEF Loaded
<1>4. Loaded \in [1..Len(catalog) -> Entry]
  BY <1>1, <1>2 DEF Loaded, Entry
<1>5. tables' \in Seq(Entry) /\ Len(tables') = Len(catalog)
  BY <1>1, <1>4, SeqDef, LenProperties
<1>6. \A p \in 1..Len(catalog) : tables'[p].name = catalog[p]
  <2>1. ASSUME NEW p \in 1..Len(catalog) PROVE tables'[p].name = catalog[p]
    <3>1. tables'[p] = [name |-> catalog[p], defs |-> schema[catalog[p]].defs]
      BY <1>3
    <3>2. QED
      BY <3>1
  <2>2. QED
    BY <2>1
<1>7. Distinct'
  BY <1>5, <1>6 DEF Distinct, NamesInv
<1>8. Names' = [p \in 1..Len(catalog) |-> catalog[p]]
  BY <1>5, <1>6 DEF Names
<1>9. Names' = catalog
  BY <1>1, <1>8
<1>10. \A p \in 1..Len(catalog) : catalog[p] \in Known'
  BY <1>5, <1>6 DEF Known
<1>11. QED
  BY <1>5, <1>7, <1>9, <1>10 DEF Entries

\* While names leave room for their NUL and a table is left, the text of the
\* catalog is the names.
LEMMA CatalogTextIs ==
    ASSUME Long = {}, NEW names \in Seq(Table), names # <<>>
    PROVE  CatalogText(names) = {names}
<1>1. Len(names) \in Nat \ {0}
  BY LenProperties, EmptySeq
<1>2. {q \in 1..Len(names) :
          /\ \A r \in 1..(q - 1) : names[r] \notin Long
          /\ names[q] \in Long \/ q = Len(names)} = {Len(names)}
  BY <1>1
<1>3. CatalogText(names) = {SubSeq(names, 1, Len(names))}
  BY <1>2 DEF CatalogText
<1>4. QED
  BY <1>3, SubSeqFull


LEMMA SchemaFiles ==
    /\ Missing \in SchemaFile /\ Torn \in SchemaFile
    /\ \A d \in SUBSET Index : Whole(d) \in SchemaFile
    /\ Missing # Torn
    /\ \A d : /\ Whole(d) # Missing /\ Whole(d) # Torn
              /\ Whole(d).state = "whole" /\ Whole(d).defs = d
    /\ \A f \in SchemaFile : f.defs \in SUBSET Index
    /\ \A f \in SchemaFile : f.state = "whole" => f = Whole(f.defs)
<1>1. Missing \in SchemaFile /\ Torn \in SchemaFile
  BY DEF SchemaFile
<1>2. \A d \in SUBSET Index : Whole(d) \in SchemaFile
  BY DEF SchemaFile
<1>3. /\ Missing.state = "missing" /\ Missing.defs = {}
      /\ Torn.state = "torn" /\ Torn.defs = {}
  BY DEF Missing, Torn
<1>4. \A d : Whole(d).state = "whole" /\ Whole(d).defs = d
  BY DEF Whole
<1>5. Missing # Torn /\ \A d : Whole(d) # Missing /\ Whole(d) # Torn
  BY <1>3, <1>4
<1>6. ASSUME NEW f \in SchemaFile
      PROVE  /\ f.defs \in SUBSET Index
             /\ f.state = "whole" => f = Whole(f.defs)
  <2>1. CASE f = Missing \/ f = Torn
    BY <1>3, <2>1
  <2>2. CASE \E d \in SUBSET Index : f = Whole(d)
    BY <1>4, <2>2
  <2>3. QED
    BY <2>1, <2>2 DEF SchemaFile
<1>7. QED
  BY <1>1, <1>2, <1>4, <1>5, <1>6

\* The end of a process, whatever it was doing.
LEMMA GoneList ==
    ASSUME ListInv, Gone
    PROVE  ListInv'
<1>1. ShapeInv'
  BY EmptySeq DEF ListInv, ShapeInv, Gone, disk
<1>2. StepInv' /\ WorkInv' /\ ~Running'
  BY DEF StepInv, WorkInv, Gone, NoWork, None, Running
<1>3. NamesInv'
  <2>1. tables' = <<>> /\ catalog' = catalog /\ pc' = "down" /\ kind' = None
    BY DEF Gone, disk
  <2>2. Len(tables') = 0
    BY <2>1
  <2>3. QED
    BY <1>2, <2>1, <2>2 DEF ListInv, NamesInv, None
<1>4. QED
  BY <1>1, <1>2, <1>3 DEF ListInv

\* A start, and the rest of it.
LEMMA ContinueWork ==
    ASSUME NEW names \in Seq(Table), Continue(names),
           \A p \in 1..Len(names) : names[p] \in Known'
    PROVE  /\ queue' \in Seq(Table)
           /\ pc' \in {"schema", "ready"}
           /\ StepInv' /\ WorkInv' /\ kind' \in {"start", None}
<1>1. queue' = names
  BY DEF Continue
<1>2. CASE names = <<>>
  BY <1>1, <1>2 DEF Continue, StepInv, WorkInv, None, NoWork
<1>3. CASE names # <<>>
  <2>1. Head(names) \in Table
    BY <1>3, HeadTailProperties
  <2>2. QED
    BY <1>1, <1>3, <2>1 DEF Continue, StepInv, WorkInv, None
<1>4. QED
  BY <1>2, <1>3

LEMMA StartList ==
    ASSUME ListInv, Start
    PROVE  ListInv'
<1>1. ShapeInv /\ NamesInv /\ Loads /\ tables' = Loaded /\ Continue(catalog)
      /\ UNCHANGED <<catalog, schema, rows, idx, hurt>>
  BY DEF ListInv, Start, disk
<1>2. /\ tables' \in Seq(Entry) /\ Distinct'
      /\ Names' = catalog
      /\ \A p \in 1..Len(catalog) : catalog[p] \in Known'
  BY <1>1, LoadedIs
<1>3. catalog \in Seq(Table)
  BY <1>1 DEF ShapeInv
<1>4. /\ queue' \in Seq(Table) /\ pc' \in {"schema", "ready"}
      /\ StepInv' /\ WorkInv' /\ kind' \in {"start", None}
  BY <1>1, <1>2, <1>3, ContinueWork
<1>5. ShapeInv'
  BY <1>1, <1>2, <1>4 DEF ShapeInv
<1>6. NamesInv'
  BY <1>1, <1>2, <1>4 DEF NamesInv, Distinct, Running, None
<1>7. QED
  BY <1>4, <1>5, <1>6 DEF ListInv

\* A step that leaves the list and the catalog as they are.
LEMMA SameList ==
    ASSUME NamesInv, Running, Running', UNCHANGED <<catalog, tables>>,
           pc # "catalog_write", pc' # "catalog_write",
           kind' = "drop" => kind = "drop"
    PROVE  NamesInv' /\ Known' = Known
<1>1. Names' = Names /\ Known' = Known
  BY DEF Names, Known
<1>2. QED
  BY <1>1 DEF NamesInv

LEMMA RedefinedList ==
    ASSUME ListInv, NEW t \in Known, NEW d \in SUBSET Index,
           tables' = WithDefs(t, d), catalog' = catalog,
           Running, Running', pc # "catalog_write", pc' # "catalog_write",
           kind' # "drop"
    PROVE  NamesInv' /\ Known' = Known /\ tables' \in Seq(Entry)
<1>1. tables \in Seq(Entry) /\ Distinct
  BY DEF ListInv, ShapeInv, NamesInv, Distinct
<1>2. /\ tables' \in Seq(Entry) /\ Distinct'
      /\ Known' = Known /\ Names' = Names
  BY <1>1, Redefined
<1>3. QED
  BY <1>2 DEF ListInv, NamesInv, Distinct


LEMMA ListNext ==
    ASSUME Long = {}, DropLast = FALSE, ListInv, [Next]_vars
    PROVE  ListInv'
<1> USE DEF ListInv, Running, None, NoWork
<1>1. /\ tables \in Seq(Entry) /\ Distinct
      /\ Known \subseteq Table
      /\ \A t \in Known : Meta(t).defs \in SUBSET Index
  <2>1. tables \in Seq(Entry) /\ Distinct
    BY DEF ShapeInv, NamesInv, Distinct
  <2>2. Known \subseteq Table /\ Entries \subseteq Entry
    BY <2>1, ListTypes
  <2>3. \A t \in Known : Meta(t) \in Entry
    BY <2>1, <2>2, MetaIs
  <2>4. QED
    BY <2>1, <2>2, <2>3 DEF Entry
<1>2. ASSUME Start PROVE ListInv'
  BY <1>2, StartList
<1>3. ASSUME StartRefused \/ StartAgain PROVE ListInv'
  BY <1>3 DEF StartRefused, StartAgain, disk, ShapeInv, StepInv, WorkInv, NamesInv
<1>4. ASSUME OpenSchema PROVE ListInv'
  <2>1. NamesInv' /\ Known' = Known
    BY <1>4, SameList DEF OpenSchema, Go
  <2>2. ShapeInv'
    BY <1>4, SchemaFiles DEF OpenSchema, Go, ShapeInv
  <2>3. QED
    BY <1>4, <2>1, <2>2 DEF OpenSchema, Go, StepInv, WorkInv
<1>5. ASSUME WriteSchema PROVE ListInv'
  <2>1. /\ work.table \in Table
        /\ SchemaText(work.table) \in SchemaFile
        /\ schema' = [schema EXCEPT ![work.table] = SchemaText(work.table)]
    BY <1>1, <1>5, SchemaFiles DEF WriteSchema, SchemaText, StepInv, WorkInv
  <2>2. UNCHANGED <<catalog, rows, idx, tables>> /\ pc = "schema_write"
    BY <1>5 DEF WriteSchema
  <2>3. schema' \in [Table -> SchemaFile]
    BY <2>1 DEF ShapeInv
  <2>4. CASE kind = "start"
    <3>1. Continue(Tail(queue)) /\ hurt' = hurt
      BY <1>5, <2>4 DEF WriteSchema
    <3>2. queue \in Seq(Table) /\ queue # <<>>
      BY <2>4 DEF WorkInv, ShapeInv
    <3>3. /\ Tail(queue) \in Seq(Table)
          /\ Len(Tail(queue)) = Len(queue) - 1
          /\ \A p \in 1..Len(Tail(queue)) : Tail(queue)[p] = queue[p + 1]
      BY <3>2, HeadTailProperties
    <3>4. Len(queue) \in Nat
      BY <3>2, LenProperties
    <3>5. \A p \in 1..Len(Tail(queue)) : p + 1 \in 1..Len(queue)
      BY <3>3, <3>4
    <3>6. Known' = Known
      BY <2>2 DEF Known
    <3>7. \A p \in 1..Len(Tail(queue)) : Tail(queue)[p] \in Known'
      BY <2>4, <3>3, <3>5, <3>6 DEF WorkInv
    <3>8. /\ queue' \in Seq(Table) /\ pc' \in {"schema", "ready"}
          /\ StepInv' /\ WorkInv' /\ kind' \in {"start", None}
      BY <3>1, <3>3, <3>7, ContinueWork
    <3>9. NamesInv'
      BY <2>2, <3>8, SameList
    <3>10. QED
      BY <2>2, <2>3, <3>1, <3>8, <3>9 DEF ShapeInv
  <2>5. CASE kind = "create"
    <3>1. Go("create_data")
      BY <1>5, <2>5 DEF WriteSchema
    <3>2. NamesInv' /\ Known' = Known
      BY <2>2, <3>1, SameList DEF Go
    <3>3. QED
      BY <2>2, <2>3, <2>5, <3>1, <3>2 DEF Go, ShapeInv, StepInv, WorkInv
  <2>6. CASE kind = "create_index"
    <3>1. Done
      BY <1>5, <2>6 DEF WriteSchema
    <3>2. NamesInv' /\ Known' = Known
      BY <2>2, <3>1, SameList DEF Done
    <3>3. QED
      BY <2>2, <2>3, <2>6, <3>1, <3>2 DEF Done, ShapeInv, StepInv, WorkInv
  <2>7. CASE kind = "drop_index"
    <3>1. Go("unlink")
      BY <1>5, <2>7 DEF WriteSchema
    <3>2. NamesInv' /\ Known' = Known
      BY <2>2, <3>1, SameList DEF Go
    <3>3. QED
      BY <2>2, <2>3, <2>7, <3>1, <3>2 DEF Go, ShapeInv, StepInv, WorkInv
  <2>8. QED
    BY <2>2, <2>4, <2>5, <2>6, <2>7 DEF StepInv
<1>6. ASSUME NEW t \in Table, CreateTable(t) \/ DropTable(t) \/ Truncate(t)
      PROVE  ListInv'
  <2>1. tables' = tables /\ catalog' = catalog /\ pc = "ready" /\ Known' = Known
        /\ Names' = Names
    BY <1>6 DEF CreateTable, DropTable, Truncate, disk, Begin, Known, Names
  <2>2. ShapeInv'
    BY <1>6 DEF CreateTable, DropTable, Truncate, disk, Begin, ShapeInv
  <2>3. StepInv'
    BY <1>6 DEF CreateTable, DropTable, Truncate, disk, Begin, StepInv
  <2>4. WorkInv'
    BY <1>6, <2>1 DEF CreateTable, DropTable, Truncate, disk, Begin, StepInv, WorkInv
  <2>5. NamesInv'
    BY <1>6, <2>1 DEF CreateTable, DropTable, Truncate, disk, Begin, StepInv, NamesInv
  <2>6. QED
    BY <2>2, <2>3, <2>4, <2>5
<1>7. ASSUME CreateData \/ PurgeIndex \/ PurgeDone \/ RemoveData
             \/ SaveIndex \/ RecreateData \/ ResaveIndex \/ ResaveDone
             \/ DropIndexFile \/ RemoveFails \/ RemoveSchema
      PROVE  ListInv'
  <2>1. /\ UNCHANGED <<catalog, tables>> /\ Running /\ Running'
        /\ pc # "catalog_write" /\ pc' # "catalog_write"
        /\ kind' = "drop" => kind = "drop"
    BY <1>7 DEF CreateData, PurgeIndex, PurgeDone, RemoveData, SaveIndex,
                RecreateData, ResaveIndex, ResaveDone, DropIndexFile,
                RemoveFails, RemoveSchema, disk, Go, Done
  <2>2. NamesInv' /\ Known' = Known
    BY <2>1, SameList
  <2>3. /\ rows' \subseteq Table
        /\ queue' = queue /\ hurt' = hurt
    BY <1>7 DEF CreateData, PurgeIndex, PurgeDone, RemoveData, SaveIndex,
                RecreateData, ResaveIndex, ResaveDone, DropIndexFile,
                RemoveFails, RemoveSchema, disk, Go, Done,
                ShapeInv, StepInv, WorkInv
  <2>4. schema' \in [Table -> SchemaFile]
    BY <1>7, SchemaFiles DEF CreateData, PurgeIndex, PurgeDone, RemoveData,
                SaveIndex, RecreateData, ResaveIndex, ResaveDone, DropIndexFile,
                RemoveFails, RemoveSchema, disk, Go, Done, ShapeInv
  <2>5. idx' \subseteq Table \X Index
    <3>1. CASE SaveIndex
      BY <3>1 DEF SaveIndex, Go, ShapeInv, StepInv, WorkInv
    <3>2. CASE ResaveIndex
      BY <1>1, <3>2 DEF ResaveIndex, ShapeInv, StepInv, WorkInv
    <3>3. CASE ~SaveIndex /\ ~ResaveIndex
      BY <1>7, <3>3 DEF CreateData, PurgeIndex, PurgeDone, RemoveData,
                RecreateData, ResaveDone, DropIndexFile,
                RemoveFails, RemoveSchema, disk, Go, Done, ShapeInv
    <3>4. QED
      BY <3>1, <3>2, <3>3
  <2>6. ShapeInv'
    BY <2>1, <2>3, <2>4, <2>5 DEF ShapeInv
  <2>7. StepInv'
    BY <1>7 DEF CreateData, PurgeIndex, PurgeDone, RemoveData, SaveIndex,
                RecreateData, ResaveIndex, ResaveDone, DropIndexFile,
                RemoveFails, RemoveSchema, Go, Done, StepInv
  <2>8. WorkInv'
    BY <1>7, <2>2 DEF CreateData, PurgeIndex, PurgeDone, RemoveData, SaveIndex,
                RecreateData, ResaveIndex, ResaveDone, DropIndexFile,
                RemoveFails, RemoveSchema, Go, Done, StepInv, WorkInv
  <2>9. QED
    BY <2>2, <2>6, <2>7, <2>8

<1>8. ASSUME AddTable PROVE ListInv'
  <2> DEFINE e == [name |-> work.table, defs |-> {}]
  <2>1. /\ kind = "create" /\ work.table \in Table /\ work.table \notin Known
        /\ tables' = Append(tables, e) /\ catalog' = <<>>
        /\ pc' = "catalog_write"
        /\ UNCHANGED <<schema, rows, idx, kind, work, queue, hurt>>
    BY <1>8 DEF AddTable, Go, StepInv, WorkInv
  <2>2. e \in Entry /\ e.name = work.table
    BY <2>1 DEF Entry
  <2> HIDE DEF e
  <2>3. /\ tables' \in Seq(Entry) /\ Distinct' /\ tables' # <<>>
        /\ Known' = Known \cup {e.name}
    BY <1>1, <2>1, <2>2, Appended
  <2>4. ShapeInv' /\ StepInv'
    BY <2>1, <2>3, EmptySeq DEF ShapeInv, StepInv
  <2>5. WorkInv'
    BY <2>1, <2>2, <2>3 DEF WorkInv
  <2>6. Len(catalog') = 0
    BY <2>1
  <2>7. NamesInv'
    BY <2>1, <2>3, <2>6 DEF NamesInv, Distinct
  <2>8. QED
    BY <2>4, <2>5, <2>7
<1>9. ASSUME RemoveTable PROVE ListInv'
  <2>1. /\ kind = "drop" /\ work.table \in Known /\ Len(tables) > 1
        /\ tables' = WithoutTable(work.table) /\ catalog' = <<>>
        /\ pc' = "catalog_write"
        /\ UNCHANGED <<schema, rows, idx, kind, work, queue, hurt>>
    BY <1>9 DEF RemoveTable, Go, StepInv, WorkInv, NamesInv
  <2>2. /\ tables' \in Seq(Entry) /\ Distinct' /\ tables' # <<>>
        /\ Known' = Known \ {work.table}
    BY <1>1, <2>1, Removed
  <2>3. ShapeInv' /\ StepInv'
    BY <2>1, <2>2, EmptySeq DEF ShapeInv, StepInv
  <2>4. WorkInv'
    BY <2>1, <2>2 DEF WorkInv
  <2>5. Len(catalog') = 0
    BY <2>1
  <2>6. NamesInv'
    BY <2>1, <2>2, <2>5 DEF NamesInv, Distinct
  <2>7. QED
    BY <2>3, <2>4, <2>6
<1>10. ASSUME WriteCatalog PROVE ListInv'
  <2>1. /\ tables # <<>> /\ catalog' \in CatalogText(Names)
        /\ pc = "catalog_write" /\ pc' = "ready" /\ kind' = None
        /\ UNCHANGED <<schema, rows, idx, tables, queue, hurt>>
    BY <1>10 DEF WriteCatalog, Done, NamesInv
  <2>2. /\ Names \in Seq(Table) /\ Len(Names) = Len(tables)
        /\ \A p \in 1..Len(tables) : Names[p] = tables[p].name
    BY <1>1, ListTypes
  <2>3. Names # <<>>
    BY <1>1, <2>1, <2>2, EmptySeq
  <2>4. catalog' = Names
    BY <2>1, <2>2, <2>3, CatalogTextIs
  <2>5. Names' = Names
    BY <2>1 DEF Names
  <2>6. ShapeInv'
    BY <2>1, <2>2, <2>4 DEF ShapeInv
  <2>7. StepInv'
    BY <2>1 DEF StepInv
  <2>8. WorkInv'
    BY <2>1 DEF StepInv, WorkInv
  <2>9. NamesInv'
    BY <2>1, <2>2, <2>4, <2>5 DEF NamesInv
  <2>10. QED
    BY <2>6, <2>7, <2>8, <2>9
<1>11. ASSUME NEW t \in Table, NEW i \in Index, CreateIndex(t, i) PROVE ListInv'
  <2>1. /\ pc = "ready" /\ pc' = "index" /\ kind' = "create_index"
        /\ work' = [table |-> t, index |-> i] /\ t \in Known
        /\ UNCHANGED <<catalog, schema, rows, idx, tables, queue, hurt>>
    BY <1>11 DEF CreateIndex, Begin, disk
  <2>2. NamesInv' /\ Known' = Known
    BY <2>1, SameList
  <2>3. QED
    BY <2>1, <2>2 DEF ShapeInv, StepInv, WorkInv
<1>12. ASSUME DefineIndex PROVE ListInv'
  <2> DEFINE d == Meta(work.table).defs \cup {work.index}
  <2>1. /\ kind = "create_index" /\ work.table \in Known /\ work.index \in Index
        /\ pc = "define" /\ pc' = "schema_write"
        /\ tables' = WithDefs(work.table, d)
        /\ schema' = [schema EXCEPT ![work.table] = Torn]
        /\ UNCHANGED <<catalog, rows, idx, kind, work, queue, hurt>>
    BY <1>12 DEF DefineIndex, Go, StepInv, WorkInv
  <2>2. d \in SUBSET Index
    BY <1>1, <2>1
  <2> HIDE DEF d
  <2>3. NamesInv' /\ Known' = Known /\ tables' \in Seq(Entry)
    BY <2>1, <2>2, RedefinedList
  <2>4. QED
    BY <2>1, <2>3, SchemaFiles DEF ShapeInv, StepInv, WorkInv
<1>13. ASSUME NEW t \in Table, NEW i \in Index, DropIndex(t, i) PROVE ListInv'
  <2> DEFINE d == Meta(t).defs \ {i}
  <2>1. /\ t \in Known
        /\ pc = "ready" /\ pc' = "schema_write" /\ kind' = "drop_index"
        /\ work' = [table |-> t, index |-> i]
        /\ tables' = WithDefs(t, d)
        /\ schema' = [schema EXCEPT ![t] = Torn]
        /\ UNCHANGED <<catalog, rows, idx, queue, hurt>>
    BY <1>13 DEF DropIndex, Begin
  <2>2. d \in SUBSET Index
    BY <1>1, <2>1
  <2> HIDE DEF d
  <2>3. NamesInv' /\ Known' = Known /\ tables' \in Seq(Entry)
    BY <2>1, <2>2, RedefinedList
  <2>4. QED
    BY <2>1, <2>3, SchemaFiles DEF ShapeInv, StepInv, WorkInv
<1>14. ASSUME Gone PROVE ListInv'
  BY <1>14, GoneList
<1>15. ASSUME UNCHANGED vars PROVE ListInv'
  <2>1. Known' = Known /\ Names' = Names
    BY <1>15 DEF vars, Known, Names
  <2>2. QED
    BY <1>15, <2>1 DEF vars, ShapeInv, StepInv, WorkInv, NamesInv
<1>16. QED
  BY <1>2, <1>3, <1>4, <1>5, <1>6, <1>7, <1>8, <1>9, <1>10, <1>11, <1>12, <1>13,
     <1>14, <1>15
     DEF Next, CreateDataFatal, CreateIndexDies, Quit, Crash


(***************************************************************************)
(* What steps do to the stored tables.                                     *)
(***************************************************************************)
LEMMA EntryFacts ==
    ASSUME ListInv
    PROVE  /\ Entries \subseteq Entry
           /\ Known = {m.name : m \in Entries} /\ Known \subseteq Table
           /\ \A m \in Entries : /\ m.name \in Known /\ Meta(m.name) = m
                                 /\ m.defs \in SUBSET Index
           /\ \A t \in Known : Meta(t) \in Entries /\ Meta(t).name = t
<1>1. tables \in Seq(Entry) /\ Distinct
  BY DEF ListInv, ShapeInv, NamesInv, Distinct
<1>2. Entries \subseteq Entry /\ Known = {m.name : m \in Entries} /\ Known \subseteq Table
  BY <1>1, ListTypes
<1>3. /\ \A m \in Entries : m.name \in Known /\ Meta(m.name) = m
      /\ \A t \in Known : Meta(t) \in Entries /\ Meta(t).name = t
  BY <1>1, MetaIs
<1>4. QED
  BY <1>2, <1>3 DEF Entry

LEMMA StoredSame ==
    ASSUME UNCHANGED tables
    PROVE  /\ Entries' = Entries /\ Known' = Known
           /\ \A t : Meta(t)' = Meta(t)
           /\ Running /\ Running' => Stored' = Stored
<1>1. Entries' = Entries /\ Known' = Known /\ \A t : Meta(t)' = Meta(t)
  BY DEF Entries, Known, Meta
<1>2. QED
  BY <1>1 DEF Stored

LEMMA WriteSchemaIs ==
    ASSUME ListInv, WriteSchema
    PROVE  /\ pc = "schema_write" /\ Running /\ Running'
           /\ work.table \in Table
           /\ schema' = [schema EXCEPT ![work.table] = SchemaText(work.table)]
           /\ UNCHANGED <<catalog, rows, idx, tables, hurt>>
           /\ \/ /\ kind = "start" /\ kind' \in {"start", None}
                 /\ pc' \in {"schema", "ready"}
              \/ kind = "create" /\ pc' = "create_data" /\ UNCHANGED <<kind, work>>
              \/ kind = "create_index" /\ pc' = "ready" /\ kind' = None
              \/ kind = "drop_index" /\ pc' = "unlink" /\ UNCHANGED <<kind, work>>
<1>1. /\ pc = "schema_write" /\ Running
      /\ work.table \in Table
      /\ schema' = [schema EXCEPT ![work.table] = SchemaText(work.table)]
      /\ UNCHANGED <<catalog, rows, idx, tables>>
  BY DEF WriteSchema, ListInv, StepInv, WorkInv, None, Running
<1>2. CASE kind = "start"
  <2>1. Continue(Tail(queue)) /\ hurt' = hurt
    BY <1>2 DEF WriteSchema
  <2>2. kind' \in {"start", None} /\ pc' \in {"schema", "ready"}
    BY <2>1 DEF Continue
  <2>3. QED
    BY <1>1, <1>2, <2>1, <2>2 DEF Running
<1>3. CASE kind = "create"
  <2>1. Go("create_data")
    BY <1>3 DEF WriteSchema
  <2>2. QED
    BY <1>1, <1>3, <2>1 DEF Go, Running
<1>4. CASE kind = "create_index"
  <2>1. Done
    BY <1>4 DEF WriteSchema
  <2>2. QED
    BY <1>1, <1>4, <2>1 DEF Done, Running
<1>5. CASE kind = "drop_index"
  <2>1. Go("unlink")
    BY <1>5 DEF WriteSchema
  <2>2. QED
    BY <1>1, <1>5, <2>1 DEF Go, Running
<1>6. QED
  BY <1>1, <1>2, <1>3, <1>4, <1>5 DEF ListInv, StepInv, None

LEMMA StartIs ==
    ASSUME ListInv, Start
    PROVE  /\ pc = "down" /\ ~Running /\ Running'
           /\ pc' \in {"schema", "ready"} /\ kind' \in {"start", None}
           /\ UNCHANGED <<catalog, schema, rows, idx, hurt>>
           /\ Entries' = Stored /\ Stored' = Stored
           /\ \A m \in Stored : schema[m.name] = Whole(m.defs)
<1>1. ShapeInv /\ NamesInv /\ Loads /\ tables' = Loaded /\ Continue(catalog)
      /\ pc = "down" /\ UNCHANGED <<catalog, schema, rows, idx, hurt>>
  BY DEF ListInv, Start, disk
<1>2. pc' \in {"schema", "ready"} /\ kind' \in {"start", None}
  BY <1>1 DEF Continue
<1>3. Entries' = {Loaded[p] : p \in 1..Len(catalog)}
  BY <1>1, LoadedIs
<1>4. ~Running /\ Running'
  BY <1>1, <1>2 DEF Running
<1>5. Entries' = Stored /\ Stored' = Stored
  BY <1>3, <1>4 DEF Stored
<1>6. ASSUME NEW m \in Stored PROVE schema[m.name] = Whole(m.defs)
  <2>1. PICK p \in 1..Len(catalog) : m = Loaded[p]
    BY <1>4, <1>6 DEF Stored
  <2>2. m = [name |-> catalog[p], defs |-> schema[catalog[p]].defs]
    BY <2>1 DEF Loaded
  <2>3. catalog[p] \in Table /\ schema[catalog[p]].state = "whole"
    BY <1>1 DEF Loads
  <2>4. schema[catalog[p]] \in SchemaFile
    BY <1>1, <2>3 DEF ShapeInv
  <2>5. QED
    BY <2>2, <2>3, <2>4, SchemaFiles
<1>7. QED
  BY <1>1, <1>2, <1>4, <1>5, <1>6

LEMMA AddTableIs ==
    ASSUME ListInv, AddTable
    PROVE  /\ kind = "create" /\ pc = "add" /\ pc' = "catalog_write"
           /\ work.table \in Table \ Known
           /\ Entries' = Entries \cup {[name |-> work.table, defs |-> {}]}
           /\ UNCHANGED <<schema, rows, idx, kind, work, queue, hurt>>
<1> DEFINE e == [name |-> work.table, defs |-> {}]
<1>1. /\ kind = "create" /\ work.table \in Table /\ work.table \notin Known
      /\ pc = "add" /\ pc' = "catalog_write" /\ tables' = Append(tables, e)
      /\ UNCHANGED <<schema, rows, idx, kind, work, queue, hurt>>
  BY DEF AddTable, Go, ListInv, StepInv, WorkInv, None
<1>2. e \in Entry /\ e.name = work.table
  BY <1>1 DEF Entry
<1>3. tables \in Seq(Entry) /\ Distinct
  BY DEF ListInv, ShapeInv, NamesInv, Distinct
<1> HIDE DEF e
<1>4. Entries' = Entries \cup {e}
  BY <1>1, <1>2, <1>3, Appended
<1>5. QED
  BY <1>1, <1>4 DEF e

LEMMA RemoveTableIs ==
    ASSUME ListInv, RemoveTable
    PROVE  /\ kind = "drop" /\ pc = "remove" /\ pc' = "catalog_write"
           /\ work.table \in Known
           /\ Entries' = Entries \ {Meta(work.table)}
           /\ UNCHANGED <<schema, rows, idx, kind, work, queue, hurt>>
<1>1. /\ kind = "drop" /\ work.table \in Known /\ Len(tables) > 1
      /\ pc = "remove" /\ pc' = "catalog_write"
      /\ tables' = WithoutTable(work.table)
      /\ UNCHANGED <<schema, rows, idx, kind, work, queue, hurt>>
  BY DEF RemoveTable, Go, ListInv, StepInv, WorkInv, NamesInv, None
<1>2. tables \in Seq(Entry) /\ Distinct
  BY DEF ListInv, ShapeInv, NamesInv, Distinct
<1>3. QED
  BY <1>1, <1>2, Removed

LEMMA DefineIndexIs ==
    ASSUME ListInv, DefineIndex
    PROVE  /\ kind = "create_index" /\ pc = "define" /\ pc' = "schema_write"
           /\ work.table \in Known /\ work.index \in Index
           /\ Entries' = (Entries \ {Meta(work.table)}) \cup
                {[name |-> work.table,
                  defs |-> Meta(work.table).defs \cup {work.index}]}
           /\ schema' = [schema EXCEPT ![work.table] = Torn]
           /\ UNCHANGED <<catalog, rows, idx, kind, work, queue, hurt>>
<1> DEFINE d == Meta(work.table).defs \cup {work.index}
<1>1. /\ kind = "create_index" /\ work.table \in Known /\ work.index \in Index
      /\ pc = "define" /\ pc' = "schema_write"
      /\ tables' = WithDefs(work.table, d)
      /\ schema' = [schema EXCEPT ![work.table] = Torn]
      /\ UNCHANGED <<catalog, rows, idx, kind, work, queue, hurt>>
  BY DEF DefineIndex, Go, ListInv, StepInv, WorkInv, None
<1>2. d \in SUBSET Index
  BY <1>1, EntryFacts
<1>3. tables \in Seq(Entry) /\ Distinct
  BY DEF ListInv, ShapeInv, NamesInv, Distinct
<1> HIDE DEF d
<1>4. Entries' = (Entries \ {Meta(work.table)}) \cup {[name |-> work.table, defs |-> d]}
  BY <1>1, <1>2, <1>3, Redefined
<1>5. QED
  BY <1>1, <1>4 DEF d

LEMMA DropIndexIs ==
    ASSUME ListInv, NEW t, NEW i, DropIndex(t, i)
    PROVE  /\ pc = "ready" /\ pc' = "schema_write" /\ kind' = "drop_index"
           /\ kind = None
           /\ t \in Known /\ work' = [table |-> t, index |-> i]
           /\ Entries' = (Entries \ {Meta(t)}) \cup
                {[name |-> t, defs |-> Meta(t).defs \ {i}]}
           /\ schema' = [schema EXCEPT ![t] = Torn]
           /\ UNCHANGED <<catalog, rows, idx, queue, hurt>>
<1> DEFINE d == Meta(t).defs \ {i}
<1>1. /\ t \in Known /\ kind = None
      /\ pc = "ready" /\ pc' = "schema_write" /\ kind' = "drop_index"
      /\ work' = [table |-> t, index |-> i]
      /\ tables' = WithDefs(t, d)
      /\ schema' = [schema EXCEPT ![t] = Torn]
      /\ UNCHANGED <<catalog, rows, idx, queue, hurt>>
  BY DEF DropIndex, Begin, ListInv, StepInv
<1>2. d \in SUBSET Index
  BY <1>1, EntryFacts
<1>3. tables \in Seq(Entry) /\ Distinct
  BY DEF ListInv, ShapeInv, NamesInv, Distinct
<1> HIDE DEF d
<1>4. Entries' = (Entries \ {Meta(t)}) \cup {[name |-> t, defs |-> d]}
  BY <1>1, <1>2, <1>3, Redefined
<1>5. QED
  BY <1>1, <1>4 DEF d


(***************************************************************************)
(* The files, while statements run and after them.                         *)
(***************************************************************************)
LEMMA ProgressNext ==
    ASSUME ListInv, ProgressInv, [Next]_vars
    PROVE  ProgressInv'
<1> USE DEF None, NoWork
<1>1. ASSUME kind' \notin {"create", "drop", "create_index", "drop_index"}
      PROVE  ProgressInv'
  BY <1>1 DEF ProgressInv
<1>2. CASE Start \/ StartRefused \/ StartAgain
  <2>1. ASSUME Start
        PROVE  kind' \notin {"create", "drop", "create_index", "drop_index"}
    BY <2>1, StartIs
  <2>2. ASSUME StartRefused \/ StartAgain
        PROVE  kind' \notin {"create", "drop", "create_index", "drop_index"}
    BY <2>2 DEF StartRefused, StartAgain, ListInv, StepInv
  <2>3. QED
    BY <1>1, <1>2, <2>1, <2>2
<1>3. CASE Gone \/ RemoveFails \/ WriteCatalog \/ ResaveDone \/ DropIndexFile
  BY <1>1, <1>3 DEF Gone, RemoveFails, WriteCatalog, ResaveDone, DropIndexFile, Done
<1>4. CASE OpenSchema
  BY <1>4 DEF OpenSchema, Go, ProgressInv, ListInv, StepInv
<1>5. CASE WriteSchema
  <2>1. /\ work.table \in Table /\ schema \in [Table -> SchemaFile]
        /\ schema' = [schema EXCEPT ![work.table] = SchemaText(work.table)]
    BY <1>5, WriteSchemaIs DEF ListInv, ShapeInv
  <2>2. CASE kind = "create"
    <3>1. schema'[work.table] = Whole({})
      BY <2>1, <2>2 DEF SchemaText
    <3>2. QED
      BY <1>5, <2>2, <3>1, WriteSchemaIs DEF ProgressInv
  <2>3. CASE kind # "create"
    <3>1. Entries' = Entries
      BY <1>5, WriteSchemaIs, StoredSame
    <3>2. QED
      BY <1>1, <1>5, <2>3, <3>1, WriteSchemaIs DEF ProgressInv
  <2>4. QED
    BY <2>2, <2>3
<1>6. CASE \E t \in Table : CreateTable(t) \/ DropTable(t) \/ Truncate(t)
  BY <1>6 DEF CreateTable, DropTable, Truncate, Begin, ProgressInv
<1>7. CASE CreateData
  BY <1>7 DEF CreateData, Go, ProgressInv, ListInv, StepInv
<1>8. CASE AddTable
  BY <1>8, AddTableIs DEF ProgressInv
<1>9. CASE RemoveTable
  BY <1>9, RemoveTableIs DEF ProgressInv
<1>10. CASE PurgeIndex
  BY <1>10 DEF PurgeIndex, ProgressInv, ListInv, StepInv
<1>11. CASE PurgeDone
  <2>1. Purged'
    <3>1. \A t : Meta(t)' = Meta(t)
      BY <1>11, StoredSame DEF PurgeDone
    <3>2. QED
      BY <1>11, <3>1 DEF PurgeDone, Go, disk, Purged
  <2>2. QED
    BY <1>11, <2>1 DEF PurgeDone, Go, ProgressInv, ListInv, StepInv
<1>12. CASE RemoveSchema \/ RemoveData
  <2>1. /\ kind = "drop" /\ Purged /\ pc \in {"drop_schema", "drop_data"}
        /\ UNCHANGED <<tables, idx, kind, work>>
    BY <1>12 DEF RemoveSchema, RemoveData, Go, ListInv, StepInv, ProgressInv
  <2>2. Purged'
    <3>1. \A t : Meta(t)' = Meta(t)
      BY <2>1, StoredSame
    <3>2. QED
      BY <2>1, <3>1 DEF Purged
  <2>3. work.table \in Table /\ schema \in [Table -> SchemaFile]
    BY <2>1 DEF ListInv, ShapeInv, WorkInv
  <2>4. QED
    BY <1>12, <2>1, <2>2, <2>3 DEF RemoveSchema, RemoveData, Go, ProgressInv
<1>13. CASE \E t \in Table, i \in Index : CreateIndex(t, i)
  BY <1>13 DEF CreateIndex, Begin, ProgressInv
<1>14. CASE SaveIndex
  BY <1>14 DEF SaveIndex, Go, ProgressInv, ListInv, StepInv
<1>15. CASE DefineIndex
  <2> PICK e : e = [name |-> work.table,
                    defs |-> Meta(work.table).defs \cup {work.index}]
    OBVIOUS
  <2>1. /\ e \in Entries' /\ e.name = work.table /\ work.index \in e.defs
        /\ kind = "create_index" /\ pc = "define"
        /\ UNCHANGED <<idx, kind, work>>
    BY <1>15, DefineIndexIs
  <2>2. QED
    BY <2>1 DEF ProgressInv
<1>16. CASE \E t \in Table, i \in Index : DropIndex(t, i)
  <2>1. PICK t \in Table, i \in Index : DropIndex(t, i)
    BY <1>16
  <2> DEFINE e == [name |-> t, defs |-> Meta(t).defs \ {i}]
  <2>2. /\ Entries' = (Entries \ {Meta(t)}) \cup {e}
        /\ i \notin e.defs /\ kind' = "drop_index"
        /\ work'.table = t /\ work'.index = i
    BY <2>1, DropIndexIs
  <2> HIDE DEF e
  <2>3. \A m \in Entries : m.name = t => m = Meta(t)
    BY EntryFacts
  <2>4. \A m \in Entries' : m.name = t => i \notin m.defs
    BY <2>2, <2>3
  <2>5. QED
    BY <2>2, <2>4 DEF ProgressInv
<1>17. CASE RecreateData \/ ResaveIndex
  BY <1>1, <1>17 DEF RecreateData, ResaveIndex, Go, ListInv, StepInv
<1>18. CASE UNCHANGED vars
  <2>1. Entries' = Entries /\ \A t : Meta(t)' = Meta(t)
    BY <1>18, StoredSame DEF vars
  <2>2. UNCHANGED <<pc, kind, work, schema, rows, idx>>
    BY <1>18 DEF vars
  <2>3. Purged' = Purged
    BY <2>1, <2>2 DEF Purged
  <2>4. QED
    BY <2>1, <2>2, <2>3 DEF ProgressInv
<1>19. QED
  BY <1>2, <1>3, <1>4, <1>5, <1>6, <1>7, <1>8, <1>9, <1>10, <1>11, <1>12, <1>13,
     <1>14, <1>15, <1>16, <1>17, <1>18
     DEF Next, CreateDataFatal, CreateIndexDies, Quit, Crash

LEMMA OpenNext ==
    ASSUME ListInv, ProgressInv, OpenInv, [Next]_vars
    PROVE  OpenInv'
<1> USE DEF None
<1>1. /\ schema \in [Table -> SchemaFile]
      /\ \A m \in Entries : m.name \in Known /\ m.name \in Table /\ Meta(m.name) = m
  BY EntryFacts DEF ListInv, ShapeInv
<1>2. CASE Start
  BY <1>2, StartIs DEF OpenInv
<1>3. CASE Gone
  <2>1. Len(tables') = 0
    BY <1>3 DEF Gone
  <2>2. Entries' = {}
    BY <2>1 DEF Entries
  <2>3. QED
    BY <2>2 DEF OpenInv
<1>4. CASE StartRefused \/ StartAgain
  <2>1. Entries' = Entries
    BY <1>4, StoredSame DEF StartRefused, StartAgain
  <2>2. QED
    BY <1>4, <2>1 DEF StartRefused, StartAgain, disk, OpenInv
<1>5. CASE OpenSchema \/ CreateData \/ WriteCatalog
           \/ PurgeIndex \/ PurgeDone \/ RemoveSchema \/ RemoveData \/ RemoveFails
           \/ SaveIndex \/ DropIndexFile \/ RecreateData \/ ResaveIndex \/ ResaveDone
  <2>1. UNCHANGED tables
    BY <1>5 DEF OpenSchema, CreateData, WriteCatalog, PurgeIndex, PurgeDone,
                RemoveSchema, RemoveData, RemoveFails, SaveIndex, DropIndexFile,
                RecreateData, ResaveIndex, ResaveDone, disk
  <2>2. Entries' = Entries
    BY <2>1, StoredSame
  <2>3. SUFFICES ASSUME NEW m \in Entries,
                        m.name \in rows' \/ (m.name = work'.table /\ pc' = "recreate")
                 PROVE  \/ schema'[m.name] = Whole(m.defs)
                        \/ /\ m.name = work'.table
                           /\ pc' \in {"schema_write", "drop_data"}
    BY <2>2 DEF OpenInv
  <2>4. m.name \in rows \/ (m.name = work.table /\ pc = "recreate") =>
            \/ schema[m.name] = Whole(m.defs)
            \/ m.name = work.table /\ pc \in {"schema_write", "drop_data"}
    BY DEF OpenInv
  <2>5. CASE OpenSchema
    BY <1>1, <2>3, <2>4, <2>5 DEF OpenSchema, Go
  <2>6. CASE CreateData
    BY <1>1, <2>3, <2>4, <2>6 DEF CreateData, Go, ListInv, StepInv, WorkInv
  <2>7. CASE RemoveSchema
    BY <1>1, <2>3, <2>4, <2>7 DEF RemoveSchema, Go
  <2>8. CASE RemoveFails
    BY <1>1, <2>3, <2>4, <2>8, SchemaFiles DEF RemoveFails, Done, disk
  <2>9. CASE RecreateData \/ WriteCatalog \/ PurgeIndex \/ PurgeDone \/ RemoveData
             \/ SaveIndex \/ DropIndexFile \/ ResaveIndex \/ ResaveDone
    BY <2>3, <2>4, <2>9 DEF WriteCatalog, PurgeIndex, PurgeDone, RemoveData,
            SaveIndex, DropIndexFile, RecreateData, ResaveIndex, ResaveDone,
            disk, Go, Done
  <2>10. QED
    BY <1>5, <2>5, <2>6, <2>7, <2>8, <2>9
<1>6. CASE WriteSchema
  <2>1. /\ pc = "schema_write" /\ work.table \in Table /\ UNCHANGED <<rows, tables>>
        /\ schema' = [schema EXCEPT ![work.table] = SchemaText(work.table)]
        /\ pc' \in {"schema", "ready", "create_data", "unlink"}
        /\ kind \in {"start", "create", "create_index", "drop_index"}
    BY <1>6, WriteSchemaIs
  <2>2. Entries' = Entries
    BY <2>1, StoredSame
  <2>3. ASSUME NEW m \in Entries, m.name \in rows
        PROVE  schema'[m.name] = Whole(m.defs)
    <3>1. CASE m.name = work.table
      <4>1. kind # "create"
        BY <1>1, <2>1, <3>1 DEF ListInv, WorkInv
      <4>2. SchemaText(work.table) = Whole(m.defs)
        BY <1>1, <3>1, <4>1 DEF SchemaText
      <4>3. QED
        BY <1>1, <2>1, <3>1, <4>2
    <3>2. CASE m.name # work.table
      BY <1>1, <2>1, <2>3, <3>2 DEF OpenInv
    <3>3. QED
      BY <3>1, <3>2
  <2>4. QED
    BY <2>1, <2>2, <2>3 DEF OpenInv
<1>7. CASE \E t \in Table : CreateTable(t) \/ DropTable(t) \/ Truncate(t)
  <2>1. PICK t \in Table : CreateTable(t) \/ DropTable(t) \/ Truncate(t)
    BY <1>7
  <2>2. UNCHANGED <<tables, schema>> /\ rows' \subseteq rows
        /\ (pc' = "recreate" => t \in rows /\ work'.table = t) /\ pc = "ready"
    BY <2>1 DEF CreateTable, DropTable, Truncate, Begin, disk
  <2>3. Entries' = Entries
    BY <2>2, StoredSame
  <2>4. QED
    BY <2>2, <2>3 DEF OpenInv
<1>8. CASE AddTable
  <2> DEFINE e == [name |-> work.table, defs |-> {}]
  <2>1. /\ Entries' = Entries \cup {e}
        /\ e.name = work.table /\ e.defs = {}
        /\ pc = "add" /\ kind = "create" /\ pc' = "catalog_write"
        /\ UNCHANGED <<schema, rows>>
    BY <1>8, AddTableIs
  <2>2. schema[e.name] = Whole(e.defs)
    BY <2>1 DEF ProgressInv
  <2> HIDE DEF e
  <2>3. QED
    BY <2>1, <2>2 DEF OpenInv
<1>9. CASE RemoveTable
  BY <1>9, RemoveTableIs DEF OpenInv
<1>10. CASE \E t \in Table, i \in Index : CreateIndex(t, i)
  <2>1. UNCHANGED <<tables, schema, rows>> /\ pc = "ready" /\ pc' = "index"
    BY <1>10 DEF CreateIndex, Begin, disk
  <2>2. Entries' = Entries
    BY <2>1, StoredSame
  <2>3. QED
    BY <2>1, <2>2 DEF OpenInv
<1>11. CASE DefineIndex
  <2> DEFINE e == [name |-> work.table,
                   defs |-> Meta(work.table).defs \cup {work.index}]
  <2>1. /\ Entries' = (Entries \ {Meta(work.table)}) \cup {e}
        /\ e.name = work.table
        /\ pc = "define" /\ pc' = "schema_write"
        /\ schema' = [schema EXCEPT ![work.table] = Torn]
        /\ UNCHANGED <<rows, work>>
    BY <1>11, DefineIndexIs
  <2> HIDE DEF e
  <2>2. QED
    BY <1>1, <2>1 DEF OpenInv
<1>12. CASE \E t \in Table, i \in Index : DropIndex(t, i)
  <2>1. PICK t \in Table, i \in Index : DropIndex(t, i)
    BY <1>12
  <2> DEFINE e == [name |-> t, defs |-> Meta(t).defs \ {i}]
  <2>2. /\ Entries' = (Entries \ {Meta(t)}) \cup {e}
        /\ e.name = t /\ work'.table = t
        /\ pc = "ready" /\ pc' = "schema_write"
        /\ schema' = [schema EXCEPT ![t] = Torn]
        /\ UNCHANGED rows
    BY <2>1, DropIndexIs
  <2> HIDE DEF e
  <2>3. QED
    BY <1>1, <2>2 DEF OpenInv
<1>13. CASE UNCHANGED vars
  <2>1. Entries' = Entries
    BY <1>13, StoredSame DEF vars
  <2>2. QED
    BY <1>13, <2>1 DEF vars, OpenInv
<1>14. QED
  BY <1>2, <1>3, <1>4, <1>5, <1>6, <1>7, <1>8, <1>9, <1>10, <1>11, <1>12, <1>13
     DEF Next, CreateDataFatal, CreateIndexDies, Quit, Crash


\* A process that ends outside the windows leaves, in its files, the tables that
\* it had in memory.
LEMMA GoneIs ==
    ASSUME ListInv, KeptInv, Running, Gone, hurt' # "window"
    PROVE  /\ hurt # "window" /\ ~InWindow
           /\ hurt' = "no" => hurt = "no" /\ kind = None
           /\ kind' = None /\ pc' = "down" /\ ~Running'
           /\ UNCHANGED disk
           /\ \A m \in Entries : schema[m.name] = Whole(m.defs)
           /\ Stored = Entries /\ Stored' = Entries
<1>1. /\ hurt # "window" /\ ~InWindow /\ UNCHANGED disk /\ pc' = "down"
      /\ hurt' = "no" => hurt = "no" /\ kind = None
      /\ kind' = None
  BY DEF Gone
<1>2. ~Running' /\ Stored = Entries
  BY <1>1 DEF Running, Stored
<1>3. ASSUME NEW m \in Entries PROVE schema[m.name] = Whole(m.defs)
  <2>1. /\ m.name \in Known
        /\ \/ schema[m.name] = Whole(m.defs)
           \/ /\ m.name = work.table
              /\ pc \in {"schema_write", "drop_data", "remove"}
    BY <1>1, <1>2, <1>3, EntryFacts DEF KeptInv, KeptEntry
  <2>2. QED
    BY <1>1, <2>1 DEF InWindow, ListInv, StepInv, WorkInv, None
<1>4. catalog = Names
  BY <1>1 DEF InWindow, ListInv, NamesInv
<1>5. tables \in Seq(Entry) /\ \A p \in 1..Len(tables) : tables[p] \in Entry
  BY ListTypes DEF ListInv, ShapeInv
<1>6. /\ Len(catalog) = Len(tables)
      /\ \A p \in 1..Len(tables) : catalog[p] = tables[p].name
  BY <1>4, <1>5, ListTypes
<1>7. ASSUME NEW p \in 1..Len(tables)
      PROVE  tables[p] = [name |-> catalog[p], defs |-> schema[catalog[p]].defs]
  <2>1. tables[p] = [name |-> tables[p].name, defs |-> tables[p].defs]
    BY <1>5 DEF Entry
  <2>2. schema[tables[p].name] = Whole(tables[p].defs)
    BY <1>3 DEF Entries
  <2>3. schema[tables[p].name].defs = tables[p].defs
    BY <2>2 DEF Whole
  <2>4. QED
    BY <1>6, <2>1, <2>3
<1>8. Loaded = [p \in 1..Len(tables) |-> tables[p]]
  BY <1>6, <1>7 DEF Loaded
<1>9. {Loaded[p] : p \in 1..Len(catalog)} = Entries
  BY <1>6, <1>8 DEF Entries
<1>10. Stored' = {Loaded[p] : p \in 1..Len(catalog)}
  <2>1. Loaded' = Loaded /\ catalog' = catalog
    BY <1>1 DEF disk, Loaded
  <2>2. QED
    BY <1>2, <2>1 DEF Stored
<1>11. QED
  BY <1>1, <1>2, <1>3, <1>9, <1>10

LEMMA KeptNext ==
    ASSUME ListInv, ProgressInv, KeptInv, [Next]_vars, hurt' # "window"
    PROVE  \A m \in Stored' : KeptEntry(m)'
<1> USE DEF None
<1>1. /\ schema \in [Table -> SchemaFile]
      /\ \A m \in Entries : m.name \in Known /\ m.name \in Table /\ Meta(m.name) = m
  BY EntryFacts DEF ListInv, ShapeInv
<1>2. CASE Start
  <2>1. /\ Stored' = Stored /\ UNCHANGED <<schema, rows, idx, hurt>>
        /\ pc = "down" /\ kind = None
    BY <1>2, StartIs DEF ListInv, StepInv
  <2>2. ASSUME NEW m \in Stored
        PROVE  /\ m.name \in rows /\ schema[m.name] = Whole(m.defs)
               /\ \A i \in m.defs : <<m.name, i>> \in idx
    BY <2>1 DEF KeptInv, KeptEntry
  <2>3. QED
    BY <2>1, <2>2 DEF KeptEntry
<1>3. CASE StartRefused \/ StartAgain
  <2>1. /\ UNCHANGED <<catalog, schema, rows, idx, hurt, work, kind>>
        /\ pc \in {"down", "refused"} /\ pc' \in {"down", "refused"}
    BY <1>3 DEF StartRefused, StartAgain, disk
  <2>2. Stored' = Stored
    <3>1. ~Running /\ ~Running' /\ Loaded' = Loaded
      BY <2>1 DEF Running, Loaded
    <3>2. QED
      BY <2>1, <3>1 DEF Stored
  <2>3. QED
    BY <2>1, <2>2 DEF KeptInv, KeptEntry
<1>4. CASE Running /\ Gone
  <2>1. /\ hurt # "window" /\ ~InWindow
        /\ UNCHANGED <<schema, rows, idx>>
        /\ \A m \in Entries : schema[m.name] = Whole(m.defs)
        /\ Stored = Entries /\ Stored' = Entries
    BY <1>4, GoneIs DEF disk
  <2>2. pc \notin {"recreate", "remove"} /\ kind \notin {"drop", "truncate"}
    BY <2>1 DEF InWindow, ListInv, StepInv
  <2>3. ASSUME NEW m \in Entries
        PROVE  m.name \in rows /\ \A i \in m.defs : <<m.name, i>> \in idx
    BY <2>1, <2>2 DEF KeptInv, KeptEntry
  <2>4. QED
    BY <2>1, <2>3 DEF KeptEntry
<1>5. ASSUME Running, Running', hurt' = hurt
      PROVE  /\ Stored = Entries /\ Stored' = Entries'
             /\ \A m \in Entries : KeptEntry(m)
  BY <1>5 DEF Stored, KeptInv
<1>6. CASE OpenSchema \/ CreateData \/ WriteCatalog
           \/ PurgeIndex \/ PurgeDone \/ RemoveSchema \/ RemoveData \/ RemoveFails
           \/ SaveIndex \/ DropIndexFile \/ RecreateData \/ ResaveIndex \/ ResaveDone
  <2>1. UNCHANGED <<tables, hurt>> /\ Running /\ Running'
    BY <1>6 DEF OpenSchema, CreateData, WriteCatalog, PurgeIndex, PurgeDone,
                RemoveSchema, RemoveData, RemoveFails, SaveIndex, DropIndexFile,
                RecreateData, ResaveIndex, ResaveDone, disk, Go, Done, Running
  <2>2. Entries' = Entries /\ Stored' = Entries /\ Known' = Known
    BY <1>5, <2>1, StoredSame
  <2>3. SUFFICES ASSUME NEW m \in Entries PROVE KeptEntry(m)'
    BY <2>2
  <2>4. KeptEntry(m) /\ m.name \in Known /\ m.name \in Table /\ Meta(m.name) = m
    BY <1>1, <1>5, <2>1
  <2>5. CASE OpenSchema \/ CreateData \/ WriteCatalog
    BY <1>1, <2>4, <2>5 DEF OpenSchema, CreateData, WriteCatalog, Go, Done,
            KeptEntry, ListInv, StepInv, WorkInv
  <2>6. CASE PurgeIndex \/ PurgeDone
    BY <2>4, <2>6 DEF PurgeIndex, PurgeDone, Go, disk, KeptEntry, ListInv, StepInv
  <2>7. CASE RemoveSchema
    BY <1>1, <2>4, <2>7 DEF RemoveSchema, Go, KeptEntry, ListInv, StepInv
  <2>8. CASE RemoveData
    BY <2>4, <2>8 DEF RemoveData, Go, KeptEntry, ListInv, StepInv
  <2>9. CASE RemoveFails
    <3>1. PICK k \in Entries : k.name = work.table
      <4>1. work.table \in Known
        BY <2>9 DEF RemoveFails, ListInv, StepInv, WorkInv
      <4>2. QED
        BY <4>1, EntryFacts
    <3>2. KeptEntry(k)
      BY <1>5, <2>1
    <3>3. FALSE
      BY <2>9, <3>1, <3>2, SchemaFiles DEF RemoveFails, KeptEntry
    <3>4. QED
      BY <3>3
  <2>10. CASE SaveIndex
    BY <2>4, <2>10 DEF SaveIndex, Go, KeptEntry, ListInv, StepInv
  <2>11. CASE DropIndexFile
    <3>1. m.name = work.table => work.index \notin m.defs
      BY <2>11 DEF DropIndexFile, ProgressInv, ListInv, StepInv
    <3>2. QED
      BY <2>4, <2>11, <3>1 DEF DropIndexFile, Done, KeptEntry, ListInv, StepInv
  <2>12. CASE RecreateData \/ ResaveIndex
    BY <2>4, <2>12 DEF RecreateData, ResaveIndex, Go, KeptEntry, ListInv, StepInv
  <2>13. CASE ResaveDone
    BY <2>4, <2>13 DEF ResaveDone, Done, disk, KeptEntry, ListInv, StepInv
  <2>14. QED
    BY <1>6, <2>5, <2>6, <2>7, <2>8, <2>9, <2>10, <2>11, <2>12, <2>13
<1>7. CASE WriteSchema
  <2>1. /\ pc = "schema_write" /\ work.table \in Table
        /\ UNCHANGED <<rows, idx, tables, hurt>> /\ Running /\ Running'
        /\ schema' = [schema EXCEPT ![work.table] = SchemaText(work.table)]
        /\ kind \in {"start", "create", "create_index", "drop_index"}
    BY <1>7, WriteSchemaIs
  <2>2. Stored' = Entries
    BY <1>5, <2>1, StoredSame
  <2>3. ASSUME NEW m \in Entries
        PROVE  /\ m.name \in rows' /\ schema'[m.name] = Whole(m.defs)
               /\ \A i \in m.defs : <<m.name, i>> \in idx'
    <3>1. /\ KeptEntry(m) /\ m.name \in rows
          /\ \A i \in m.defs : <<m.name, i>> \in idx
      BY <1>5, <2>1 DEF KeptEntry
    <3>2. CASE m.name = work.table
      <4>1. kind # "create"
        BY <1>1, <2>1, <3>2 DEF ListInv, WorkInv
      <4>2. SchemaText(work.table) = Whole(m.defs)
        BY <1>1, <3>2, <4>1 DEF SchemaText
      <4>3. QED
        BY <1>1, <2>1, <3>1, <3>2, <4>2
    <3>3. CASE m.name # work.table
      BY <1>1, <2>1, <3>1, <3>3 DEF KeptEntry
    <3>4. QED
      BY <3>2, <3>3
  <2>4. QED
    BY <2>2, <2>3 DEF KeptEntry
<1>8. ASSUME pc = "ready", Running', hurt' = hurt
      PROVE  /\ Stored' = Entries'
             /\ \A m \in Entries :
                 /\ m.name \in rows /\ schema[m.name] = Whole(m.defs)
                 /\ \A i \in m.defs : <<m.name, i>> \in idx
  <2>1. Running /\ kind = None
    BY <1>8 DEF Running, ListInv, StepInv
  <2>2. QED
    BY <1>5, <1>8, <2>1 DEF KeptEntry
<1>9. CASE \/ \E t \in Table : CreateTable(t) \/ DropTable(t) \/ Truncate(t)
           \/ \E t \in Table, i \in Index : CreateIndex(t, i)
  <2>1. /\ pc = "ready" /\ Running' /\ UNCHANGED <<tables, schema, idx, hurt>>
        /\ \/ rows' = rows
           \/ rows' = rows \ {work'.table} /\ pc' = "recreate"
    BY <1>9 DEF CreateTable, DropTable, Truncate, CreateIndex, Begin, disk, Running
  <2>2. Stored' = Entries
    BY <1>8, <2>1, StoredSame
  <2>3. QED
    BY <1>8, <2>1, <2>2 DEF KeptEntry
<1>10. CASE AddTable
  <2> PICK e : e = [name |-> work.table, defs |-> {}]
    OBVIOUS
  <2>1. /\ Entries' = Entries \cup {e} /\ e.name = work.table /\ e.defs = {}
        /\ kind = "create" /\ pc = "add" /\ pc' = "catalog_write"
        /\ work.table \notin Known
        /\ UNCHANGED <<schema, rows, idx, kind, work, hurt>>
    BY <1>10, AddTableIs
  <2>2. Stored' = Entries \cup {e} /\ \A m \in Entries : KeptEntry(m)
    BY <1>5, <2>1 DEF Running
  <2>3. work.table \in rows /\ schema[work.table] = Whole({})
    BY <2>1 DEF ProgressInv
  <2>4. KeptEntry(e)'
    BY <2>1, <2>3 DEF KeptEntry
  <2>5. ASSUME NEW m \in Entries PROVE KeptEntry(m)'
    BY <1>1, <2>1, <2>2 DEF KeptEntry
  <2>6. QED
    BY <2>2, <2>4, <2>5
<1>11. CASE RemoveTable
  <2>1. /\ Entries' = Entries \ {Meta(work.table)}
        /\ kind = "drop" /\ pc = "remove" /\ pc' = "catalog_write"
        /\ UNCHANGED <<schema, rows, idx, kind, work, hurt>>
    BY <1>11, RemoveTableIs
  <2>2. Stored' = Entries \ {Meta(work.table)} /\ \A m \in Entries : KeptEntry(m)
    BY <1>5, <2>1 DEF Running
  <2>3. \A m \in Entries : m # Meta(work.table) => m.name # work.table
    BY <1>1
  <2>4. QED
    BY <2>1, <2>2, <2>3 DEF KeptEntry
<1>12. CASE DefineIndex
  <2> PICK e : e = [name |-> work.table,
                    defs |-> Meta(work.table).defs \cup {work.index}]
    OBVIOUS
  <2>1. /\ Entries' = (Entries \ {Meta(work.table)}) \cup {e}
        /\ e.name = work.table /\ e.defs = Meta(work.table).defs \cup {work.index}
        /\ kind = "create_index" /\ work.table \in Known
        /\ pc = "define" /\ pc' = "schema_write"
        /\ schema' = [schema EXCEPT ![work.table] = Torn]
        /\ UNCHANGED <<rows, idx, kind, work, hurt>>
    BY <1>12, DefineIndexIs
  <2>2. /\ Stored' = (Entries \ {Meta(work.table)}) \cup {e}
        /\ \A m \in Entries : KeptEntry(m)
    BY <1>5, <2>1 DEF Running
  <2>3. Meta(work.table) \in Entries /\ Meta(work.table).name = work.table
    BY <2>1, EntryFacts
  <2>4. KeptEntry(e)'
    BY <2>1, <2>2, <2>3 DEF KeptEntry, ProgressInv
  <2>5. ASSUME NEW m \in Entries, m # Meta(work.table) PROVE KeptEntry(m)'
    BY <1>1, <2>1, <2>2, <2>5 DEF KeptEntry
  <2>6. QED
    BY <2>2, <2>4, <2>5
<1>13. CASE \E t \in Table, i \in Index : DropIndex(t, i)
  <2>1. PICK t \in Table, i \in Index : DropIndex(t, i)
    BY <1>13
  <2> PICK e : e = [name |-> t, defs |-> Meta(t).defs \ {i}]
    OBVIOUS
  <2>2. /\ Entries' = (Entries \ {Meta(t)}) \cup {e}
        /\ e.name = t /\ e.defs \subseteq Meta(t).defs
        /\ t \in Known /\ work'.table = t
        /\ pc = "ready" /\ pc' = "schema_write" /\ Running'
        /\ schema' = [schema EXCEPT ![t] = Torn]
        /\ UNCHANGED <<rows, idx, hurt>>
    BY <2>1, DropIndexIs DEF Running
  <2>3. Meta(t) \in Entries /\ Meta(t).name = t
    BY <2>2, EntryFacts
  <2>4. KeptEntry(e)'
    BY <1>8, <2>2, <2>3 DEF KeptEntry
  <2>5. ASSUME NEW m \in Entries, m # Meta(t) PROVE KeptEntry(m)'
    BY <1>1, <1>8, <2>2, <2>5 DEF KeptEntry
  <2>6. QED
    BY <1>8, <2>2, <2>4, <2>5
<1>14. CASE UNCHANGED vars
  <2>1. Entries' = Entries /\ Loaded' = Loaded
    BY <1>14, StoredSame DEF vars, Loaded
  <2>2. Stored' = Stored
    BY <1>14, <2>1 DEF vars, Stored, Running
  <2>3. QED
    BY <1>14, <2>2 DEF vars, KeptInv, KeptEntry
<1>15. CASE CreateDataFatal \/ Quit \/ Crash
            \/ \E t \in Table, i \in Index : CreateIndexDies(t, i)
  BY <1>4, <1>15 DEF CreateDataFatal, Quit, Crash, CreateIndexDies, Running
<1>16. QED
  BY <1>2, <1>3, <1>6, <1>7, <1>9, <1>10, <1>11, <1>12, <1>13, <1>14, <1>15
     DEF Next


LEMMA PureNext ==
    ASSUME ListInv, ProgressInv, KeptInv, PureInv, [Next]_vars, hurt' = "no"
    PROVE  NoOtherFile'
<1> USE DEF None
<1>1. /\ schema \in [Table -> SchemaFile]
      /\ \A m \in Entries : m.name \in Known /\ m.name \in Table /\ Meta(m.name) = m
      /\ \A t \in Known : Meta(t) \in Entries /\ Meta(t).name = t
  BY EntryFacts DEF ListInv, ShapeInv
<1>2. CASE Start
  <2>1. /\ Stored' = Stored /\ UNCHANGED <<schema, rows, idx, hurt>> /\ kind = None
    BY <1>2, StartIs DEF ListInv, StepInv
  <2>2. QED
    BY <2>1 DEF PureInv, NoOtherFile
<1>3. CASE StartRefused \/ StartAgain
  <2>1. /\ UNCHANGED <<catalog, schema, rows, idx, hurt, work, kind>>
        /\ pc \in {"down", "refused"} /\ pc' \in {"down", "refused"}
    BY <1>3 DEF StartRefused, StartAgain, disk
  <2>2. Stored' = Stored
    <3>1. ~Running /\ ~Running' /\ Loaded' = Loaded
      BY <2>1 DEF Running, Loaded
    <3>2. QED
      BY <2>1, <3>1 DEF Stored
  <2>3. QED
    BY <2>1, <2>2 DEF PureInv, NoOtherFile
<1>4. CASE Running /\ Gone
  <2>1. /\ UNCHANGED <<schema, rows, idx>>
        /\ hurt = "no" /\ kind = None
        /\ Stored' = Stored
    BY <1>4, GoneIs DEF disk
  <2>2. QED
    BY <2>1 DEF PureInv, NoOtherFile
<1>5. ASSUME Running, Running', hurt' = hurt
      PROVE  Stored = Entries /\ Stored' = Entries' /\ NoOtherFile
  BY <1>5 DEF Stored, PureInv
<1>6. CASE OpenSchema \/ CreateData \/ WriteCatalog
           \/ PurgeIndex \/ PurgeDone \/ RemoveSchema \/ RemoveData \/ RemoveFails
           \/ SaveIndex \/ DropIndexFile \/ RecreateData \/ ResaveIndex \/ ResaveDone
  <2>1. UNCHANGED <<tables, hurt>> /\ Running /\ Running'
    BY <1>6 DEF OpenSchema, CreateData, WriteCatalog, PurgeIndex, PurgeDone,
                RemoveSchema, RemoveData, RemoveFails, SaveIndex, DropIndexFile,
                RecreateData, ResaveIndex, ResaveDone, disk, Go, Done, Running
  <2>2. Stored = Entries /\ Stored' = Entries /\ NoOtherFile
    BY <1>5, <2>1, StoredSame
  <2>3. /\ kind \in {"start", "drop", "create_index", "drop_index", "truncate"}
              /\ pc # "catalog_write" => work.table \in Known
        /\ kind = "create" /\ pc = "catalog_write" => work.table \in Known
    <3>1. kind = "start" => work.table \in Known
      <4>1. ASSUME kind = "start" PROVE work.table \in Known
        <5>1. queue \in Seq(Table) /\ queue # <<>> /\ work.table = Head(queue)
              /\ \A p \in 1..Len(queue) : queue[p] \in Known
          BY <4>1 DEF ListInv, WorkInv, ShapeInv
        <5>2. 1 \in 1..Len(queue) /\ Head(queue) = queue[1]
          BY <5>1, LenProperties, EmptySeq
        <5>3. QED
          BY <5>1, <5>2
      <4>2. QED
        BY <4>1
    <3>2. QED
      BY <3>1 DEF ListInv, WorkInv
  <2>4. ASSUME NEW t \in Table
        PROVE  \/ \E m \in Entries : m.name = t
               \/ t \notin rows' /\ schema'[t] = Missing
               \/ kind' = "create" /\ t = work'.table
    <3>1. \/ \E m \in Entries : m.name = t
          \/ t \notin rows /\ schema[t] = Missing
          \/ kind = "create" /\ t = work.table
      BY <2>2 DEF NoOtherFile
    <3>2. t \in Known => \E m \in Entries : m.name = t
      BY <1>1
    <3>3. CASE OpenSchema \/ CreateData \/ WriteCatalog
      BY <1>1, <2>3, <3>1, <3>2, <3>3 DEF OpenSchema, CreateData, WriteCatalog,
              Go, Done, ListInv, StepInv
    <3>4. CASE RemoveSchema \/ RemoveData \/ RemoveFails
      BY <1>1, <3>1, <3>4 DEF RemoveSchema, RemoveData, RemoveFails, Go, Done,
              disk, ListInv, StepInv
    <3>5. CASE PurgeIndex \/ PurgeDone \/ SaveIndex \/ DropIndexFile
               \/ ResaveIndex \/ ResaveDone
      BY <3>1, <3>5 DEF PurgeIndex, PurgeDone, SaveIndex, DropIndexFile,
              ResaveIndex, ResaveDone, Go, Done, disk, ListInv, StepInv
    <3>6. CASE RecreateData
      BY <2>3, <3>1, <3>2, <3>6 DEF RecreateData, Go, ListInv, StepInv
    <3>7. QED
      BY <1>6, <3>3, <3>4, <3>5, <3>6
  <2>5. ASSUME NEW t \in Table, NEW i \in Index, <<t, i>> \in idx'
        PROVE  \/ \E m \in Entries : m.name = t /\ i \in m.defs
               \/ /\ kind' \in {"create_index", "drop_index"}
                  /\ t = work'.table /\ i = work'.index
    <3>1. <<t, i>> \in idx =>
              \/ \E m \in Entries : m.name = t /\ i \in m.defs
              \/ /\ kind \in {"create_index", "drop_index"}
                 /\ t = work.table /\ i = work.index
      BY <2>2 DEF NoOtherFile
    <3>2. CASE OpenSchema \/ CreateData \/ WriteCatalog \/ PurgeIndex \/ PurgeDone
               \/ RemoveSchema \/ RemoveData \/ RemoveFails \/ RecreateData
               \/ ResaveDone
      BY <2>5, <3>1, <3>2 DEF OpenSchema, CreateData, WriteCatalog, PurgeIndex,
              PurgeDone, RemoveSchema, RemoveData, RemoveFails, RecreateData,
              ResaveDone, Go, Done, disk, ListInv, StepInv
    <3>3. CASE SaveIndex
      BY <2>5, <3>1, <3>3 DEF SaveIndex, Go, ListInv, StepInv
    <3>4. CASE DropIndexFile
      BY <2>5, <3>1, <3>4 DEF DropIndexFile, Done, ListInv, StepInv
    <3>5. CASE ResaveIndex
      <4>1. kind = "truncate" /\ Meta(work.table) \in Entries
            /\ Meta(work.table).name = work.table
        BY <1>1, <2>3, <3>5 DEF ResaveIndex, ListInv, StepInv
      <4>2. QED
        BY <2>5, <3>1, <3>5, <4>1 DEF ResaveIndex
    <3>6. QED
      BY <1>6, <3>2, <3>3, <3>4, <3>5
  <2>6. QED
    BY <2>2, <2>4, <2>5 DEF NoOtherFile

<1>7. CASE WriteSchema
  <2>1. /\ pc = "schema_write" /\ work.table \in Table
        /\ UNCHANGED <<rows, idx, tables, hurt>> /\ Running /\ Running'
        /\ schema' = [schema EXCEPT ![work.table] = SchemaText(work.table)]
        /\ \/ kind = "start" /\ kind' \in {"start", None}
           \/ kind = "create" /\ UNCHANGED <<kind, work>>
           \/ kind = "create_index" /\ kind' = None
           \/ kind = "drop_index" /\ UNCHANGED <<kind, work>>
    BY <1>7, WriteSchemaIs
  <2>2. Stored = Entries /\ Stored' = Entries /\ NoOtherFile
    BY <1>5, <2>1, StoredSame
  <2>3. kind # "create" => work.table \in Known
    <3>1. CASE kind = "start"
      <4>1. queue \in Seq(Table) /\ queue # <<>> /\ work.table = Head(queue)
            /\ \A p \in 1..Len(queue) : queue[p] \in Known
        BY <3>1 DEF ListInv, WorkInv, ShapeInv
      <4>2. 1 \in 1..Len(queue) /\ Head(queue) = queue[1]
        BY <4>1, LenProperties, EmptySeq
      <4>3. QED
        BY <4>1, <4>2
    <3>2. CASE kind # "start"
      BY <2>1, <3>2 DEF ListInv, WorkInv
    <3>3. QED
      BY <3>1, <3>2
  <2>4. ASSUME NEW t \in Table
        PROVE  \/ \E m \in Entries : m.name = t
               \/ t \notin rows' /\ schema'[t] = Missing
               \/ kind' = "create" /\ t = work'.table
    BY <1>1, <2>1, <2>2, <2>3 DEF NoOtherFile
  <2>5. ASSUME NEW t \in Table, NEW i \in Index, <<t, i>> \in idx'
        PROVE  \/ \E m \in Entries : m.name = t /\ i \in m.defs
               \/ /\ kind' \in {"create_index", "drop_index"}
                  /\ t = work'.table /\ i = work'.index
    BY <2>1, <2>2, <2>5 DEF NoOtherFile, ProgressInv
  <2>6. QED
    BY <2>2, <2>4, <2>5 DEF NoOtherFile
<1>8. CASE \/ \E t \in Table : CreateTable(t) \/ DropTable(t) \/ Truncate(t)
           \/ \E t \in Table, i \in Index : CreateIndex(t, i)
  <2>1. /\ Running /\ Running' /\ kind = None
        /\ UNCHANGED <<tables, schema, idx, hurt>> /\ rows' \subseteq rows
    BY <1>8 DEF CreateTable, DropTable, Truncate, CreateIndex, Begin, disk,
                Running, ListInv, StepInv
  <2>2. Stored = Entries /\ Stored' = Entries /\ NoOtherFile
    BY <1>5, <2>1, StoredSame
  <2>3. QED
    BY <2>1, <2>2 DEF NoOtherFile
<1>9. CASE AddTable
  <2> PICK e : e = [name |-> work.table, defs |-> {}]
    OBVIOUS
  <2>1. /\ Entries' = Entries \cup {e}
        /\ kind = "create" /\ pc = "add" /\ pc' = "catalog_write"
        /\ UNCHANGED <<schema, rows, idx, kind, work, hurt>>
    BY <1>9, AddTableIs
  <2>2. Stored = Entries /\ Stored' = Entries \cup {e} /\ NoOtherFile
    BY <1>5, <2>1 DEF Running
  <2>3. QED
    BY <2>1, <2>2 DEF NoOtherFile
<1>10. CASE RemoveTable
  <2>1. /\ Entries' = Entries \ {Meta(work.table)}
        /\ kind = "drop" /\ pc = "remove" /\ pc' = "catalog_write"
        /\ work.table \in Known
        /\ UNCHANGED <<schema, rows, idx, kind, work, hurt>>
    BY <1>10, RemoveTableIs
  <2>2. Stored = Entries /\ Stored' = Entries \ {Meta(work.table)} /\ NoOtherFile
    BY <1>5, <2>1 DEF Running
  <2>3. \A m \in Entries : m # Meta(work.table) <=> m.name # work.table
    BY <1>1, <2>1
  <2>4. /\ work.table \notin rows /\ schema[work.table] = Missing
        /\ \A i \in Meta(work.table).defs : <<work.table, i>> \notin idx
    BY <2>1 DEF ProgressInv, Purged
  <2>5. ASSUME NEW t \in Table
        PROVE  \/ \E m \in Stored' : m.name = t
               \/ t \notin rows' /\ schema'[t] = Missing
    BY <2>1, <2>2, <2>3, <2>4 DEF NoOtherFile
  <2>6. ASSUME NEW t \in Table, NEW i \in Index, <<t, i>> \in idx'
        PROVE  \E m \in Stored' : m.name = t /\ i \in m.defs
    <3>1. PICK m \in Entries : m.name = t /\ i \in m.defs
      BY <2>1, <2>2, <2>6 DEF NoOtherFile
    <3>2. t # work.table
      BY <1>1, <2>1, <2>4, <2>6, <3>1
    <3>3. QED
      BY <2>2, <2>3, <3>1, <3>2
  <2>7. QED
    BY <2>5, <2>6 DEF NoOtherFile
<1>11. CASE DefineIndex
  <2> PICK e : e = [name |-> work.table,
                    defs |-> Meta(work.table).defs \cup {work.index}]
    OBVIOUS
  <2>1. /\ Entries' = (Entries \ {Meta(work.table)}) \cup {e}
        /\ e.name = work.table /\ Meta(work.table).defs \subseteq e.defs
        /\ kind = "create_index" /\ work.table \in Known
        /\ pc = "define" /\ pc' = "schema_write"
        /\ schema' = [schema EXCEPT ![work.table] = Torn]
        /\ UNCHANGED <<rows, idx, kind, work, hurt>>
    BY <1>11, DefineIndexIs
  <2>2. /\ Stored = Entries /\ Stored' = (Entries \ {Meta(work.table)}) \cup {e}
        /\ NoOtherFile
    BY <1>5, <2>1 DEF Running
  <2>3. ASSUME NEW m \in Entries
        PROVE  \E k \in Stored' : k.name = m.name /\ m.defs \subseteq k.defs
    BY <1>1, <2>1, <2>2
  <2>4. ASSUME NEW t \in Table
        PROVE  \/ \E m \in Stored' : m.name = t
               \/ t \notin rows' /\ schema'[t] = Missing
    <3>1. CASE t = work.table
      BY <2>1, <2>2, <3>1
    <3>2. CASE t # work.table
      BY <1>1, <2>1, <2>2, <2>3, <3>2 DEF NoOtherFile
    <3>3. QED
      BY <3>1, <3>2
  <2>5. ASSUME NEW t \in Table, NEW i \in Index, <<t, i>> \in idx'
        PROVE  \/ \E m \in Stored' : m.name = t /\ i \in m.defs
               \/ t = work'.table /\ i = work'.index
    BY <2>1, <2>2, <2>3, <2>5 DEF NoOtherFile
  <2>6. QED
    BY <2>1, <2>4, <2>5 DEF NoOtherFile
<1>12. CASE \E t \in Table, i \in Index : DropIndex(t, i)
  <2>1. PICK u \in Table, x \in Index : DropIndex(u, x)
    BY <1>12
  <2> PICK e : e = [name |-> u, defs |-> Meta(u).defs \ {x}]
    OBVIOUS
  <2>2. /\ Entries' = (Entries \ {Meta(u)}) \cup {e}
        /\ e.name = u /\ e.defs = Meta(u).defs \ {x}
        /\ u \in Known /\ work'.table = u /\ work'.index = x
        /\ pc = "ready" /\ kind = None
        /\ pc' = "schema_write" /\ kind' = "drop_index"
        /\ schema' = [schema EXCEPT ![u] = Torn]
        /\ UNCHANGED <<rows, idx, hurt>>
    BY <2>1, DropIndexIs
  <2>3. /\ Stored = Entries /\ Stored' = (Entries \ {Meta(u)}) \cup {e}
        /\ NoOtherFile
    BY <1>5, <2>2 DEF Running
  <2>4. ASSUME NEW m \in Entries
        PROVE  \E k \in Stored' : k.name = m.name /\ m.defs \ {x} \subseteq k.defs
    BY <1>1, <2>2, <2>3
  <2>5. \A m \in Entries : m.name # u => m \in Stored'
    BY <1>1, <2>2, <2>3
  <2>6. ASSUME NEW t \in Table
        PROVE  \/ \E m \in Stored' : m.name = t
               \/ t \notin rows' /\ schema'[t] = Missing
    <3>1. CASE t = u
      BY <2>2, <2>3, <3>1
    <3>2. CASE t # u
      BY <1>1, <2>2, <2>3, <2>5, <3>2 DEF NoOtherFile
    <3>3. QED
      BY <3>1, <3>2
  <2>7. ASSUME NEW t \in Table, NEW i \in Index, <<t, i>> \in idx'
        PROVE  \/ \E m \in Stored' : m.name = t /\ i \in m.defs
               \/ t = work'.table /\ i = work'.index
    <3>1. PICK m \in Entries : m.name = t /\ i \in m.defs
      BY <2>2, <2>3, <2>7 DEF NoOtherFile
    <3>2. CASE t = u /\ i = x
      BY <2>2, <3>2
    <3>3. CASE t = u /\ i # x
      <4>1. m = Meta(u)
        BY <1>1, <3>1, <3>3
      <4>2. i \in e.defs
        BY <2>2, <3>1, <3>3, <4>1
      <4>3. QED
        BY <2>2, <2>3, <3>3, <4>2
    <3>4. CASE t # u
      BY <2>5, <3>1, <3>4
    <3>5. QED
      BY <3>2, <3>3, <3>4
  <2>8. QED
    BY <2>2, <2>6, <2>7 DEF NoOtherFile
<1>13. CASE UNCHANGED vars
  <2>1. Entries' = Entries /\ Loaded' = Loaded
    BY <1>13, StoredSame DEF vars, Loaded
  <2>2. Stored' = Stored
    BY <1>13, <2>1 DEF vars, Stored, Running
  <2>3. QED
    BY <1>13, <2>2 DEF vars, PureInv, NoOtherFile
<1>14. CASE CreateDataFatal \/ Quit \/ Crash
            \/ \E t \in Table, i \in Index : CreateIndexDies(t, i)
  BY <1>4, <1>14 DEF CreateDataFatal, Quit, Crash, CreateIndexDies, Running
<1>15. QED
  BY <1>2, <1>3, <1>6, <1>7, <1>8, <1>9, <1>10, <1>11, <1>12, <1>13, <1>14
     DEF Next

(***************************************************************************)
(* The theorems.                                                           *)
(***************************************************************************)
LEMMA CatalogInit == Init => CatalogInv
<1> SUFFICES ASSUME Init PROVE CatalogInv
  OBVIOUS
<1>1. Len(tables) = 0 /\ Len(catalog) = 0 /\ Len(queue) = 0
  BY DEF Init
<1>2. Entries = {} /\ Stored = {}
  BY <1>1 DEF Entries, Stored
<1>3. ShapeInv
  BY SchemaFiles, EmptySeq DEF Init, ShapeInv
<1>4. StepInv /\ WorkInv /\ NamesInv
  BY <1>1 DEF Init, StepInv, WorkInv, NamesInv, Running, None
<1>5. ProgressInv /\ OpenInv /\ KeptInv
  BY <1>2 DEF Init, ProgressInv, OpenInv, KeptInv, None
<1>6. PureInv
  BY DEF Init, PureInv, NoOtherFile
<1>7. QED
  BY <1>3, <1>4, <1>5, <1>6 DEF CatalogInv, ListInv

LEMMA CatalogNext ==
    ASSUME Long = {}, DropLast = FALSE, CatalogInv, [Next]_vars
    PROVE  CatalogInv'
<1>1. ListInv'
  BY ListNext DEF CatalogInv
<1>2. ProgressInv' /\ OpenInv'
  BY ProgressNext, OpenNext DEF CatalogInv
<1>3. KeptInv'
  BY KeptNext DEF CatalogInv, KeptInv
<1>4. PureInv'
  BY PureNext DEF CatalogInv, PureInv
<1>5. QED
  BY <1>1, <1>2, <1>3, <1>4 DEF CatalogInv

\* The invariant, for databases whose names are shorter than the 31 characters
\* that database_save cuts, and that keep a table.
THEOREM CatalogInductive ==
    ASSUME Long = {}, DropLast = FALSE
    PROVE  Spec => []CatalogInv
<1>1. Init => CatalogInv
  BY CatalogInit
<1>2. CatalogInv /\ [Next]_vars => CatalogInv'
  BY CatalogNext
<1>3. QED
  BY <1>1, <1>2, PTL DEF Spec

\* A process that has come up works on the catalog of its tables and on the
\* schema files they have in memory, whatever died before it and wherever.
THEOREM OpenAlwaysAgrees ==
    ASSUME Long = {}, DropLast = FALSE
    PROVE  Spec => []OpenAgrees
<1>1. CatalogInv => OpenAgrees
  <2> SUFFICES ASSUME CatalogInv, pc = "ready" PROVE OpenAgrees
    BY DEF OpenAgrees
  <2>1. catalog = Names
    BY DEF CatalogInv, ListInv, NamesInv, Running
  <2>2. \A t \in Known \cap rows : schema[t] = Whole(Meta(t).defs)
    BY EntryFacts DEF CatalogInv, OpenInv
  <2>3. QED
    BY <2>1, <2>2 DEF OpenAgrees
<1>2. QED
  BY <1>1, CatalogInductive, PTL

\* Between statements the files are the tables in memory, each with its data,
\* its schema and its indexes, and nothing else unless a process died inside a
\* statement.
THEOREM FilesAlwaysAgree ==
    ASSUME Long = {}, DropLast = FALSE
    PROVE  Spec => []FilesAgree
<1>1. CatalogInv => FilesAgree
  <2> SUFFICES ASSUME CatalogInv, pc = "ready", hurt # "window" PROVE FilesAgree
    BY DEF FilesAgree
  <2> DEFINE indexes == {f \in Known \X Index : f[2] \in Meta(f[1]).defs}
  <2>1. catalog = Names /\ Stored = Entries /\ kind = None
    BY DEF CatalogInv, ListInv, NamesInv, StepInv, Running, Stored
  <2>2. ASSUME NEW t \in Known
        PROVE  /\ t \in rows /\ schema[t] = Whole(Meta(t).defs)
               /\ \A i \in Meta(t).defs : <<t, i>> \in idx
    <3>1. Meta(t) \in Entries /\ Meta(t).name = t
      BY EntryFacts DEF CatalogInv
    <3>2. QED
      BY <2>1, <3>1 DEF CatalogInv, KeptInv, KeptEntry, None
  <2>3. indexes \subseteq idx
    BY <2>2
  <2>4. ASSUME hurt = "no"
        PROVE  /\ rows = Known
               /\ \A t \in Table \ Known : schema[t] = Missing
               /\ idx = indexes
    <3>1. NoOtherFile /\ rows \subseteq Table /\ idx \subseteq Table \X Index
      BY <2>4 DEF CatalogInv, PureInv, ListInv, ShapeInv
    <3>2. \A m \in Entries : m.name \in Known /\ Meta(m.name) = m
      BY EntryFacts DEF CatalogInv
    <3>3. \A t \in Table \ Known : t \notin rows /\ schema[t] = Missing
      BY <2>1, <3>1, <3>2 DEF NoOtherFile, None
    <3>4. \A t \in Table, i \in Index :
              <<t, i>> \in idx => t \in Known /\ i \in Meta(t).defs
      BY <2>1, <3>1, <3>2 DEF NoOtherFile, None
    <3>5. idx \subseteq indexes
      BY <3>1, <3>4
    <3>6. QED
      BY <2>2, <2>3, <3>1, <3>3, <3>5
  <2>5. QED
    BY <2>1, <2>2, <2>3, <2>4 DEF FilesAgree
<1>2. QED
  BY <1>1, CatalogInductive, PTL


\* Files that no window has hurt load.
LEMMA KeptLoads ==
    ASSUME Odd = {}, CatalogInv, ~Running, hurt # "window"
    PROVE  Loads
<1>1. kind = None /\ pc \in {"down", "refused"} /\ catalog \in Seq(Table)
      /\ schema \in [Table -> SchemaFile]
  BY DEF CatalogInv, ListInv, ShapeInv, StepInv, Running
<1>2. ASSUME NEW p \in 1..Len(catalog)
      PROVE  catalog[p] \in Table \ Odd /\ schema[catalog[p]].state = "whole"
  <2>1. catalog[p] \in Table
    BY <1>1, ElementOfSeq
  <2>2. Loaded[p] = [name |-> catalog[p], defs |-> schema[catalog[p]].defs]
    BY DEF Loaded
  <2>3. KeptEntry(Loaded[p])
    BY DEF CatalogInv, KeptInv, Stored
  <2>4. schema[catalog[p]] = Whole(schema[catalog[p]].defs)
    BY <1>1, <2>2, <2>3 DEF KeptEntry
  <2>5. QED
    BY <2>1, <2>4, SchemaFiles
<1>3. QED
  BY <1>2 DEF Loads

\* A start succeeds unless a process died in a window, when load takes every
\* column that CREATE TABLE takes.
THEOREM StartsAlwaysOpen ==
    ASSUME Long = {}, DropLast = FALSE, Odd = {}
    PROVE  Spec => []AlwaysOpens
<1>1. Init => AlwaysOpens
  BY DEF Init, AlwaysOpens
<1>2. CatalogInv /\ AlwaysOpens /\ [Next]_vars => AlwaysOpens'
  <2> SUFFICES ASSUME CatalogInv, AlwaysOpens, [Next]_vars,
                      hurt' # "window", pc' = "refused"
               PROVE  FALSE
    BY DEF AlwaysOpens
  <2>1. CASE StartRefused
    BY <2>1, KeptLoads DEF StartRefused, Running
  <2>2. CASE Start
    BY <2>2, StartIs DEF CatalogInv
  <2>3. CASE WriteSchema
    BY <2>3, WriteSchemaIs DEF CatalogInv
  <2>4. CASE UNCHANGED vars
    BY <2>4 DEF vars, AlwaysOpens
  <2>5. CASE PurgeIndex \/ ResaveIndex
    BY <2>5 DEF PurgeIndex, ResaveIndex
  <2>6. CASE Gone
    BY <2>6 DEF Gone
  <2>7. CASE \/ StartAgain \/ OpenSchema \/ CreateData \/ AddTable \/ WriteCatalog
             \/ PurgeDone \/ RemoveSchema \/ RemoveData \/ RemoveFails
             \/ RemoveTable \/ SaveIndex \/ DefineIndex \/ DropIndexFile
             \/ RecreateData \/ ResaveDone
    BY <2>7 DEF StartAgain, OpenSchema, CreateData, AddTable, WriteCatalog,
            PurgeDone, RemoveSchema, RemoveData, RemoveFails, RemoveTable,
            SaveIndex, DefineIndex, DropIndexFile, RecreateData, ResaveDone, Go, Done
  <2>8. CASE \/ \E t \in Table : CreateTable(t) \/ DropTable(t) \/ Truncate(t)
             \/ \E t \in Table, i \in Index : CreateIndex(t, i) \/ DropIndex(t, i)
    BY <2>8 DEF CreateTable, DropTable, Truncate, CreateIndex, DropIndex, Begin
  <2>9. QED
    BY <2>1, <2>2, <2>3, <2>4, <2>5, <2>6, <2>7, <2>8
       DEF Next, CreateDataFatal, CreateIndexDies, Quit, Crash
<1>3. QED
  BY <1>1, <1>2, CatalogInductive, PTL DEF Spec

(***************************************************************************)
(* The catalog implements Registry.                                        *)
(***************************************************************************)
LEMMA RegisteredIs ==
    /\ Running => Registered = Entries
    /\ ~Running /\ Loads => Registered = Stored
    /\ Running' => Registered' = Entries'
    /\ ~Running' /\ Loads' => Registered' = Stored'
  BY DEF Registered, Entries, Stored

LEMMA KeptLoadsNext ==
    ASSUME Odd = {}
    PROVE  (CatalogInv /\ ~Running /\ hurt # "window" => Loads)'
<1>1. CatalogInv /\ ~Running /\ hurt # "window" => Loads
  BY KeptLoads
<1>2. QED
  BY <1>1, PTL

LEMMA RegistryStep ==
    ASSUME Odd = {}, CatalogInv, CatalogInv', [Next]_vars, hurt' # "window"
    PROVE  Promise!Next \/ UNCHANGED <<Registered, Running>>
<1> USE DEF None
<1>1. ListInv /\ \A m \in Entries : m.name \in Known /\ m.name \in Table
                                    /\ Meta(m.name) = m
  BY EntryFacts DEF CatalogInv
<1>2. CASE Start
  <2>1. Loads
    BY <1>2 DEF Start
  <2>2. ~Running /\ Running' /\ Registered' = Registered
    BY <1>1, <1>2, <2>1, StartIs, RegisteredIs
  <2>3. QED
    BY <2>2 DEF Promise!Next
<1>3. CASE StartRefused \/ StartAgain
  <2>1. UNCHANGED <<catalog, schema>> /\ ~Running /\ ~Running'
    BY <1>3 DEF StartRefused, StartAgain, disk, Running
  <2>2. Loads' = Loads /\ Loaded' = Loaded
    BY <2>1 DEF Loads, Loaded
  <2>3. Registered' = Registered
    BY <2>1, <2>2 DEF Registered
  <2>4. QED
    BY <2>1, <2>3 DEF Running
<1>4. CASE Running /\ Gone
  <2>1. KeptInv
    BY DEF CatalogInv
  <2>2. ~Running' /\ Stored' = Entries
    BY <1>1, <1>4, <2>1, GoneIs
  <2>3. Loads'
    BY <2>2, KeptLoadsNext
  <2>4. Registered' = Registered
    BY <1>4, <2>2, <2>3, RegisteredIs
  <2>5. QED
    BY <1>4, <2>2, <2>4 DEF Promise!Next, Running
<1>5. CASE Running /\ Running' /\ UNCHANGED tables
  BY <1>5, StoredSame, RegisteredIs
<1>6. CASE WriteSchema
  BY <1>1, <1>5, <1>6, WriteSchemaIs
<1>7. CASE OpenSchema \/ CreateData \/ WriteCatalog
           \/ PurgeIndex \/ PurgeDone \/ RemoveSchema \/ RemoveData \/ RemoveFails
           \/ SaveIndex \/ DropIndexFile \/ RecreateData \/ ResaveIndex \/ ResaveDone
  <2>1. UNCHANGED tables /\ Running /\ Running'
    BY <1>7 DEF OpenSchema, CreateData, WriteCatalog, PurgeIndex, PurgeDone,
                RemoveSchema, RemoveData, RemoveFails, SaveIndex, DropIndexFile,
                RecreateData, ResaveIndex, ResaveDone, disk, Go, Done, Running
  <2>2. QED
    BY <1>5, <2>1
<1>8. CASE \/ \E t \in Table : CreateTable(t) \/ DropTable(t) \/ Truncate(t)
           \/ \E t \in Table, i \in Index : CreateIndex(t, i)
  <2>1. UNCHANGED tables /\ Running /\ Running'
    BY <1>8 DEF CreateTable, DropTable, Truncate, CreateIndex, Begin, disk, Running
  <2>2. QED
    BY <1>5, <2>1
<1>9. CASE AddTable
  <2>1. /\ Entries' = Entries \cup {[name |-> work.table, defs |-> {}]}
        /\ work.table \in Table \ Known
        /\ pc = "add" /\ pc' = "catalog_write"
    BY <1>1, <1>9, AddTableIs
  <2>2. Running /\ Running' /\ Registered = Entries /\ Registered' = Entries'
    BY <2>1, RegisteredIs DEF Running
  <2>3. Promise!Create(work.table)
    BY <1>1, <2>1, <2>2 DEF Promise!Create, Promise!Named
  <2>4. QED
    BY <2>1, <2>2, <2>3 DEF Promise!Next, Promise!Change
<1>10. CASE RemoveTable
  <2>1. /\ Entries' = Entries \ {Meta(work.table)}
        /\ work.table \in Known
        /\ pc = "remove" /\ pc' = "catalog_write"
    BY <1>1, <1>10, RemoveTableIs
  <2>2. Running /\ Running' /\ Registered = Entries /\ Registered' = Entries'
    BY <2>1, RegisteredIs DEF Running
  <2>3. Meta(work.table) \in Entries /\ Meta(work.table).name = work.table
        /\ work.table \in Table
    BY <1>1, <2>1, EntryFacts
  <2>4. Promise!Named(work.table) = {Meta(work.table)}
    BY <1>1, <2>2, <2>3 DEF Promise!Named
  <2>5. Promise!Drop(work.table)
    BY <2>1, <2>2, <2>4 DEF Promise!Drop
  <2>6. QED
    BY <2>2, <2>3, <2>5 DEF Promise!Next, Promise!Change
<1>11. CASE DefineIndex
  <2>1. /\ Entries' = (Entries \ {Meta(work.table)}) \cup
              {[name |-> work.table, defs |-> Meta(work.table).defs \cup {work.index}]}
        /\ work.table \in Known /\ work.index \in Index
        /\ pc = "define" /\ pc' = "schema_write"
    BY <1>1, <1>11, DefineIndexIs
  <2>2. Running /\ Running' /\ Registered = Entries /\ Registered' = Entries'
    BY <2>1, RegisteredIs DEF Running
  <2>3. Meta(work.table) \in Entries /\ Meta(work.table).name = work.table
        /\ work.table \in Table /\ Meta(work.table) \in Entry
    BY <1>1, <2>1, EntryFacts
  <2>4. Promise!Named(work.table) = {Meta(work.table)}
    BY <1>1, <2>2, <2>3 DEF Promise!Named
  <2>5. CASE work.index \in Meta(work.table).defs
    <3>1. [name |-> work.table, defs |-> Meta(work.table).defs \cup {work.index}]
              = Meta(work.table)
      BY <2>3, <2>5 DEF Entry
    <3>2. Entries' = Entries
      BY <2>1, <2>3, <3>1
    <3>3. QED
      BY <2>2, <3>2
  <2>6. CASE work.index \notin Meta(work.table).defs
    <3>1. Promise!AddIndex(work.table, work.index)
      BY <2>1, <2>2, <2>4, <2>6 DEF Promise!AddIndex, Promise!Redefine
    <3>2. QED
      BY <2>1, <2>2, <2>3, <3>1 DEF Promise!Next, Promise!Change
  <2>7. QED
    BY <2>5, <2>6
<1>12. CASE \E t \in Table, i \in Index : DropIndex(t, i)
  <2>1. PICK t \in Table, i \in Index : DropIndex(t, i)
    BY <1>12
  <2>2. /\ Entries' = (Entries \ {Meta(t)}) \cup
              {[name |-> t, defs |-> Meta(t).defs \ {i}]}
        /\ t \in Known /\ pc = "ready" /\ pc' = "schema_write"
    BY <1>1, <2>1, DropIndexIs
  <2>3. Running /\ Running' /\ Registered = Entries /\ Registered' = Entries'
    BY <2>2, RegisteredIs DEF Running
  <2>4. Meta(t) \in Entries /\ Meta(t).name = t /\ i \in Meta(t).defs
    BY <1>1, <2>1, <2>2, EntryFacts DEF DropIndex
  <2>5. Promise!Named(t) = {Meta(t)}
    BY <1>1, <2>3, <2>4 DEF Promise!Named
  <2>6. Promise!RemoveIndex(t, i)
    BY <2>2, <2>3, <2>4, <2>5 DEF Promise!RemoveIndex, Promise!Redefine
  <2>7. QED
    BY <2>3, <2>6 DEF Promise!Next, Promise!Change
<1>13. CASE UNCHANGED vars
  <2>1. Loads' = Loads /\ Loaded' = Loaded /\ Running' = Running
        /\ UNCHANGED <<tables, catalog>>
    BY <1>13 DEF vars, Loads, Loaded, Running
  <2>2. QED
    BY <2>1 DEF Registered
<1>14. CASE CreateDataFatal \/ Quit \/ Crash
            \/ \E t \in Table, i \in Index : CreateIndexDies(t, i)
  BY <1>4, <1>14 DEF CreateDataFatal, Quit, Crash, CreateIndexDies, Running
<1>15. QED
  BY <1>2, <1>3, <1>6, <1>7, <1>8, <1>9, <1>10, <1>11, <1>12, <1>13, <1>14
     DEF Next

\* Every step of the program is one change of the register, the start or the end
\* of a process with the register as it was, nothing to it, or a death in one of
\* the windows.
THEOREM CatalogIsRegistry ==
    ASSUME Long = {}, DropLast = FALSE, Odd = {}
    PROVE  Spec => IsRegistry
<1>1. Init => Promise!Init
  <2> SUFFICES ASSUME Init PROVE Promise!Init
    OBVIOUS
  <2>1. ~Running /\ Len(catalog) = 0
    BY DEF Init, Running
  <2>2. Registered = {}
    BY <2>1 DEF Registered
  <2>3. QED
    BY <2>1, <2>2 DEF Promise!Init, Running
<1>2. CatalogInv /\ CatalogInv' /\ [Next]_vars =>
          [hurt' = "window" \/ Promise!Next]_(Promise!register)
  BY RegistryStep DEF Promise!register
<1>3. QED
  BY <1>1, <1>2, CatalogInductive, PTL DEF Spec, IsRegistry
=============================================================================

------------------------------- MODULE Table -------------------------------
(***************************************************************************)
(* One table of the database: its data file, its unique indexes, and the   *)
(* statements that use them (engine/dml/executor.c, engine/dml/planner.c,  *)
(* the index and truncate halves of engine/ddl/executor.c, index_set.c,    *)
(* storage.c, scan/).  A statement is one handler of the code cut at its    *)
(* file writes.  The program is single-threaded; what interleaves with a   *)
(* handler is its own death: the SIGINT handler of cli/repl.c _exits at    *)
(* once, so Crash may come between any two writes, and the next process    *)
(* finds whatever the files hold.                                          *)
(*                                                                         *)
(* An index is the set of its entries: the dictionary a B-tree promises    *)
(* (module BTree says when btree.c keeps that promise).  A file offset is  *)
(* the number of the row it starts.                                        *)
(***************************************************************************)
EXTENDS Integers, Sequences, FiniteSets

CONSTANTS
    Column,      \* columns of the table
    Value,       \* column values
    Index,       \* names CREATE INDEX may give
    IndexCols,   \* IndexCols[i]: the columns of index i
    KeyPart,     \* KeyPart[i][c][v]: the bytes of v that key part c keeps
    Trim,        \* Trim[v]: v as it is read back from the data file
    Where,       \* WHERE clauses: equalities, and the rows the rest keeps
    Assignment,  \* SET clauses of UPDATE: column to literal
    MaxRows,     \* bound: rows of the data file, deleted ones included
    MayCrash     \* may the user interrupt the process?

Row == [Column -> Value]

ASSUME TableAssumption ==
    /\ IndexCols \in [Index -> (SUBSET Column) \ {{}}]
    /\ KeyPart \in [Index -> [Column -> [Value -> Value]]]
    /\ Trim \in [Value -> Value]
    /\ Where \subseteq
         [eq : UNION {[C -> Value] : C \in SUBSET Column}, rest : SUBSET Row]
    /\ Assignment \subseteq UNION {[C -> Value] : C \in SUBSET Column}
    /\ MaxRows \in Nat
    /\ MayCrash \in BOOLEAN

VARIABLES
    exists,      \* is there a data file?
    data,        \* the data file: rows in file order, each with its flag byte
    file,        \* file[i]: the content of index file i
    defs,        \* index_meta: the indexes the table has, oldest first
    mem,         \* mem[i]: index i as the running statement loaded it
    pc,          \* where the running statement is
    kind,        \* which statement it is
    todo,        \* rows the statement has still to write: offset, new row
    target,      \* offsets of the rows the statement found to change
    queue,       \* index files it has still to write (or delete)
    doomed,      \* has it loaded a 0-length index file? (btree.c:242-266)
    reply,       \* what the last statement answered
    base,        \* history: the rows that were live when it started
    damage       \* history: what the crashes so far may have left behind

vars == <<exists, data, file, defs, mem, pc, kind, todo, target, queue,
          doomed, reply, base, damage>>
disk == <<exists, data, file, defs>>

(***************************************************************************)
(* Rows, keys and index images.                                            *)
(***************************************************************************)
\* A row as deserialize_row_data returns it.
ReadRow(row) == [c \in Column |-> Trim[row[c]]]

Live == {o \in 1..Len(data) : ~data[o].deleted}

RowAt(o) == ReadRow(data[o].val)

BugWholeRowKey(i, row) == [c \in Column |-> KeyPart[i][c][row[c]]]

KeyOf(i, row) == [c \in IndexCols[i] |-> KeyPart[i][c][row[c]]]

Entry(i, row, o) == [key |-> KeyOf(i, row), off |-> o]

EntryType(i) == [key : [IndexCols[i] -> Value], off : Nat]

\* A tree, the 0-length file of a tree without a root, a file whose root
\* node is not written yet, no file.
Tree(entries) == [kind |-> "tree", entries |-> entries]
ZeroFile == [kind |-> "zero", entries |-> {}]
TornFile == [kind |-> "torn", entries |-> {}]
NoFile == [kind |-> "missing", entries |-> {}]

Image(i) ==
    [kind : {"tree", "zero", "torn", "missing"}, entries : SUBSET EntryType(i)]

Defined == {defs[p] : p \in 1..Len(defs)}

\* matches_where: predicates are tested on the row as read.
Satisfies(w, row) ==
    /\ \A c \in DOMAIN w.eq : row[c] = w.eq[c]
    /\ row \in w.rest

EntriesFor(img, k) == {e \in img.entries : e.key = k}

(***************************************************************************)
(* IndexSet: operations on the loaded indexes m.  Every index is unique:   *)
(* plan_create_index refuses another btree index.                          *)
(***************************************************************************)
BugFirstIndexOnly(m, row) ==
    /\ defs # <<>>
    /\ EntriesFor(m[Head(defs)], KeyOf(Head(defs), row)) # {}

HasDuplicate(m, row) ==
    \E i \in Defined : EntriesFor(m[i], KeyOf(i, row)) # {}

\* btree_search stops at one entry of the key.  Only a damaged index holds
\* two, so both answers of index_key_conflicts may then be possible.
MayConflict(m, item) ==
    \E i \in Defined : \E e \in EntriesFor(m[i], KeyOf(i, item.new)) :
        e.off # item.off

BugNoConflictCheck(m, item) == TRUE

MayPass(m, item) ==
    \A i \in Defined :
        LET found == EntriesFor(m[i], KeyOf(i, item.new))
        IN  found = {} \/ \E e \in found : e.off = item.off

IndexSetInsert(m, row, o) ==
    [i \in Index |->
        IF i \in Defined THEN Tree(m[i].entries \cup {Entry(i, row, o)})
        ELSE m[i]]

BugFirstReached(m, row, i) ==
    /\ defs # <<>>
    /\ i = Head(defs)
    /\ EntriesFor(m[i], KeyOf(i, row)) # {}

\* index_set_delete goes through the indexes in order and gives up at the
\* first one that does not have the key.
Reached(m, row, i) ==
    \E p \in 1..Len(defs) :
        /\ defs[p] = i
        /\ \A q \in 1..p : EntriesFor(m[defs[q]], KeyOf(defs[q], row)) # {}

Removals(img, k) == {Tree(img.entries \ {e}) : e \in EntriesFor(img, k)}

AfterDelete(m, row, i) ==
    IF Reached(m, row, i) THEN Removals(m[i], KeyOf(i, row)) ELSE {m[i]}

BugDeleteNothing(m, row) == {m}

\* The outcomes of index_set_delete: it removes one entry of the row's key
\* from every index it reaches.
IndexSetDeletes(m, row) ==
    {after \in [Index -> UNION {AfterDelete(m, row, i) : i \in Index}] :
        \A i \in Index : after[i] \in AfterDelete(m, row, i)}

\* index_set_load.  Loading a 0-length file leaves the statement with a tree
\* that btree_load has already freed: if the process survives (doomed says
\* it need not), the tree is the empty one.
Loaded == [i \in Index |-> IF i \in Defined THEN file[i] ELSE ZeroFile]

Loadable ==
    /\ exists
    /\ \A i \in Defined : file[i].kind \in {"tree", "zero"}

LoadsZeroFile == \E i \in Defined : file[i].kind = "zero"

(***************************************************************************)
(* The planner and the two row sources.                                    *)
(***************************************************************************)
Covered(w) == {p \in 1..Len(defs) : IndexCols[defs[p]] \subseteq DOMAIN w.eq}

\* choose_best_index: most columns, the oldest index among equals.
Best(w, p) ==
    \A q \in Covered(w) :
        LET mine == Cardinality(IndexCols[defs[p]])
            other == Cardinality(IndexCols[defs[q]])
        IN  mine > other \/ (mine = other /\ p =< q)

LookupKey(i, w) == [c \in IndexCols[i] |-> KeyPart[i][c][w.eq[c]]]

\* What btree_search_stream may answer: an offset, or 0 for not found.  It
\* reads an uninitialised buffer when the file is empty.
StreamAnswers(i, k) ==
    IF file[i].kind = "tree"
    THEN IF EntriesFor(file[i], k) = {} THEN {0}
         ELSE {e.off : e \in EntriesFor(file[i], k)}
    ELSE IF file[i].kind = "zero" THEN 0..Len(data) ELSE {}

\* A 0-length file reads as zeros, a torn one has a zero root: not a leaf,
\* first child at offset 0, for ever.
StreamHangs(i) == file[i].kind \in {"zero", "torn"}

BugIgnoreFlag(w, answer) ==
    {o \in {answer} \cap (1..Len(data)) : Satisfies(w, RowAt(o))}

IndexScan(w, answer) == {o \in {answer} \cap Live : Satisfies(w, RowAt(o))}

TableScan(w) == {o \in Live : Satisfies(w, RowAt(o))}

\* The rows the row source of the plan yields and matches_where keeps.
Hits(w) ==
    IF Covered(w) = {} THEN {TableScan(w)}
    ELSE UNION {{IndexScan(w, a) :
                    a \in StreamAnswers(defs[p], LookupKey(defs[p], w))} :
                p \in {q \in Covered(w) : Best(w, q)}}

ScanHangs(w) == \E p \in Covered(w) : Best(w, p) /\ StreamHangs(defs[p])

(***************************************************************************)
(* Statements.  Each begins when none runs; its later steps are below.     *)
(***************************************************************************)
NoReply == [outcome |-> "none"]
Answer(outcome) == [outcome |-> outcome]

Init ==
    /\ exists = TRUE
    /\ data = <<>>
    /\ file = [i \in Index |-> NoFile]
    /\ defs = <<>>
    /\ mem = [i \in Index |-> ZeroFile]
    /\ pc = "idle"
    /\ kind = "none"
    /\ todo = {}
    /\ target = {}
    /\ queue = <<>>
    /\ doomed = FALSE
    /\ reply = NoReply
    /\ base = {}
    /\ damage = {}

Begin(k, where) ==
    /\ pc' = where
    /\ kind' = k
    /\ reply' = NoReply
    /\ base' = Live
    /\ UNCHANGED damage

Refuse(answer) ==
    /\ reply' = answer
    /\ UNCHANGED <<disk, mem, pc, kind, todo, target, queue, doomed, base,
                   damage>>

\* execute_insert 108-119
Insert(row) ==
    /\ pc = "idle"
    /\ Loadable
    /\ Len(data) < MaxRows
    /\ ~HasDuplicate(Loaded, row)
    /\ Begin("insert", "append")
    /\ mem' = Loaded
    /\ doomed' = LoadsZeroFile
    /\ todo' = {[off |-> 0, new |-> row]}
    /\ UNCHANGED <<disk, target, queue>>

InsertDuplicate(row) ==
    /\ pc = "idle"
    /\ Loadable
    /\ HasDuplicate(Loaded, row)
    /\ Refuse([outcome |-> "duplicate", row |-> row])

BugOverwrite(row) == <<[val |-> row, deleted |-> FALSE]>>

\* storage_insert_row: seek to the end, write, flush
Append1(row) == Append(data, [val |-> row, deleted |-> FALSE])

BugLastOffset == Len(data)

EndOffset == Len(data) + 1

\* index_set_save, or the end of the statement when there is nothing to save
StartSave(q) ==
    /\ queue' = q
    /\ pc' = IF q = <<>> THEN "ack" ELSE "save"

AppendRow ==
    /\ pc = "append"
    /\ \E item \in todo :
        /\ data' = Append1(item.new)
        /\ mem' = IndexSetInsert(mem, item.new, EndOffset)
    /\ todo' = {}
    /\ StartSave(defs)
    /\ UNCHANGED <<exists, file, defs, kind, target, doomed, reply, base,
                   damage>>

\* execute_delete 147-160: the rows to delete, then the in-memory deletes
Delete(w) ==
    /\ pc = "idle"
    /\ Loadable
    /\ \E hits \in Hits(w) :
        /\ todo' = {[off |-> o, new |-> RowAt(o)] : o \in hits}
        /\ target' = hits
    /\ Begin("delete", "collect")
    /\ mem' = Loaded
    /\ doomed' = LoadsZeroFile
    /\ UNCHANGED <<disk, queue>>

First(items) == {x \in items : \A y \in items : x.off =< y.off}

BugCollectForever ==
    /\ pc = "collect"
    /\ \E item \in First(todo) : mem' \in IndexSetDeletes(mem, item.new)
    /\ UNCHANGED <<disk, pc, kind, todo, target, queue, doomed, reply, base,
                   damage>>

Collect ==
    /\ pc = "collect"
    /\ \E item \in First(todo) :
        /\ mem' \in IndexSetDeletes(mem, item.new)
        /\ todo' = todo \ {item}
    /\ UNCHANGED <<disk, pc, kind, target, queue, doomed, reply, base,
                   damage>>

CollectDone ==
    /\ pc = "collect"
    /\ todo = {}
    /\ todo' = {[off |-> o, new |-> RowAt(o)] : o \in target}
    /\ pc' = IF target = {} THEN "ack" ELSE "flag"
    /\ UNCHANGED <<disk, mem, kind, target, queue, doomed, reply, base,
                   damage>>

SetFlag(o) == [data EXCEPT ![o].deleted = TRUE]

\* storage_delete_rows: one seek and write a row
FlagRow ==
    /\ pc = "flag"
    /\ \E item \in First(todo) :
        /\ data' = SetFlag(item.off)
        /\ todo' = todo \ {item}
    /\ UNCHANGED <<exists, file, defs, mem, pc, kind, target, queue, doomed,
                   reply, base, damage>>

FlagDone ==
    /\ pc = "flag"
    /\ todo = {}
    /\ StartSave(defs)
    /\ UNCHANGED <<disk, mem, kind, todo, target, doomed, reply, base,
                   damage>>
\* execute_update 250-277: fill_update_row keeps the rows that change
Changed(row, asg) == \E c \in DOMAIN asg : asg[c] # row[c]

Assign(row, asg) ==
    [c \in Column |-> IF c \in DOMAIN asg THEN asg[c] ELSE row[c]]

Pairs(hits, asg) ==
    {[off |-> o, new |-> Assign(RowAt(o), asg)] :
        o \in {p \in hits : Changed(RowAt(p), asg)}}

\* batch_check_unique_keys compares the whole column values, not the keys.
BatchDuplicate(items) ==
    \E x, y \in items : \E i \in Defined :
        /\ x # y
        /\ \A c \in IndexCols[i] : x.new[c] = y.new[c]

Update(w, asg) ==
    /\ pc = "idle"
    /\ Loadable
    /\ \E hits \in Hits(w) :
        LET items == Pairs(hits, asg)
        IN  /\ Len(data) + Cardinality(items) =< MaxRows
            /\ \A item \in items : MayPass(Loaded, item)
            /\ ~BatchDuplicate(items)
            /\ todo' = items
            /\ target' = {item.off : item \in items}
    /\ Begin("update", "move")
    /\ mem' = Loaded
    /\ doomed' = LoadsZeroFile
    /\ UNCHANGED <<disk, queue>>

UpdateConflict(w, asg) ==
    /\ pc = "idle"
    /\ Loadable
    /\ \E hits \in Hits(w) :
        LET items == Pairs(hits, asg)
        IN  (\E item \in items : MayConflict(Loaded, item))
                \/ BatchDuplicate(items)
    /\ Refuse(Answer("conflict"))

BugMoveAll ==
    /\ pc = "move"
    /\ todo # {}
    /\ data' = [o \in 1..Len(data) |->
                   IF \E item \in todo : item.off = o
                   THEN [data[o] EXCEPT !.deleted = TRUE] ELSE data[o]]
    /\ pc' = "place"
    /\ UNCHANGED <<exists, file, defs, mem, kind, todo, target, queue,
                   doomed, reply, base, damage>>

BugKeepOldRow ==
    /\ pc = "move"
    /\ todo # {}
    /\ pc' = "place"
    /\ UNCHANGED <<exists, data, file, defs, mem, kind, todo, target, queue,
                   doomed, reply, base, damage>>

\* execute_update 280-297, one pair: flag the old row, append the new one
MoveRow ==
    /\ pc = "move"
    /\ \E item \in First(todo) : data' = SetFlag(item.off)
    /\ pc' = "place"
    /\ UNCHANGED <<exists, file, defs, mem, kind, todo, target, queue,
                   doomed, reply, base, damage>>

BugInsertThenDelete ==
    /\ pc = "place"
    /\ \E item \in First(todo) :
        /\ mem' \in IndexSetDeletes(IndexSetInsert(mem, item.new, EndOffset),
                                    RowAt(item.off))
        /\ data' = Append1(item.new)
        /\ todo' = todo \ {item}
    /\ pc' = "move"
    /\ UNCHANGED <<exists, file, defs, kind, target, queue, doomed, reply,
                   base, damage>>

PlaceRow ==
    /\ pc = "place"
    /\ \E item \in First(todo) :
        /\ \E after \in IndexSetDeletes(mem, RowAt(item.off)) :
            mem' = IndexSetInsert(after, item.new, EndOffset)
        /\ data' = Append1(item.new)
        /\ todo' = todo \ {item}
    /\ pc' = "move"
    /\ UNCHANGED <<exists, file, defs, kind, target, queue, doomed, reply,
                   base, damage>>

MoveDone ==
    /\ pc = "move"
    /\ todo = {}
    /\ StartSave(defs)
    /\ UNCHANGED <<disk, mem, kind, todo, target, doomed, reply, base,
                   damage>>

(***************************************************************************)
(* btree_save: fopen "w" truncates the file, then the nodes are written,   *)
(* the root last.  A tree without a root writes nothing.                   *)
(***************************************************************************)
OpenIndex ==
    /\ pc = "save"
    /\ file' = [file EXCEPT ![Head(queue)] = ZeroFile]
    /\ pc' = "write"
    /\ UNCHANGED <<exists, data, defs, mem, kind, todo, target, queue,
                   doomed, reply, base, damage>>

WriteNodes ==
    /\ pc = "write"
    /\ mem[Head(queue)].kind = "tree"
    /\ file[Head(queue)] = ZeroFile
    /\ file' = [file EXCEPT ![Head(queue)] = TornFile]
    /\ UNCHANGED <<exists, data, defs, mem, pc, kind, todo, target, queue,
                   doomed, reply, base, damage>>

WriteRoot ==
    /\ pc = "write"
    /\ file' = [file EXCEPT ![Head(queue)] = mem[Head(queue)]]
    /\ IF kind = "create_index" THEN pc' = "define" /\ UNCHANGED queue
       ELSE StartSave(Tail(queue))
    /\ UNCHANGED <<exists, data, defs, mem, kind, todo, target, doomed,
                   reply, base, damage>>

\* The statement's last message (print_affected_rows, print_ok).
Finish(answer) ==
    /\ pc' = "idle"
    /\ kind' = "none"
    /\ mem' = [i \in Index |-> ZeroFile]
    /\ todo' = {}
    /\ target' = {}
    /\ queue' = <<>>
    /\ doomed' = FALSE
    /\ base' = {}
    /\ reply' = answer

Acknowledge ==
    /\ pc = "ack"
    /\ Finish(Answer("ok"))
    /\ UNCHANGED <<disk, damage>>

(***************************************************************************)
(* execute_create_index, execute_drop_index, execute_truncate_table.       *)
(***************************************************************************)
LiveEntries(i) == {Entry(i, RowAt(o), o) : o \in Live}

LiveDuplicates(i) ==
    \E o, p \in Live : o # p /\ KeyOf(i, RowAt(o)) = KeyOf(i, RowAt(p))

\* backfill_index: the rows read in file order into a new tree
CreateIndex(i) ==
    /\ pc = "idle"
    /\ exists
    /\ i \notin Defined
    /\ ~LiveDuplicates(i)
    /\ Begin("create_index", "save")
    /\ mem' = [mem EXCEPT ![i] =
                   IF Live = {} THEN ZeroFile ELSE Tree(LiveEntries(i))]
    /\ queue' = <<i>>
    /\ UNCHANGED <<disk, todo, target, doomed>>

CreateIndexDuplicate(i) ==
    /\ pc = "idle"
    /\ exists
    /\ i \notin Defined
    /\ LiveDuplicates(i)
    /\ Refuse(Answer("conflict"))

DefineIndex ==
    /\ pc = "define"
    /\ defs' = Append(defs, Head(queue))
    /\ pc' = "ack"
    /\ queue' = <<>>
    /\ UNCHANGED <<exists, data, file, mem, kind, todo, target, doomed,
                   reply, base, damage>>

\* schema_remove_index_def
Without(p) ==
    [q \in 1..(Len(defs) - 1) |-> IF q < p THEN defs[q] ELSE defs[q + 1]]

DropIndex(p) ==
    /\ pc = "idle"
    /\ Begin("drop_index", "unlink")
    /\ defs' = Without(p)
    /\ queue' = <<defs[p]>>
    /\ UNCHANGED <<exists, data, file, mem, todo, target, doomed>>

DropIndexFile ==
    /\ pc = "unlink"
    /\ file' = [file EXCEPT ![Head(queue)] = NoFile]
    /\ queue' = <<>>
    /\ pc' = "ack"
    /\ UNCHANGED <<exists, data, defs, mem, kind, todo, target, doomed,
                   reply, base, damage>>

Truncate ==
    /\ pc = "idle"
    /\ exists
    /\ Begin("truncate", "recreate")
    /\ exists' = FALSE
    /\ data' = <<>>
    /\ UNCHANGED <<file, defs, mem, todo, target, queue, doomed>>

TruncateNoFile ==
    /\ pc = "idle"
    /\ ~exists
    /\ Refuse(Answer("error"))

RecreateData ==
    /\ pc = "recreate"
    /\ exists' = TRUE
    /\ pc' = "purge"
    /\ queue' = defs
    /\ UNCHANGED <<data, file, defs, mem, kind, todo, target, doomed, reply,
                   base, damage>>

PurgeIndex ==
    /\ pc = "purge"
    /\ queue # <<>>
    /\ file' = [file EXCEPT ![Head(queue)] = NoFile]
    /\ queue' = Tail(queue)
    /\ UNCHANGED <<exists, data, defs, mem, pc, kind, todo, target, doomed,
                   reply, base, damage>>

\* index_set_create makes trees without a root
PurgeDone ==
    /\ pc = "purge"
    /\ queue = <<>>
    /\ StartSave(defs)
    /\ UNCHANGED <<disk, mem, kind, todo, target, doomed, reply, base,
                   damage>>
(***************************************************************************)
(* execute_select; and the statements that never come to an answer.        *)
(***************************************************************************)
Select(w, ignoreIndex) ==
    /\ pc = "idle"
    /\ exists
    /\ \E hits \in IF ignoreIndex THEN {TableScan(w)} ELSE Hits(w) :
        Refuse([outcome |-> "rows", where |-> w, rows |-> hits])

\* btree_search_stream does not return: in a SELECT, or in a DELETE or an
\* UPDATE, which load the indexes first.
Hang(w) ==
    /\ pc = "idle"
    /\ exists
    /\ ScanHangs(w)
    /\ Begin("scan", "hung")
    /\ UNCHANGED <<disk, mem, todo, target, queue, doomed>>

\* A file the statement needs is missing or torn: fopen's NULL or an endless
\* parse_tree kills the process before it has written anything.
Die ==
    /\ pc = "idle"
    /\ ~Loadable
    /\ Refuse(Answer("died"))

\* What a statement that dies here may leave in the files for good: "stale"
\* index entries of deleted rows, live rows "lost" to the index, or a
\* half-done "truncate".
Damage ==
    IF kind = "truncate" /\ pc # "ack" THEN {"truncate"}
    ELSE IF kind = "delete" /\ pc \in {"flag", "save"} THEN {"stale"}
    ELSE IF kind \in {"insert", "delete", "update"}
                /\ pc \in {"move", "place", "save", "write"} THEN {"lost"}
    ELSE {}

\* SIGINT, or the double free of a statement that loaded a 0-length index
\* file; the next process starts with what is on disk.
Crash ==
    /\ pc # "idle"
    /\ MayCrash \/ doomed \/ pc = "hung"
    /\ damage' = damage \cup Damage
    /\ Finish(Answer("died"))
    /\ UNCHANGED disk

Statement ==
    \/ \E row \in Row : Insert(row) \/ InsertDuplicate(row)
    \/ \E w \in Where :
        \/ Delete(w)
        \/ \E asg \in Assignment : Update(w, asg) \/ UpdateConflict(w, asg)
        \/ \E ignoreIndex \in BOOLEAN : Select(w, ignoreIndex)
        \/ Hang(w)
    \/ \E i \in Index : CreateIndex(i) \/ CreateIndexDuplicate(i)
    \/ \E p \in 1..Len(defs) : DropIndex(p)
    \/ Truncate
    \/ TruncateNoFile
    \/ Die

\* The rest of the running handler.
Step ==
    \/ AppendRow
    \/ Collect \/ CollectDone \/ FlagRow \/ FlagDone
    \/ MoveRow \/ PlaceRow \/ MoveDone
    \/ OpenIndex \/ WriteNodes \/ WriteRoot \/ Acknowledge
    \/ DefineIndex \/ DropIndexFile
    \/ RecreateData \/ PurgeIndex \/ PurgeDone

Next == Statement \/ Step \/ Crash

\* A handler that can go on does: nothing blocks in it.  No statement need
\* ever be typed.
Fairness == WF_vars(Step)

Spec == Init /\ [][Next]_vars
FairSpec == Spec /\ Fairness

(***************************************************************************)
(* Properties.                                                             *)
(***************************************************************************)
Work == [off : Nat, new : Row]

Control ==
    {"idle", "append", "collect", "flag", "move", "place", "save", "write",
     "define", "unlink", "recreate", "purge", "ack", "hung"}

Kinds ==
    {"none", "insert", "delete", "update", "create_index", "drop_index",
     "truncate", "scan"}

IsIndexSet(m) ==
    /\ m = [i \in Index |-> m[i]]
    /\ \A i \in Index : m[i] \in Image(i)

\* Every variable has its type.
TypeOK ==
    /\ exists \in BOOLEAN
    /\ data \in Seq([val : Row, deleted : BOOLEAN])
    /\ defs \in Seq(Index)
    /\ IsIndexSet(file) /\ IsIndexSet(mem)
    /\ pc \in Control
    /\ kind \in Kinds
    /\ todo \subseteq Work
    /\ target \subseteq Nat
    /\ queue \in Seq(Index)
    /\ doomed \in BOOLEAN
    /\ base \subseteq Nat
    /\ damage \subseteq {"stale", "lost", "truncate"}

\* Data before index: whatever the crashes, short of one inside TRUNCATE, an
\* index entry on disk points at a row of the data file, the row whose key it
\* holds (execute_insert, execute_update: the row is flushed before the
\* indexes are saved).
EntriesPointHome ==
    kind # "truncate" /\ "truncate" \notin damage =>
        \A i \in Defined : \A e \in file[i].entries :
            /\ e.off \in 1..Len(data)
            /\ e.key = KeyOf(i, data[e.off].val)

\* A unique index is unique: no two live rows have the same key in it, not
\* even in the middle of an UPDATE, after any crash that only left stale
\* entries (index_set_has_duplicate, index_set_has_conflict).
KeysUnique ==
    damage \subseteq {"stale"} =>
        \A i \in Defined : \A o, p \in Live :
            KeyOf(i, RowAt(o)) = KeyOf(i, RowAt(p)) => o = p

\* Between statements every index file holds the live rows, each once, and
\* nothing else: rows, flags and index files written one by one agree again.
IndexExact ==
    pc = "idle" /\ damage = {} =>
        \A i \in Defined : file[i].entries = LiveEntries(i)

\* A SELECT answers the live rows that satisfy its WHERE clause, whether the
\* planner chose an index or not (RowSource), even with stale entries in it.
SelectExact ==
    reply.outcome = "rows" /\ damage \subseteq {"stale"} =>
        reply.rows = {o \in Live : Satisfies(reply.where, RowAt(o))}

\* An INSERT refused as a duplicate would duplicate a live row
\* (engine/dml/executor.c:117).
NoSpuriousDuplicate ==
    reply.outcome = "duplicate" /\ damage = {} =>
        \E o \in Live : \E i \in Defined :
            KeyOf(i, RowAt(o)) = KeyOf(i, ReadRow(reply.row))

\* Rows that a statement did not select stay live, and an UPDATE that dies
\* loses at most the one row it was moving (execute_update 280-297).
OthersUntouched ==
    kind # "truncate" =>
        /\ base \ target \subseteq Live
        /\ kind = "update" => Cardinality(Live) >= Cardinality(base) - 1

\* A row, once written, changes only by being flagged deleted, except that
\* TRUNCATE removes the file: offsets held in the indexes stay good.
AppendOnly ==
    [][exists' =>
        /\ Len(data') >= Len(data)
        /\ \A o \in 1..Len(data) :
            /\ data'[o].val = data[o].val
            /\ data[o].deleted => data'[o].deleted]_vars

\* Every statement that does not hang comes to its end or dies.
StatementEnds == pc \notin {"idle", "hung"} ~> pc \in {"idle", "hung"}

\* The table is the relation it stands for: a statement has its whole effect,
\* and that of one statement, when it answers, and what it answers is true of
\* the rows.  A crash may break this only as the damage says.
BagOf(offs) == [r \in Row |-> Cardinality({o \in offs : RowAt(o) = r})]

Replied ==
    IF reply.outcome = "rows" THEN [reply EXCEPT !.rows = BagOf(@)] ELSE reply

\* The rows between statements, and under one the rows it started with.
Rows ==
    BagOf(IF kind = "truncate" THEN {} ELSE IF pc = "idle" THEN Live ELSE base)

Rel == INSTANCE AbstractTable WITH
    Assign <- LAMBDA row, asg : ReadRow(Assign(row, asg)),
    rows <- Rows,
    keys <- Defined,
    doing <- kind,
    answer <- Replied

IsRelation == Rel!Init /\ [][damage' # {} \/ Rel!Next]_(Rel!relation)
=============================================================================

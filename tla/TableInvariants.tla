-------------------------- MODULE TableInvariants --------------------------
(***************************************************************************)
(* The inductive strengthening of Table's invariants: what the files, the  *)
(* loaded indexes and the rows still to be written have to do with one     *)
(* another at every step of a statement.                                   *)
(***************************************************************************)
EXTENDS Table, Functions

\* Values are read back as they were written, and a key tells apart the
\* values that its columns tell apart.
FaithfulValues == \A v \in Value : Trim[v] = v

FaithfulKeys ==
    /\ FaithfulValues
    /\ \A i \in Index, c \in Column, u, v \in Value :
        KeyPart[i][c][u] = KeyPart[i][c][v] => u = v

InQueue == {queue[p] : p \in 1..Len(queue)}

Pending == {item.off : item \in todo}

\* Which statement can be where, and with what still to do.
Shape ==
    /\ pc = "idle" <=> kind = "none"
    /\ pc = "hung" => kind = "scan"
    /\ pc = "append" => kind = "insert" /\ \E row \in Row : todo = {[off |-> 0, new |-> row]}
    /\ pc \in {"collect", "flag"} => kind = "delete"
    /\ pc \in {"move", "place"} => kind = "update"
    /\ pc \in {"collect", "flag", "move", "place"} =>
        target \cup Pending \subseteq 1..Len(data)
    /\ pc = "define" => kind = "create_index" /\ Len(queue) = 1
    /\ pc = "unlink" => kind = "drop_index" /\ Len(queue) = 1
    /\ pc \in {"recreate", "purge"} => kind = "truncate"
    /\ pc \in {"save", "write"} =>
        queue # <<>> /\ kind \in {"insert", "delete", "update", "create_index", "truncate"}
    /\ pc \notin {"save", "write", "define", "unlink", "purge"} => queue = <<>>
    /\ kind = "create_index" =>
        \/ pc \in {"save", "write", "define"} /\ Len(queue) = 1 /\ Head(queue) \notin Defined
        \/ pc = "ack"
    /\ kind = "drop_index" => pc \in {"unlink", "ack"}
    /\ kind = "scan" => pc = "hung"

\* TRUNCATE works on an empty data file with trees that have no root, and
\* leaves an empty index file behind wherever it has been.
TruncateInv ==
    /\ kind \in {"none", "truncate"} => \A i \in Index : mem[i] = ZeroFile
    /\ kind = "truncate" =>
        /\ pc \in {"recreate", "purge", "save", "write", "ack"}
        /\ data = <<>>
        /\ pc \in {"save", "write", "ack"} =>
            \A i \in Defined \ InQueue : file[i].entries = {}

\* Every entry points into rows and holds the key of the row it points at.
PointsHome(rows, i, entries) ==
    \A e \in entries :
        /\ e.off \in 1..Len(rows)
        /\ e.key = KeyOf(i, rows[e.off].val)

\* EntriesPointHome, for the loaded indexes and the index being created too.
HomeInv ==
    kind # "truncate" /\ "truncate" \notin damage =>
        /\ \A i \in Defined : PointsHome(data, i, file[i].entries)
        /\ \A i \in Index : PointsHome(data, i, mem[i].entries)
        /\ pc = "define" =>
            PointsHome(data, Head(queue), file[Head(queue)].entries)

\* An index is defined once, and its file goes after its definition.
NamesInv ==
    /\ \A p, q \in 1..Len(defs) : defs[p] = defs[q] => p = q
    /\ pc = "unlink" => Head(queue) \notin Defined

\* What is not a tree has no entries.
RootsInv ==
    \A i \in Index : \A img \in {file[i], mem[i]} :
        img.kind # "tree" => img.entries = {}

\* Every row of these offsets has its entry.
Covers(rows, i, entries, offs) ==
    \A o \in offs : Entry(i, rows[o].val, o) \in entries

KeyedOnce(entries) == \A e, f \in entries : e.key = f.key => e = f

\* No entry is of another row.
Within(entries, offs) == \A e \in entries : e.off \in offs

\* An index of the rows at these offsets, and of no others unless there are
\* flaws to account for them.
Sound(rows, i, entries, offs, flaws) ==
    /\ Covers(rows, i, entries, offs)
    /\ KeyedOnce(entries)
    /\ flaws = {} => Within(entries, offs)

FileOK(i) == Sound(data, i, file[i].entries, Live, {"stale"})

FileExact(i) == Sound(data, i, file[i].entries, Live, damage)

MemOK(i, offs) == Sound(data, i, mem[i].entries, offs, damage)

\* The row an UPDATE has flagged and not yet replaced.
Moving == {item.off : item \in First(todo)}

\* The rows an UPDATE finds in the indexes it has loaded.
Kept == IF pc = "place" THEN Live \cup Moving ELSE Live

\* The files between statements, and as long as a statement has written
\* nothing that a later step must match; a DELETE leaves entries behind it
\* that are stale until its save.
FilesInv ==
    /\ pc \in {"idle", "append", "collect", "define", "unlink", "ack", "hung"}
            \/ kind = "create_index" =>
        \A i \in Defined : FileExact(i)
    /\ pc = "flag" \/ (kind = "delete" /\ pc = "save") =>
        \A i \in Defined : FileOK(i)

SavingInv ==
    pc \in {"save", "write"} /\ kind \in {"insert", "delete", "update"} =>
        \A i \in Defined :
            /\ MemOK(i, Live)
            /\ i \notin InQueue => FileExact(i)
            /\ kind = "delete" /\ i # Head(queue) => FileOK(i)

InsertInv ==
    pc = "append" =>
        \A i \in Defined :
            /\ MemOK(i, Live)
            /\ \A item \in todo : EntriesFor(mem[i], KeyOf(i, item.new)) = {}

DeleteInv ==
    /\ pc = "collect" =>
        /\ target \subseteq Live
        /\ \A item \in todo : item.new = data[item.off].val
        /\ \A i \in Defined : MemOK(i, Live \ (target \ Pending))
    /\ pc = "flag" =>
        /\ Live \cap target \subseteq Pending
        /\ \A i \in Defined : MemOK(i, Live \ target)

UpdateInv ==
    pc \in {"move", "place"} =>
        /\ Pending \subseteq Kept
        /\ pc = "place" => todo # {} /\ Moving \subseteq (1..Len(data)) \ Live
        /\ \A i \in Defined :
            /\ MemOK(i, Kept)
            /\ \A item \in todo :
                \A e \in EntriesFor(mem[i], KeyOf(i, item.new)) : e.off = item.off
            /\ \A item, other \in todo :
                KeyOf(i, item.new) = KeyOf(i, other.new) => item = other
        /\ \A item, other \in todo : item.off = other.off => item = other

CreateInv ==
    kind = "create_index" /\ pc # "ack" =>
        /\ MemOK(Head(queue), Live)
        /\ pc = "define" => FileExact(Head(queue))

KeysInv ==
    /\ FilesInv
    /\ SavingInv
    /\ InsertInv
    /\ DeleteInv
    /\ UpdateInv
    /\ CreateInv

UniqueInv == damage \subseteq {"stale"} => KeysInv

\* What a statement writes is what it has found, and what it has not found
\* stays live; an UPDATE has one row at most in its hands.
TargetInv ==
    /\ kind \in {"delete", "update"} => Pending \subseteq target
    /\ kind # "truncate" => base \ target \subseteq Live
    /\ kind = "update" =>
        Cardinality(base) \in
            0..(Cardinality(Live) + (IF pc = "place" THEN 1 ELSE 0))

\* An answer that speaks of the rows is there until the next statement.
AnswerInv == reply.outcome \in {"rows", "duplicate"} => pc = "idle"

\* The inductive invariant, under faithful keys.
TableInv ==
    /\ TypeOK
    /\ Shape
    /\ TruncateInv
    /\ HomeInv
    /\ NamesInv
    /\ RootsInv
    /\ UniqueInv
    /\ TargetInv
    /\ AnswerInv

(***************************************************************************)
(* What ties a table to the relation it stands for, until a crash does     *)
(* damage: which rows the running statement has changed so far, and that   *)
(* the next one finds all its files.                                       *)
(***************************************************************************)
Readable(img) == img.kind \in {"tree", "zero"}

\* No file is missing or torn but those the statement is about to write.
ReadableInv ==
    /\ exists \/ pc = "recreate"
    /\ \A i \in Index : Readable(mem[i])
    /\ pc # "purge" => \A i \in Defined \ InQueue : Readable(file[i])
    /\ pc = "define" => Readable(file[Head(queue)])

\* Rows of base that a DELETE has flagged or an UPDATE has replaced by now.
Changing == target \ Pending

\* Where each row of base is now, under an UPDATE with this SET clause.
Traces(h, asg) ==
    \A o \in base :
        IF o \in Changing THEN data[h[o]].val = Assign(data[o].val, asg) ELSE h[o] = o

InsertEffect == \E o \in (1..Len(data)) \ base : Live = base \cup {o}

DeleteEffect ==
    /\ \E w \in Where : target = {o \in base : Satisfies(w, data[o].val)}
    /\ \A item, other \in todo : item.off = other.off => item = other
    /\ Live = IF pc = "collect" THEN base ELSE base \ Changing

UpdateEffect ==
    \E w \in Where, asg \in Assignment :
        /\ target = {o \in base : Satisfies(w, data[o].val) /\ Changed(data[o].val, asg)}
        /\ \A item \in todo : item.new = Assign(data[item.off].val, asg)
        /\ \E h \in Bijection(base, Kept) : Traces(h, asg)

EffectInv ==
    /\ kind \notin {"none", "truncate"} => base \subseteq 1..Len(data)
    /\ kind \in {"create_index", "drop_index", "scan"} \/ pc = "append" => Live = base
    /\ kind = "insert" /\ pc # "append" => InsertEffect
    /\ kind = "delete" => DeleteEffect
    /\ kind = "update" => UpdateEffect
    /\ kind \in {"delete", "update"} /\ pc \in {"save", "write", "ack"} => todo = {}

RelationInv == damage = {} => ReadableInv /\ EffectInv
=============================================================================

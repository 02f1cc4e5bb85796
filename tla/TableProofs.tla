---------------------------- MODULE TableProofs ----------------------------
(***************************************************************************)
(* Theorems about Table, for every set of columns, values, indexes and     *)
(* clauses: first types, rows and where entries point, then keys: that     *)
(* UniqueInv, and with it TableInv, is inductive, what follows from it for *)
(* every instance with faithful keys, and that such a table implements     *)
(* AbstractTable.                                                          *)
(***************************************************************************)
EXTENDS TableInvariants, SequenceTheorems, FunctionTheorems, FiniteSetTheorems, TLAPS

(***************************************************************************)
(* What the helpers return.                                                *)
(***************************************************************************)
LEMMA KeyType ==
    ASSUME NEW i \in Index, NEW row \in Row
    PROVE  KeyOf(i, row) \in [IndexCols[i] -> Value]
BY TableAssumption DEF KeyOf, Row

LEMMA ReadRowType ==
    ASSUME NEW row \in Row
    PROVE  ReadRow(row) \in Row
BY TableAssumption DEF ReadRow, Row

LEMMA EntryInType ==
    ASSUME NEW i \in Index, NEW row \in Row, NEW o \in Nat
    PROVE  /\ Entry(i, row, o) \in EntryType(i)
           /\ Entry(i, row, o).key = KeyOf(i, row)
           /\ Entry(i, row, o).off = o
BY KeyType DEF Entry, EntryType

\* Splitting a set of index images into its members and back.
LEMMA IndexSetIntro ==
    ASSUME NEW m, m = [i \in Index |-> m[i]],
           \A i \in Index : m[i] \in Image(i)
    PROVE  IsIndexSet(m)
BY DEF IsIndexSet

LEMMA TreeType ==
    ASSUME NEW i \in Index, NEW s \in SUBSET EntryType(i)
    PROVE  Tree(s) \in Image(i) /\ Tree(s).entries = s /\ Tree(s).kind = "tree"
BY DEF Tree, Image

LEMMA SpecialType ==
    ASSUME NEW i \in Index
    PROVE  /\ ZeroFile \in Image(i) /\ TornFile \in Image(i) /\ NoFile \in Image(i)
           /\ ZeroFile.entries = {} /\ TornFile.entries = {} /\ NoFile.entries = {}
BY DEF ZeroFile, TornFile, NoFile, Image

LEMMA InsertType ==
    ASSUME NEW m, IsIndexSet(m), NEW row \in Row, NEW o \in Nat
    PROVE  IsIndexSet(IndexSetInsert(m, row, o))
<1>1. ASSUME NEW i \in Index
      PROVE  Tree(m[i].entries \cup {Entry(i, row, o)}) \in Image(i)
  <2>1. m[i].entries \in SUBSET EntryType(i)
    BY DEF IsIndexSet, Image
  <2>2. QED
    BY <2>1, EntryInType, TreeType
<1>2. QED
  BY <1>1 DEF IsIndexSet, IndexSetInsert

LEMMA DeleteType ==
    ASSUME NEW m, IsIndexSet(m), NEW row \in Row,
           NEW after \in IndexSetDeletes(m, row)
    PROVE  IsIndexSet(after)
<1>1. \A i \in Index : after[i] \in AfterDelete(m, row, i)
  BY DEF IndexSetDeletes
<1>2. ASSUME NEW i \in Index, NEW k
      PROVE  \A img \in Removals(m[i], k) : img \in Image(i)
  <2>1. m[i].entries \in SUBSET EntryType(i)
    BY DEF IsIndexSet, Image
  <2>2. QED
    BY <2>1, TreeType DEF Removals
<1>3. \A i \in Index : after[i] \in Image(i)
  BY <1>1, <1>2 DEF AfterDelete, IsIndexSet
<1>4. after = [i \in Index |-> after[i]]
  BY DEF IndexSetDeletes
<1>5. QED
  BY <1>3, <1>4 DEF IsIndexSet

LEMMA LiveType ==
    ASSUME TypeOK
    PROVE  /\ Live \subseteq 1..Len(data)
           /\ Live \subseteq Nat
           /\ \A o \in 1..Len(data) : data[o].val \in Row /\ RowAt(o) \in Row
<1>1. Len(data) \in Nat
  BY LenProperties DEF TypeOK
<1>2. \A o \in 1..Len(data) : data[o] \in [val : Row, deleted : BOOLEAN]
  BY ElementOfSeq DEF TypeOK
<1>3. QED
  BY <1>1, <1>2, ReadRowType DEF Live, RowAt

LEMMA LoadedType ==
    ASSUME TypeOK
    PROVE  IsIndexSet(Loaded)
BY SpecialType DEF TypeOK, IsIndexSet, Loaded

LEMMA HitsType ==
    ASSUME TypeOK, NEW w \in Where, NEW hits \in Hits(w)
    PROVE  hits \subseteq Live
BY DEF Hits, TableScan, IndexScan

LEMMA PairsType ==
    ASSUME TypeOK, NEW hits \in SUBSET Live, NEW asg \in Assignment
    PROVE  Pairs(hits, asg) \subseteq Work
<1>1. ASSUME NEW o \in hits PROVE Assign(RowAt(o), asg) \in Row
  <2>1. RowAt(o) \in Row
    BY LiveType
  <2>2. PICK C \in SUBSET Column : asg \in [C -> Value]
    BY TableAssumption
  <2>3. QED
    BY <2>1, <2>2 DEF Assign, Row
<1>2. QED
  BY <1>1, LiveType DEF Pairs, Work

LEMMA FlagType ==
    ASSUME TypeOK, NEW o \in 1..Len(data)
    PROVE  /\ SetFlag(o) \in Seq([val : Row, deleted : BOOLEAN])
           /\ Len(SetFlag(o)) = Len(data)
           /\ \A p \in 1..Len(data) :
                /\ SetFlag(o)[p].val = data[p].val
                /\ p = o => SetFlag(o)[p].deleted
                /\ p # o => SetFlag(o)[p] = data[p]
<1> DEFINE R == [val : Row, deleted : BOOLEAN]
           d == [data[o] EXCEPT !.deleted = TRUE]
<1>1. data \in Seq(R)
  BY DEF TypeOK
<1>2. data[o] \in R
  BY <1>1, ElementOfSeq
<1>3. d \in R /\ d.val = data[o].val /\ d.deleted = TRUE
  BY <1>2
<1>4. SetFlag(o) = [data EXCEPT ![o] = d]
  BY DEF SetFlag
<1> HIDE DEF R, d
<1>5. /\ [data EXCEPT ![o] = d] \in Seq(R)
      /\ Len([data EXCEPT ![o] = d]) = Len(data)
      /\ \A p \in 1..Len(data) :
            [data EXCEPT ![o] = d][p] = IF p = o THEN d ELSE data[p]
  BY <1>1, <1>3, ExceptSeq
<1>6. QED
  BY <1>3, <1>4, <1>5 DEF R

LEMMA AppendType ==
    ASSUME TypeOK, NEW row \in Row
    PROVE  /\ Append1(row) \in Seq([val : Row, deleted : BOOLEAN])
           /\ Len(Append1(row)) = Len(data) + 1
           /\ \A p \in 1..Len(data) : Append1(row)[p] = data[p]
           /\ Append1(row)[Len(data) + 1] = [val |-> row, deleted |-> FALSE]
BY DEF Append1, TypeOK

LEMMA QueueHead ==
    ASSUME TypeOK, queue # <<>>
    PROVE  /\ Head(queue) \in Index
           /\ Tail(queue) \in Seq(Index)
           /\ Len(Tail(queue)) = Len(queue) - 1
           /\ \A p \in 1..Len(Tail(queue)) : Tail(queue)[p] = queue[p + 1]
           /\ Head(queue) = queue[1]
           /\ Len(queue) \in Nat \ {0}
BY HeadTailProperties, EmptySeq DEF TypeOK

LEMMA FileExceptType ==
    ASSUME TypeOK, queue # <<>>, NEW img \in Image(Head(queue))
    PROVE  IsIndexSet([file EXCEPT ![Head(queue)] = img])
BY QueueHead DEF TypeOK, IsIndexSet

LEMMA WithoutType ==
    ASSUME TypeOK, NEW p \in 1..Len(defs)
    PROVE  Without(p) \in Seq(Index)
<1>1. Len(defs) \in Nat /\ \A q \in 1..Len(defs) : defs[q] \in Index
  BY ElementOfSeq, LenProperties DEF TypeOK
<1>2. Without(p) \in [1..(Len(defs) - 1) -> Index]
  BY <1>1 DEF Without
<1>3. Len(defs) - 1 \in Nat
  BY <1>1
<1>4. QED
  BY <1>2, <1>3, SeqDef

(***************************************************************************)
(* Every variable has its type, and a statement is where its kind can be.  *)
(***************************************************************************)
LEMMA InitType == Init => TypeOK /\ Shape
<1> SUFFICES ASSUME Init PROVE TypeOK /\ Shape
  OBVIOUS
<1>1. IsIndexSet(file) /\ IsIndexSet(mem)
  BY SpecialType DEF Init, IsIndexSet
<1>2. /\ data \in Seq([val : Row, deleted : BOOLEAN])
      /\ defs \in Seq(Index)
      /\ queue \in Seq(Index)
      /\ Len(queue) = 0
  BY EmptySeq DEF Init
<1>3. QED
  BY <1>1, <1>2 DEF Init, TypeOK, Shape, Control, Kinds

LEMMA NextType == TypeOK /\ Shape /\ [Next]_vars => TypeOK' /\ Shape'
<1> SUFFICES ASSUME TypeOK, Shape, [Next]_vars
             PROVE  TypeOK' /\ Shape'
  OBVIOUS
<1>1. ASSUME NEW row \in Row, Insert(row)
      PROVE  TypeOK' /\ Shape'
  <2>1. IsIndexSet(mem') /\ todo' \subseteq Work
    BY <1>1, LoadedType DEF Insert, Work
  <2>2. TypeOK'
    BY <1>1, <2>1, LiveType DEF TypeOK, Control, Kinds, disk, Insert, Begin, LoadsZeroFile
  <2>3. QED
    BY <1>1, <2>2 DEF Shape, disk, Insert, Begin
<1>2. ASSUME NEW row \in Row, InsertDuplicate(row)
      PROVE  TypeOK' /\ Shape'
  BY <1>2 DEF TypeOK, Shape, disk, Defined, InsertDuplicate, Refuse
<1>3. ASSUME AppendRow
      PROVE  TypeOK' /\ Shape'
  <2>1. PICK item \in todo : /\ data' = Append1(item.new)
                             /\ mem' = IndexSetInsert(mem, item.new, EndOffset)
    BY <1>3 DEF AppendRow
  <2>2. item.new \in Row /\ EndOffset \in Nat
    BY <2>1, LenProperties DEF TypeOK, Work, EndOffset
  <2>3. data' \in Seq([val : Row, deleted : BOOLEAN]) /\ IsIndexSet(mem')
    BY <2>1, <2>2, AppendType, InsertType DEF TypeOK
  <2>4. TypeOK'
    BY <1>3, <2>3 DEF TypeOK, Control, AppendRow, StartSave
  <2>5. QED
    BY <1>3, <2>4 DEF Shape, Defined, AppendRow, StartSave
<1>4. ASSUME NEW w \in Where, Delete(w)
      PROVE  TypeOK' /\ Shape'
  <2>1. PICK hits \in Hits(w) :
            /\ todo' = {[off |-> o, new |-> RowAt(o)] : o \in hits}
            /\ target' = hits
    BY <1>4 DEF Delete
  <2>2. hits \subseteq Live
    BY HitsType
  <2>3. IsIndexSet(mem') /\ base' \subseteq Nat
    BY <1>4, LiveType, LoadedType DEF Delete, Begin
  <2>4. todo' \subseteq Work /\ target' \subseteq Nat
    BY <2>1, <2>2, LiveType DEF Work
  <2>5. TypeOK'
    BY <1>4, <2>3, <2>4 DEF TypeOK, Control, Kinds, disk, Delete, Begin, LoadsZeroFile
  <2>6. target' \cup Pending' \subseteq 1..Len(data)
    BY <2>1, <2>2, LiveType DEF Pending
  <2>7. QED
    BY <1>4, <2>5, <2>6 DEF Shape, disk, Delete, Begin
<1>5. ASSUME Collect
      PROVE  TypeOK' /\ Shape'
  <2>1. PICK item \in todo : /\ mem' \in IndexSetDeletes(mem, item.new)
                             /\ todo' = todo \ {item}
    BY <1>5 DEF Collect, First
  <2>2. IsIndexSet(mem') /\ todo' \subseteq Work
    BY <2>1, DeleteType DEF TypeOK, Work
  <2>3. TypeOK'
    BY <1>5, <2>2 DEF TypeOK, disk, Collect
  <2>4. Pending' \subseteq Pending
    BY <2>1 DEF Pending
  <2>5. QED
    BY <1>5, <2>3, <2>4 DEF Shape, disk, Collect
<1>6. ASSUME CollectDone
      PROVE  TypeOK' /\ Shape'
  <2>1. todo' = {[off |-> o, new |-> RowAt(o)] : o \in target}
    BY <1>6 DEF CollectDone
  <2>2. target \subseteq 1..Len(data)
    BY <1>6 DEF Shape, CollectDone
  <2>3. todo' \subseteq Work /\ Pending' \subseteq target
    BY <2>1, <2>2, LiveType DEF Work, Pending
  <2>4. TypeOK'
    BY <1>6, <2>3 DEF TypeOK, Control, disk, CollectDone
  <2>5. QED
    BY <1>6, <2>2, <2>3, <2>4 DEF Shape, disk, CollectDone
<1>7. ASSUME FlagRow
      PROVE  TypeOK' /\ Shape'
  <2>1. PICK item \in todo : data' = SetFlag(item.off) /\ todo' = todo \ {item}
    BY <1>7 DEF FlagRow, First
  <2>2. item.off \in 1..Len(data)
    BY <1>7, <2>1 DEF Shape, FlagRow, Pending
  <2>3. data' \in Seq([val : Row, deleted : BOOLEAN]) /\ Len(data') = Len(data)
    BY <2>1, <2>2, FlagType
  <2>4. TypeOK'
    BY <1>7, <2>1, <2>3 DEF TypeOK, FlagRow
  <2>5. Pending' \subseteq Pending
    BY <2>1 DEF Pending
  <2>6. QED
    BY <1>7, <2>3, <2>4, <2>5 DEF Shape, FlagRow
<1>8. ASSUME FlagDone
      PROVE  TypeOK' /\ Shape'
  BY <1>8 DEF TypeOK, Shape, Control, Kinds, disk, Defined, FlagDone, StartSave
<1>9. ASSUME NEW w \in Where, NEW asg \in Assignment, Update(w, asg)
      PROVE  TypeOK' /\ Shape'
  <2>1. PICK hits \in Hits(w) :
            /\ todo' = Pairs(hits, asg)
            /\ target' = {item.off : item \in Pairs(hits, asg)}
    BY <1>9 DEF Update
  <2>2. hits \subseteq Live
    BY HitsType
  <2>3. IsIndexSet(mem') /\ base' \subseteq Nat
    BY <1>9, LiveType, LoadedType DEF Update, Begin
  <2>4. todo' \subseteq Work
    BY <2>1, <2>2, PairsType
  <2>5. target' \cup Pending' \subseteq 1..Len(data)
    BY <2>1, <2>2, LiveType DEF Pairs, Pending
  <2>6. target' \subseteq Nat
    BY <2>1, <2>4 DEF Work
  <2>7. TypeOK'
    BY <1>9, <2>3, <2>4, <2>6 DEF TypeOK, Control, Kinds, disk, Update, Begin, LoadsZeroFile
  <2>8. QED
    BY <1>9, <2>5, <2>7 DEF Shape, disk, Update, Begin
<1>10. ASSUME NEW w \in Where, NEW asg \in Assignment, UpdateConflict(w, asg)
       PROVE  TypeOK' /\ Shape'
  BY <1>10 DEF TypeOK, Shape, disk, Defined, UpdateConflict, Refuse
<1>11. ASSUME MoveRow
       PROVE  TypeOK' /\ Shape'
  <2>1. PICK item \in todo : data' = SetFlag(item.off)
    BY <1>11 DEF MoveRow, First
  <2>2. item.off \in 1..Len(data)
    BY <1>11, <2>1 DEF Shape, MoveRow, Pending
  <2>3. data' \in Seq([val : Row, deleted : BOOLEAN]) /\ Len(data') = Len(data)
    BY <2>1, <2>2, FlagType
  <2>4. TypeOK'
    BY <1>11, <2>3 DEF TypeOK, Control, MoveRow
  <2>5. QED
    BY <1>11, <2>3, <2>4 DEF Shape, MoveRow, Pending
<1>12. ASSUME PlaceRow
       PROVE  TypeOK' /\ Shape'
  <2>1. PICK item \in todo : \E after \in IndexSetDeletes(mem, RowAt(item.off)) :
            /\ mem' = IndexSetInsert(after, item.new, EndOffset)
            /\ data' = Append1(item.new)
            /\ todo' = todo \ {item}
    BY <1>12 DEF PlaceRow, First
  <2>2. item.off \in 1..Len(data) /\ item.new \in Row /\ EndOffset \in Nat
    BY <1>12, <2>1, LenProperties DEF Shape, PlaceRow, Pending, TypeOK, Work, EndOffset
  <2>3. IsIndexSet(mem')
    BY <2>1, <2>2, LiveType, DeleteType, InsertType DEF TypeOK
  <2>4. data' \in Seq([val : Row, deleted : BOOLEAN]) /\ Len(data') = Len(data) + 1
    BY <2>1, <2>2, AppendType
  <2>5. TypeOK'
    BY <1>12, <2>1, <2>3, <2>4 DEF TypeOK, Control, PlaceRow
  <2>6. target' \cup Pending' \subseteq 1..Len(data')
    BY <1>12, <2>1, <2>4, LenProperties DEF Shape, PlaceRow, Pending, TypeOK
  <2>7. QED
    BY <1>12, <2>5, <2>6 DEF Shape, PlaceRow
<1>13. ASSUME MoveDone
       PROVE  TypeOK' /\ Shape'
  BY <1>13 DEF TypeOK, Shape, Control, Kinds, disk, Defined, MoveDone, StartSave
<1>14. ASSUME OpenIndex
       PROVE  TypeOK' /\ Shape'
  BY <1>14, FileExceptType, SpecialType, QueueHead DEF TypeOK, Shape, Control, Kinds, Defined, OpenIndex
<1>15. ASSUME WriteNodes
       PROVE  TypeOK' /\ Shape'
  BY <1>15, FileExceptType, SpecialType, QueueHead DEF TypeOK, Shape, Defined, WriteNodes
<1>16. ASSUME WriteRoot
       PROVE  TypeOK' /\ Shape'
  <2>1. queue # <<>> /\ Head(queue) \in Index /\ Tail(queue) \in Seq(Index)
    BY <1>16, QueueHead DEF Shape, WriteRoot
  <2>2. IsIndexSet(file')
    BY <1>16, <2>1, FileExceptType DEF WriteRoot, TypeOK, IsIndexSet
  <2>3. TypeOK'
    BY <1>16, <2>1, <2>2 DEF TypeOK, Control, WriteRoot, StartSave
  <2>4. CASE kind = "create_index"
    BY <1>16, <2>3, <2>4 DEF Shape, Defined, WriteRoot
  <2>5. CASE kind # "create_index"
    BY <1>16, <2>3, <2>5 DEF Shape, WriteRoot, StartSave
  <2>6. QED
    BY <2>4, <2>5
<1>17. ASSUME Acknowledge
       PROVE  TypeOK' /\ Shape'
  BY <1>17, SpecialType, EmptySeq DEF TypeOK, Shape, Control, Kinds, disk, Defined, Acknowledge, Finish, IsIndexSet
<1>18. ASSUME NEW i \in Index, CreateIndex(i)
       PROVE  TypeOK' /\ Shape'
  <2>1. mem' = [mem EXCEPT ![i] =
                  IF Live = {} THEN ZeroFile ELSE Tree(LiveEntries(i))]
    BY <1>18 DEF CreateIndex
  <2>2. LiveEntries(i) \subseteq EntryType(i)
    BY LiveType, EntryInType DEF LiveEntries
  <2>3. IsIndexSet(mem')
    BY <2>1, <2>2, TreeType, SpecialType DEF TypeOK, IsIndexSet
  <2>4. queue' \in Seq(Index) /\ Len(queue') = 1 /\ Head(queue') = i /\ queue' # <<>>
    BY <1>18 DEF CreateIndex
  <2>5. TypeOK'
    BY <1>18, <2>3, <2>4, LiveType DEF TypeOK, Control, Kinds, disk, CreateIndex, Begin
  <2>6. QED
    BY <1>18, <2>4, <2>5 DEF Shape, Defined, disk, CreateIndex, Begin
<1>19. ASSUME NEW i \in Index, CreateIndexDuplicate(i)
       PROVE  TypeOK' /\ Shape'
  BY <1>19 DEF TypeOK, Shape, disk, Defined, CreateIndexDuplicate, Refuse
<1>20. ASSUME DefineIndex
       PROVE  TypeOK' /\ Shape'
  <2>1. Head(queue) \in Index
    BY <1>20, QueueHead, EmptySeq DEF Shape, DefineIndex
  <2>2. TypeOK'
    BY <1>20, <2>1, AppendProperties DEF TypeOK, Control, DefineIndex
  <2>3. QED
    BY <1>20, <2>2 DEF Shape, DefineIndex
<1>21. ASSUME NEW p \in 1..Len(defs), DropIndex(p)
       PROVE  TypeOK' /\ Shape'
  <2>1. defs[p] \in Index
    BY ElementOfSeq DEF TypeOK
  <2>2. queue' \in Seq(Index) /\ Len(queue') = 1
    BY <1>21, <2>1 DEF DropIndex
  <2>3. TypeOK'
    BY <1>21, <2>2, WithoutType, LiveType DEF TypeOK, Control, Kinds, DropIndex, Begin
  <2>4. QED
    BY <1>21, <2>2, <2>3 DEF Shape, DropIndex, Begin
<1>22. ASSUME DropIndexFile
       PROVE  TypeOK' /\ Shape'
  <2>0. queue # <<>>
    BY <1>22, EmptySeq DEF Shape, DropIndexFile
  <2>1. IsIndexSet(file')
    BY <1>22, <2>0, FileExceptType, SpecialType, QueueHead DEF DropIndexFile
  <2>2. TypeOK'
    BY <1>22, <2>1, EmptySeq DEF TypeOK, Control, DropIndexFile
  <2>3. QED
    BY <1>22, <2>2 DEF Shape, DropIndexFile
<1>23. ASSUME Truncate
       PROVE  TypeOK' /\ Shape'
  <2>1. TypeOK'
    BY <1>23, LiveType, EmptySeq DEF TypeOK, Control, Kinds, Truncate, Begin
  <2>2. QED
    BY <1>23, <2>1 DEF Shape, Truncate, Begin
<1>24. ASSUME TruncateNoFile
       PROVE  TypeOK' /\ Shape'
  BY <1>24 DEF TypeOK, Shape, disk, Defined, TruncateNoFile, Refuse
<1>25. ASSUME RecreateData
       PROVE  TypeOK' /\ Shape'
  BY <1>25 DEF TypeOK, Shape, Control, Kinds, disk, Defined, RecreateData
<1>26. ASSUME PurgeIndex
       PROVE  TypeOK' /\ Shape'
  BY <1>26, FileExceptType, SpecialType, QueueHead DEF TypeOK, Shape, Defined, PurgeIndex
<1>27. ASSUME PurgeDone
       PROVE  TypeOK' /\ Shape'
  BY <1>27 DEF TypeOK, Shape, Control, Kinds, disk, Defined, PurgeDone, StartSave
<1>28. ASSUME NEW w \in Where, NEW ignoreIndex \in BOOLEAN, Select(w, ignoreIndex)
       PROVE  TypeOK' /\ Shape'
  BY <1>28 DEF TypeOK, Shape, disk, Defined, Select, Refuse
<1>29. ASSUME NEW w \in Where, Hang(w)
       PROVE  TypeOK' /\ Shape'
  BY <1>29, LiveType DEF TypeOK, Shape, Control, Kinds, disk, Defined, Hang, Begin
<1>30. ASSUME Die
       PROVE  TypeOK' /\ Shape'
  BY <1>30 DEF TypeOK, Shape, disk, Defined, Die, Refuse
<1>31. ASSUME Crash
       PROVE  TypeOK' /\ Shape'
  <2>1. IsIndexSet(mem') /\ damage' \subseteq {"stale", "lost", "truncate"}
    BY <1>31, SpecialType DEF TypeOK, Crash, Finish, Damage, IsIndexSet
  <2>2. TypeOK'
    BY <1>31, <2>1, EmptySeq DEF TypeOK, Control, Kinds, disk, Crash, Finish
  <2>3. QED
    BY <1>31, <2>2 DEF Shape, Crash, Finish
<1>32. CASE UNCHANGED vars
  BY <1>32 DEF TypeOK, Shape, vars, disk, Defined, Pending
<1>33. QED
  BY <1>1, <1>2, <1>3, <1>4, <1>5, <1>6, <1>7, <1>8, <1>9, <1>10, <1>11, <1>12, <1>13, <1>14, <1>15, <1>16, <1>17, <1>18, <1>19, <1>20, <1>21, <1>22, <1>23, <1>24, <1>25, <1>26, <1>27, <1>28, <1>29, <1>30, <1>31, <1>32 DEF Next, Statement, Step

\* Every variable of Table keeps its type: an index image, loaded or on disk,
\* holds keys over its own columns, and the rows, offsets and index names a
\* statement carries from one write to the next are of the table.
THEOREM TypeCorrect == Spec => []TypeOK
<1>1. Init => TypeOK /\ Shape
  BY InitType
<1>2. TypeOK /\ Shape /\ [Next]_vars => TypeOK' /\ Shape'
  BY NextType
<1>3. QED
  BY <1>1, <1>2, PTL DEF Spec

(***************************************************************************)
(* The data file only grows, and the indexes never point outside it.       *)
(***************************************************************************)
Extends(old, new) ==
    /\ Len(old) \in Nat /\ Len(new) \in Nat /\ Len(old) =< Len(new)
    /\ \A o \in 1..Len(old) :
        /\ new[o].val = old[o].val
        /\ old[o].deleted => new[o].deleted

LEMMA DataGrows ==
    ASSUME TypeOK, Shape, [Next]_vars
    PROVE  Extends(data, data') \/ Truncate
<1>1. Len(data) \in Nat
  BY LenProperties DEF TypeOK
<1>2. CASE data' = data
  BY <1>1, <1>2 DEF Extends
<1>3. ASSUME NEW item \in todo, data' = Append1(item.new)
      PROVE  Extends(data, data')
  <2>1. item.new \in Row
    BY DEF TypeOK, Work
  <2>2. /\ Len(data') = Len(data) + 1
        /\ \A o \in 1..Len(data) : data'[o] = data[o]
    BY <1>3, <2>1, AppendType
  <2>3. QED
    BY <1>1, <2>2 DEF Extends
<1>4. ASSUME NEW item \in todo, data' = SetFlag(item.off),
             pc \in {"flag", "move"}
      PROVE  Extends(data, data')
  <2>1. item.off \in 1..Len(data)
    BY <1>4 DEF Shape, Pending
  <2>2. /\ Len(data') = Len(data)
        /\ \A o \in 1..Len(data) :
            /\ data'[o].val = data[o].val
            /\ o = item.off => data'[o].deleted
            /\ o # item.off => data'[o] = data[o]
    BY <1>4, <2>1, FlagType
  <2>3. QED
    BY <1>1, <2>2 DEF Extends
<1>5. CASE AppendRow \/ PlaceRow
  BY <1>3, <1>5 DEF AppendRow, PlaceRow, First
<1>6. CASE FlagRow \/ MoveRow
  BY <1>4, <1>6 DEF FlagRow, MoveRow, First
<1>7. CASE Statement
  BY <1>2, <1>7 DEF Statement, Insert, InsertDuplicate, Delete, Update,
     UpdateConflict, Select, Hang, CreateIndex, CreateIndexDuplicate,
     DropIndex, TruncateNoFile, Die, Refuse, disk
<1>8. CASE UNCHANGED vars \/ Crash
  BY <1>2, <1>8 DEF vars, Crash, disk
<1>9. CASE Step
  BY <1>2, <1>5, <1>6, <1>9 DEF Step, Collect, CollectDone, FlagDone,
     MoveDone, OpenIndex, WriteNodes, WriteRoot, Acknowledge, DefineIndex,
     DropIndexFile, RecreateData, PurgeIndex, PurgeDone, disk
<1>10. QED
  BY <1>7, <1>8, <1>9 DEF Next

\* A row, once written, is only ever flagged: what an index holds an offset of
\* stays where it is until TRUNCATE removes the file.
THEOREM RowsStay == Spec => AppendOnly
<1>1. Init => TypeOK /\ Shape
  BY InitType
<1>2. TypeOK /\ Shape /\ [Next]_vars => TypeOK' /\ Shape'
  BY NextType
<1>3. TypeOK /\ Shape /\ [Next]_vars =>
        [exists' =>
            /\ Len(data') >= Len(data)
            /\ \A o \in 1..Len(data) :
                /\ data'[o].val = data[o].val
                /\ data[o].deleted => data'[o].deleted]_vars
  BY DataGrows DEF Extends, Truncate
<1>4. QED
  BY <1>1, <1>2, <1>3, PTL DEF Spec, AppendOnly

LEMMA InitTruncate == Init => TruncateInv
BY DEF Init, TruncateInv

\* TRUNCATE leaves nothing in an index file.
LEMMA NextTruncate ==
    TypeOK /\ Shape /\ TruncateInv /\ [Next]_vars => TruncateInv'
<1> SUFFICES ASSUME TypeOK, Shape, TruncateInv, [Next]_vars
             PROVE  TruncateInv'
  OBVIOUS
<1> USE DEF TruncateInv, disk
<1>1. CASE kind = "truncate" /\ PurgeDone
  BY <1>1 DEF PurgeDone, StartSave, Defined, InQueue
<1>2. CASE kind = "truncate" /\ OpenIndex
  <2>1. \A i \in Index : file'[i] = file[i] \/ file'[i] = ZeroFile
    BY <1>2 DEF OpenIndex, TypeOK, IsIndexSet
  <2>2. QED
    BY <1>2, <2>1, SpecialType DEF OpenIndex, Defined, InQueue, TypeOK
<1>3. CASE kind = "truncate" /\ WriteRoot
  <2>1. PICK h \in Index : h = Head(queue)
    BY <1>3, QueueHead DEF Shape, WriteRoot
  <2>2. file'[h].entries = {} /\ \A i \in Index \ {h} : file'[i] = file[i]
    BY <1>3, <2>1, SpecialType DEF WriteRoot, TypeOK, IsIndexSet
  <2>3. queue' = Tail(queue) /\ pc' \in {"save", "ack"}
    BY <1>3 DEF WriteRoot, StartSave
  <2>4. InQueue \subseteq InQueue' \cup {h}
    <3>1. /\ Len(queue') = Len(queue) - 1 /\ Len(queue) \in Nat \ {0}
          /\ \A p \in 1..Len(queue') : queue'[p] = queue[p + 1]
          /\ h = queue[1]
      BY <1>3, <2>1, <2>3, QueueHead DEF Shape, WriteRoot
    <3>2. ASSUME NEW p \in 1..Len(queue), p # 1
          PROVE  p - 1 \in 1..Len(queue') /\ queue'[p - 1] = queue[p]
      BY <3>1, <3>2
    <3>3. QED
      BY <3>1, <3>2 DEF InQueue
  <2>5. Defined' = Defined /\ Defined \subseteq Index
    BY <1>3, ElementOfSeq DEF WriteRoot, Defined, TypeOK
  <2>6. QED
    BY <1>3, <2>2, <2>3, <2>4, <2>5 DEF WriteRoot
<1>4. CASE kind = "truncate" /\ UNCHANGED vars
  BY <1>4 DEF vars, Defined, InQueue
<1>5. CASE Statement
  BY <1>5 DEF Statement, Insert, InsertDuplicate, Delete, Update, UpdateConflict,
     Select, Hang, CreateIndex, CreateIndexDuplicate, DropIndex, Truncate,
     TruncateNoFile, Die, Refuse, Begin, Shape
<1>6. CASE Crash \/ Acknowledge
  BY <1>6 DEF Crash, Acknowledge, Finish
<1>7. CASE kind # "truncate" /\ UNCHANGED vars
  BY <1>7 DEF vars
<1>8. CASE Step /\ kind # "truncate"
  BY <1>8, <1>6 DEF Step, AppendRow, Collect, CollectDone, FlagRow, FlagDone,
     MoveRow, PlaceRow, MoveDone, OpenIndex, WriteNodes, WriteRoot,
     DefineIndex, DropIndexFile, RecreateData, PurgeIndex, PurgeDone, Shape
<1>9. CASE Step /\ kind = "truncate"
  <2>1. CASE WriteNodes
    <3>1. Head(queue) \in Index
      BY <2>1, QueueHead DEF Shape, WriteNodes
    <3>2. QED
      BY <1>9, <2>1, <3>1 DEF WriteNodes, ZeroFile
  <2>2. CASE RecreateData \/ PurgeIndex
    BY <1>9, <2>2 DEF RecreateData, PurgeIndex
  <2>3. ~(AppendRow \/ Collect \/ CollectDone \/ FlagRow \/ FlagDone \/ MoveRow
           \/ PlaceRow \/ MoveDone \/ DefineIndex \/ DropIndexFile)
    BY <1>9 DEF AppendRow, Collect, CollectDone, FlagRow, FlagDone, MoveRow,
       PlaceRow, MoveDone, DefineIndex, DropIndexFile
  <2>4. QED
    BY <1>1, <1>2, <1>3, <1>6, <1>9, <2>1, <2>2, <2>3 DEF Step
<1>10. QED
  BY <1>4, <1>5, <1>6, <1>7, <1>8, <1>9 DEF Next

LEMMA HomeExtends ==
    ASSUME NEW old, NEW new, Extends(old, new), NEW i, NEW entries,
           PointsHome(old, i, entries)
    PROVE  PointsHome(new, i, entries)
BY DEF Extends, PointsHome

LEMMA HomeSubset ==
    ASSUME NEW rows, NEW i, NEW entries, NEW fewer \in SUBSET entries,
           PointsHome(rows, i, entries)
    PROVE  PointsHome(rows, i, fewer)
BY DEF PointsHome

LEMMA DeleteSubset ==
    ASSUME NEW m, NEW row, NEW after \in IndexSetDeletes(m, row), NEW i \in Index
    PROVE  after[i].entries \subseteq m[i].entries
<1>1. after[i] \in AfterDelete(m, row, i)
  BY DEF IndexSetDeletes
<1>2. CASE ~Reached(m, row, i)
  BY <1>1, <1>2 DEF AfterDelete
<1>3. CASE Reached(m, row, i)
  BY <1>1, <1>3 DEF AfterDelete, Removals, Tree
<1>4. QED
  BY <1>2, <1>3

LEMMA HomeInsert ==
    ASSUME TypeOK, NEW m, NEW row \in Row, NEW i \in Index,
           PointsHome(data, i, m[i].entries)
    PROVE  PointsHome(Append1(row), i, IndexSetInsert(m, row, EndOffset)[i].entries)
<1>1. Extends(data, Append1(row))
  <2>1. /\ Len(data) \in Nat
        /\ Len(Append1(row)) = Len(data) + 1
        /\ \A o \in 1..Len(data) : Append1(row)[o] = data[o]
    BY AppendType, LenProperties DEF TypeOK
  <2>2. QED
    BY <2>1 DEF Extends
<1>2. PointsHome(Append1(row), i, m[i].entries)
  BY <1>1, HomeExtends
<1>3. /\ Append1(row)[EndOffset].val = row
      /\ EndOffset \in 1..Len(Append1(row))
      /\ EndOffset \in Nat
  <2>1. Len(data) \in Nat
    BY LenProperties DEF TypeOK
  <2>2. /\ Len(Append1(row)) = Len(data) + 1
        /\ Append1(row)[Len(data) + 1] = [val |-> row, deleted |-> FALSE]
    BY AppendType
  <2>3. QED
    BY <2>1, <2>2 DEF EndOffset
<1>4. /\ Entry(i, row, EndOffset).off = EndOffset
      /\ Entry(i, row, EndOffset).key = KeyOf(i, row)
  BY DEF Entry
<1>5. PointsHome(Append1(row), i, m[i].entries \cup {Entry(i, row, EndOffset)})
  BY <1>2, <1>3, <1>4 DEF PointsHome
<1>6. IndexSetInsert(m, row, EndOffset)[i].entries \in
        {m[i].entries, m[i].entries \cup {Entry(i, row, EndOffset)}}
  BY DEF IndexSetInsert, Tree
<1>7. QED
  BY <1>2, <1>5, <1>6

LEMMA HomeLoaded ==
    ASSUME TypeOK, \A i \in Defined : PointsHome(data, i, file[i].entries)
    PROVE  \A i \in Index : PointsHome(data, i, Loaded[i].entries)
BY SpecialType DEF Loaded, PointsHome

LEMMA FaithfulRow ==
    ASSUME FaithfulValues, NEW row \in Row
    PROVE  ReadRow(row) = row
BY TableAssumption DEF FaithfulValues, ReadRow, Row

LEMMA HomeLive ==
    ASSUME FaithfulValues, TypeOK, NEW i \in Index
    PROVE  PointsHome(data, i, LiveEntries(i))
<1>1. \A o \in Live : o \in 1..Len(data) /\ RowAt(o) = data[o].val
  BY LiveType, FaithfulRow DEF RowAt
<1>2. QED
  BY <1>1 DEF PointsHome, LiveEntries, Entry

LEMMA InitHome == Init => HomeInv
BY SpecialType DEF Init, HomeInv, Defined, PointsHome

LEMMA NextHome ==
    ASSUME FaithfulValues, TypeOK, Shape, TruncateInv, HomeInv, [Next]_vars
    PROVE  HomeInv'
<1> SUFFICES ASSUME kind' # "truncate", "truncate" \notin damage'
             PROVE  /\ \A i \in Defined' : PointsHome(data', i, file'[i].entries)
                    /\ \A i \in Index : PointsHome(data', i, mem'[i].entries)
                    /\ pc' = "define" =>
                        PointsHome(data', Head(queue'), file'[Head(queue')].entries)
  BY DEF HomeInv
<1> DEFINE FilesHome == \A i \in Defined' : PointsHome(data', i, file'[i].entries)
           MemHome == \A i \in Index : PointsHome(data', i, mem'[i].entries)
           NewHome == pc' = "define" =>
               PointsHome(data', Head(queue'), file'[Head(queue')].entries)
<1> HIDE DEF FilesHome, MemHome, NewHome
<1>0. SUFFICES FilesHome /\ MemHome /\ NewHome
  BY DEF FilesHome, MemHome, NewHome
<1>a. Defined \subseteq Index
  BY ElementOfSeq DEF Defined, TypeOK
<1>b. (\A i \in Index : mem'[i] = ZeroFile) => MemHome
  BY SpecialType DEF MemHome, PointsHome
<1>1. CASE kind = "truncate"
  <2>1. /\ Crash \/ Acknowledge
        /\ pc = "ack"
    <3>1. Crash \/ Acknowledge
      BY <1>1 DEF Next, Statement, Step, Insert, InsertDuplicate, Delete, Update,
         UpdateConflict, Select, Hang, CreateIndex, CreateIndexDuplicate, DropIndex,
         Truncate, TruncateNoFile, Die, Refuse, AppendRow, Collect, CollectDone,
         FlagRow, FlagDone, MoveRow, PlaceRow, MoveDone, OpenIndex, WriteNodes,
         WriteRoot, DefineIndex, DropIndexFile, RecreateData, PurgeIndex, PurgeDone,
         vars, Shape, disk
    <3>2. QED
      BY <1>1, <3>1 DEF Crash, Acknowledge, Damage
  <2>2. /\ data' = data /\ file' = file /\ Defined' = Defined
        /\ pc' = "idle"
        /\ \A i \in Index : mem'[i] = ZeroFile
    BY <2>1 DEF Crash, Acknowledge, Finish, disk, Defined
  <2>3. InQueue = {}
    BY <2>1, EmptySeq DEF Shape, InQueue
  <2>4. \A i \in Defined : file[i].entries = {}
    BY <1>1, <2>1, <2>3 DEF TruncateInv
  <2>5. QED
    BY <1>b, <2>2, <2>4 DEF FilesHome, NewHome, PointsHome
<1>2. CASE kind # "truncate"
  <2>1. /\ \A i \in Defined : PointsHome(data, i, file[i].entries)
        /\ \A i \in Index : PointsHome(data, i, mem[i].entries)
        /\ pc = "define" =>
            PointsHome(data, Head(queue), file[Head(queue)].entries)
    <3>1. damage \subseteq damage'
      BY DEF Next, Statement, Step, Insert, InsertDuplicate, Delete, Update,
         UpdateConflict, Select, Hang, CreateIndex, CreateIndexDuplicate, DropIndex,
         Truncate, TruncateNoFile, Die, Refuse, Begin, AppendRow, Collect, CollectDone,
         FlagRow, FlagDone, MoveRow, PlaceRow, MoveDone, OpenIndex, WriteNodes,
         WriteRoot, Acknowledge, DefineIndex, DropIndexFile, RecreateData, PurgeIndex,
         PurgeDone, Crash, vars
    <3>2. QED
      BY <1>2, <3>1 DEF HomeInv
  <2>2. Extends(data, data')
    BY DataGrows DEF Truncate, Begin
  <2>3. ASSUME NEW i, NEW entries, PointsHome(data, i, entries)
        PROVE  PointsHome(data', i, entries)
    BY <2>2, <2>3, HomeExtends
  <2>4. UNCHANGED <<file, defs>> => FilesHome
    BY <2>1, <2>3 DEF FilesHome, Defined
  <2>5. UNCHANGED mem => MemHome
    BY <2>1, <2>3 DEF MemHome
  <2>6. ASSUME NEW row \in Row, Insert(row)
        PROVE  FilesHome /\ MemHome /\ NewHome
    BY <2>1, <2>3, <2>4, <2>6, HomeLoaded DEF Insert, disk, Begin, MemHome, NewHome
  <2>7. ASSUME NEW w \in Where, Delete(w) \/ \E asg \in Assignment : Update(w, asg)
        PROVE  FilesHome /\ MemHome /\ NewHome
    BY <2>1, <2>3, <2>4, <2>7, HomeLoaded DEF Delete, Update, disk, Begin, MemHome, NewHome
  <2>8. CASE AppendRow
    <3>1. PICK item \in todo : /\ data' = Append1(item.new)
                               /\ mem' = IndexSetInsert(mem, item.new, EndOffset)
      BY <2>8 DEF AppendRow
    <3>2. item.new \in Row
      BY DEF TypeOK, Work
    <3>3. MemHome
      BY <2>1, <3>1, <3>2, HomeInsert DEF MemHome
    <3>4. QED
      BY <2>4, <2>8, <3>3 DEF AppendRow, StartSave, NewHome
  <2>9. CASE Collect
    <3>1. PICK row : mem' \in IndexSetDeletes(mem, row)
      BY <2>9 DEF Collect
    <3>2. MemHome
      BY <2>1, <2>3, <3>1, DeleteSubset, HomeSubset DEF MemHome
    <3>3. QED
      BY <2>4, <2>9, <3>2 DEF Collect, disk, NewHome
  <2>10. CASE PlaceRow
    <3>1. PICK item \in todo : \E after \in IndexSetDeletes(mem, RowAt(item.off)) :
              /\ mem' = IndexSetInsert(after, item.new, EndOffset)
              /\ data' = Append1(item.new)
      BY <2>10 DEF PlaceRow, First
    <3>2. PICK after \in IndexSetDeletes(mem, RowAt(item.off)) :
              /\ mem' = IndexSetInsert(after, item.new, EndOffset)
              /\ data' = Append1(item.new)
      BY <3>1
    <3>3. item.new \in Row
      BY DEF TypeOK, Work
    <3>4. \A i \in Index : PointsHome(data, i, after[i].entries)
      BY <2>1, DeleteSubset, HomeSubset
    <3>5. MemHome
      BY <3>2, <3>3, <3>4, HomeInsert DEF MemHome
    <3>6. QED
      BY <2>4, <2>10, <3>5 DEF PlaceRow, NewHome
  <2>11. ASSUME NEW i \in Index, CreateIndex(i)
         PROVE  FilesHome /\ MemHome /\ NewHome
    <3>1. mem'[i].entries \subseteq LiveEntries(i)
      BY <2>11, SpecialType DEF CreateIndex, Tree, TypeOK, IsIndexSet
    <3>2. \A j \in Index \ {i} : mem'[j] = mem[j]
      BY <2>11 DEF CreateIndex, TypeOK, IsIndexSet
    <3>3. PointsHome(data, i, mem'[i].entries)
      BY <3>1, HomeLive, HomeSubset
    <3>4. MemHome
      BY <2>1, <2>3, <3>2, <3>3 DEF MemHome
    <3>5. QED
      BY <2>4, <2>11, <3>4 DEF CreateIndex, disk, Begin, NewHome
  <2>12. CASE OpenIndex \/ WriteNodes \/ DropIndexFile
    <3>1. \A i \in Index : file'[i] = file[i] \/ file'[i] \in {ZeroFile, TornFile, NoFile}
      BY <2>12 DEF OpenIndex, WriteNodes, DropIndexFile, TypeOK, IsIndexSet
    <3>2. \A i \in Index : file'[i] = file[i] \/ file'[i].entries = {}
      BY <3>1, SpecialType
    <3>3. data' = data /\ Defined' = Defined
      BY <2>12 DEF OpenIndex, WriteNodes, DropIndexFile, Defined
    <3>4. FilesHome
      BY <1>a, <2>1, <3>2, <3>3 DEF FilesHome, PointsHome
    <3>5. QED
      BY <2>5, <2>12, <3>4 DEF OpenIndex, WriteNodes, DropIndexFile, NewHome
  <2>13. CASE WriteRoot
    <3>1. PICK h \in Index : h = Head(queue)
      BY <2>13, QueueHead DEF Shape, WriteRoot
    <3>2. file'[h] = mem[h] /\ \A i \in Index \ {h} : file'[i] = file[i]
      BY <2>13, <3>1 DEF WriteRoot, TypeOK, IsIndexSet
    <3>3. PointsHome(data, h, file'[h].entries)
      BY <2>1, <3>2
    <3>4. data' = data /\ Defined' = Defined
      BY <2>13 DEF WriteRoot, Defined
    <3>5. FilesHome
      BY <1>a, <2>1, <3>2, <3>3, <3>4 DEF FilesHome
    <3>6. NewHome
      BY <2>13, <3>1, <3>3 DEF WriteRoot, StartSave, NewHome
    <3>7. QED
      BY <2>5, <2>13, <3>5, <3>6 DEF WriteRoot
  <2>14. CASE DefineIndex
    <3>1. Head(queue) \in Index
      BY <2>14, QueueHead, EmptySeq DEF Shape, DefineIndex
    <3>2. Defined' \subseteq Defined \cup {Head(queue)}
      <4>1. /\ Len(defs') = Len(defs) + 1 /\ Len(defs) \in Nat
            /\ defs'[Len(defs) + 1] = Head(queue)
            /\ \A p \in 1..Len(defs) : defs'[p] = defs[p]
        BY <2>14, <3>1, AppendProperties, LenProperties DEF DefineIndex, TypeOK
      <4>2. QED
        BY <4>1 DEF Defined
    <3>3. data' = data /\ file' = file /\ pc' = "ack" /\ pc = "define"
      BY <2>14 DEF DefineIndex
    <3>4. FilesHome
      BY <2>1, <3>2, <3>3 DEF FilesHome
    <3>5. QED
      BY <2>5, <2>14, <3>3, <3>4 DEF DefineIndex, NewHome
  <2>15. ASSUME NEW p \in 1..Len(defs), DropIndex(p)
         PROVE  FilesHome /\ MemHome /\ NewHome
    <3>1. Defined' \subseteq Defined
      <4>1. /\ Len(defs) \in Nat
            /\ defs' = [q \in 1..(Len(defs) - 1) |-> IF q < p THEN defs[q] ELSE defs[q + 1]]
            /\ defs' \in Seq(Index)
        BY <2>15, LenProperties, WithoutType DEF DropIndex, Without, TypeOK
      <4>2. 1..Len(defs') = 1..(Len(defs) - 1)
        BY <4>1, LenProperties
      <4>3. \A q \in 1..Len(defs') : \E r \in 1..Len(defs) : defs'[q] = defs[r]
        BY <4>1, <4>2
      <4>4. QED
        BY <4>3 DEF Defined
    <3>2. FilesHome
      BY <2>1, <2>3, <2>15, <3>1 DEF FilesHome, DropIndex
    <3>3. QED
      BY <2>5, <2>15, <3>2 DEF DropIndex, Begin, NewHome
  <2>16. CASE Crash \/ Acknowledge
    BY <1>b, <2>4, <2>16 DEF Crash, Acknowledge, Finish, disk, NewHome
  <2>17. CASE CollectDone \/ FlagRow \/ FlagDone \/ MoveRow \/ MoveDone
    BY <2>4, <2>5, <2>17 DEF CollectDone, FlagRow, FlagDone, MoveRow, MoveDone,
       StartSave, disk, NewHome
  <2>18. CASE RecreateData \/ PurgeIndex \/ PurgeDone
    BY <1>2, <2>18 DEF RecreateData, PurgeIndex, PurgeDone, Shape
  <2>19. CASE UNCHANGED vars
    BY <2>1, <2>19 DEF vars, FilesHome, MemHome, NewHome, Defined
  <2>20. CASE Statement
    <3>1. ASSUME UNCHANGED <<disk, mem>>, pc' \in {"idle", "hung"}
          PROVE  FilesHome /\ MemHome /\ NewHome
      BY <2>4, <2>5, <3>1 DEF disk, NewHome
    <3>2. QED
      BY <2>6, <2>7, <2>11, <2>15, <2>20, <3>1 DEF Statement, InsertDuplicate,
         UpdateConflict, Select, Hang, CreateIndexDuplicate, Truncate,
         TruncateNoFile, Die, Refuse, Begin
  <2>21. QED
    BY <2>8, <2>9, <2>10, <2>12, <2>13, <2>14, <2>16, <2>17, <2>18, <2>19, <2>20
       DEF Next, Step
<1>3. QED
  BY <1>1, <1>2

\* Where values are read back as they were written, no crash short of one
\* inside TRUNCATE leaves an index file with an entry for a row that is not in
\* the data file, or for a row of another key: the row is on disk before the
\* index is.
THEOREM EntriesAlwaysPointHome ==
    ASSUME FaithfulValues
    PROVE  Spec => []EntriesPointHome
<1> DEFINE Inv == TypeOK /\ Shape /\ TruncateInv /\ HomeInv
<1>1. Init => Inv
  BY InitType, InitTruncate, InitHome
<1>2. Inv /\ [Next]_vars => Inv'
  BY NextType, NextTruncate, NextHome
<1>3. Inv => EntriesPointHome
  BY DEF HomeInv, EntriesPointHome, PointsHome
<1>4. QED
  BY <1>1, <1>2, <1>3, PTL DEF Spec

(***************************************************************************)
(* Operators on one index.                                                 *)
(***************************************************************************)
LEMMA DefinedIndexes ==
    ASSUME TypeOK
    PROVE  Defined \subseteq Index
BY ElementOfSeq DEF Defined, TypeOK

LEMMA EntryIs ==
    ASSUME NEW i, NEW row, NEW o
    PROVE  Entry(i, row, o).key = KeyOf(i, row) /\ Entry(i, row, o).off = o
BY DEF Entry

LEMMA HomeEntry ==
    ASSUME TypeOK, NEW i \in Index, NEW m, IsIndexSet(m),
           PointsHome(data, i, m[i].entries), NEW e \in m[i].entries
    PROVE  e = Entry(i, data[e.off].val, e.off) /\ e.off \in 1..Len(data)
<1>1. e \in EntryType(i)
  BY DEF IsIndexSet, Image
<1>2. e = [key |-> e.key, off |-> e.off]
  BY <1>1 DEF EntryType
<1>3. QED
  BY <1>2 DEF PointsHome, Entry

\* Where every index has the entry of a row, and each key once, deleting the
\* row's key takes that entry out of every index, and nothing else.
LEMMA DeleteExact ==
    ASSUME TypeOK, NEW m, NEW row, NEW o, NEW after \in IndexSetDeletes(m, row),
           \A j \in Defined :
                Entry(j, row, o) \in m[j].entries /\ KeyedOnce(m[j].entries),
           NEW i \in Defined
    PROVE  after[i].entries = m[i].entries \ {Entry(i, row, o)}
<1>1. i \in Index /\ after[i] \in AfterDelete(m, row, i)
  BY DefinedIndexes DEF IndexSetDeletes
<1>2. \A j \in Defined : Entry(j, row, o) \in EntriesFor(m[j], KeyOf(j, row))
  BY EntryIs DEF EntriesFor
<1>3. \A p \in 1..Len(defs) : defs[p] \in Defined
  BY DEF Defined
<1>4. Len(defs) \in Nat
  BY LenProperties DEF TypeOK
<1>5. Reached(m, row, i)
  <2>1. PICK p \in 1..Len(defs) : defs[p] = i
    BY DEF Defined
  <2>2. \A q \in 1..p : q \in 1..Len(defs)
    BY <1>4, <2>1
  <2>3. QED
    BY <1>2, <1>3, <2>1, <2>2 DEF Reached
<1>6. PICK e \in EntriesFor(m[i], KeyOf(i, row)) : after[i] = Tree(m[i].entries \ {e})
  BY <1>1, <1>5 DEF AfterDelete, Removals
<1>7. e = Entry(i, row, o)
  BY <1>6, EntryIs DEF EntriesFor, KeyedOnce
<1>8. QED
  BY <1>6, <1>7 DEF Tree

LEMMA InsertExact ==
    ASSUME TypeOK, NEW m, NEW row, NEW o, NEW i \in Defined
    PROVE  IndexSetInsert(m, row, o)[i].entries = m[i].entries \cup {Entry(i, row, o)}
BY DefinedIndexes DEF IndexSetInsert, Tree

LEMMA LoadedIsFile ==
    ASSUME TypeOK, NEW i \in Defined
    PROVE  Loaded[i] = file[i]
BY DefinedIndexes DEF Loaded

\* Faithful keys tell rows apart exactly as batch_check_unique_keys does.
LEMMA FaithfulKey ==
    ASSUME FaithfulKeys, NEW i \in Index, NEW r \in Row, NEW s \in Row,
           KeyOf(i, r) = KeyOf(i, s)
    PROVE  \A c \in IndexCols[i] : r[c] = s[c]
<1> SUFFICES ASSUME NEW c \in IndexCols[i] PROVE r[c] = s[c]
  OBVIOUS
<1>1. c \in Column /\ r[c] \in Value /\ s[c] \in Value
  BY TableAssumption DEF Row
<1>2. KeyPart[i][c][r[c]] = KeyPart[i][c][s[c]]
  BY DEF KeyOf
<1>3. QED
  BY <1>1, <1>2 DEF FaithfulKeys

LEMMA FaithfulRead ==
    ASSUME FaithfulValues, TypeOK, NEW o \in 1..Len(data)
    PROVE  RowAt(o) = data[o].val /\ data[o].val \in Row
BY LiveType, FaithfulRow DEF RowAt

\* What flagging and appending do to the set of live rows.
LEMMA FlagLive ==
    ASSUME TypeOK, NEW o \in 1..Len(data), data' = SetFlag(o)
    PROVE  /\ Live' = Live \ {o}
           /\ Len(data') = Len(data)
           /\ \A p \in 1..Len(data) : data'[p].val = data[p].val
<1>1. /\ Len(data') = Len(data)
      /\ \A p \in 1..Len(data) :
            /\ data'[p].val = data[p].val
            /\ p = o => data'[p].deleted
            /\ p # o => data'[p] = data[p]
  BY FlagType
<1>2. QED
  BY <1>1 DEF Live

LEMMA AppendLive ==
    ASSUME TypeOK, NEW row \in Row, data' = Append1(row)
    PROVE  /\ Live' = Live \cup {EndOffset}
           /\ EndOffset \notin 1..Len(data)
           /\ EndOffset \in Nat
           /\ Len(data') = Len(data) + 1
           /\ data'[EndOffset].val = row
           /\ \A p \in 1..Len(data) : data'[p].val = data[p].val
<1>1. Len(data) \in Nat
  BY LenProperties DEF TypeOK
<1>2. /\ Len(data') = Len(data) + 1
      /\ \A p \in 1..Len(data) : data'[p] = data[p]
      /\ data'[Len(data) + 1] = [val |-> row, deleted |-> FALSE]
  BY AppendType
<1>3. 1..Len(data') = 1..Len(data) \cup {EndOffset} /\ EndOffset \notin 1..Len(data)
  BY <1>1, <1>2 DEF EndOffset
<1>4. QED
  BY <1>1, <1>2, <1>3 DEF Live, EndOffset

(***************************************************************************)
(* What keeps an index sound.                                              *)
(***************************************************************************)
LEMMA SoundSame ==
    ASSUME NEW old, NEW new, NEW i, NEW entries, NEW offs, NEW flaws,
           Sound(old, i, entries, offs, flaws),
           \A o \in offs : new[o].val = old[o].val
    PROVE  Sound(new, i, entries, offs, flaws)
BY DEF Sound, Covers

\* An index of more rows than it need be of has stale entries.
LEMMA SoundStale ==
    ASSUME NEW rows, NEW i, NEW entries, NEW offs, NEW flaws,
           Sound(rows, i, entries, offs, flaws),
           NEW fewer \in SUBSET offs, NEW more, more # {}
    PROVE  Sound(rows, i, entries, fewer, more)
BY DEF Sound, Covers

LEMMA SoundInsert ==
    ASSUME NEW rows, NEW i, NEW entries, NEW offs, NEW flaws,
           Sound(rows, i, entries, offs, flaws),
           NEW o, NEW row, rows[o].val = row,
           \A e \in entries : e.key # KeyOf(i, row)
    PROVE  Sound(rows, i, entries \cup {Entry(i, row, o)}, offs \cup {o}, flaws)
<1> DEFINE after == entries \cup {Entry(i, row, o)}
<1>1. Covers(rows, i, after, offs \cup {o})
  BY DEF Sound, Covers
<1>2. KeyedOnce(after)
  BY EntryIs DEF Sound, KeyedOnce
<1>3. flaws = {} => Within(after, offs \cup {o})
  BY EntryIs DEF Sound, Within
<1>4. QED
  BY <1>1, <1>2, <1>3 DEF Sound

LEMMA SoundDelete ==
    ASSUME NEW rows, NEW i, NEW entries, NEW offs, NEW flaws,
           Sound(rows, i, entries, offs, flaws),
           \A e \in entries : e = Entry(i, rows[e.off].val, e.off),
           NEW o \in offs
    PROVE  Sound(rows, i, entries \ {Entry(i, rows[o].val, o)}, offs \ {o}, flaws)
<1> DEFINE after == entries \ {Entry(i, rows[o].val, o)}
<1>1. Covers(rows, i, after, offs \ {o})
  BY EntryIs DEF Sound, Covers
<1>2. KeyedOnce(after)
  BY DEF Sound, KeyedOnce
<1>3. flaws = {} => Within(after, offs \ {o})
  BY EntryIs DEF Sound, Within
<1>4. QED
  BY <1>1, <1>2, <1>3 DEF Sound

\* The work of a DELETE is at the offsets it has found.
LEMMA WorkOffsets ==
    ASSUME NEW items, NEW offs, items = {[off |-> o, new |-> RowAt(o)] : o \in offs}
    PROVE  {item.off : item \in items} = offs
<1>1. \A o \in offs : \E item \in items : item.off = o
  <2>1. \A o \in offs : [off |-> o, new |-> RowAt(o)] \in items
    OBVIOUS
  <2>2. \A o \in offs : [off |-> o, new |-> RowAt(o)].off = o
    OBVIOUS
  <2>3. QED
    BY <2>1, <2>2
<1>2. \A item \in items : item.off \in offs
  OBVIOUS
<1>3. QED
  BY <1>1, <1>2

(***************************************************************************)
(* The names of the indexes, and images without a root.                    *)
(***************************************************************************)
LEMMA NextNames ==
    ASSUME TypeOK, Shape, NamesInv, [Next]_vars
    PROVE  NamesInv'
<1> USE DEF NamesInv
<1>0. Len(defs) \in Nat /\ \A p \in 1..Len(defs) : defs[p] \in Index
  BY LenProperties, ElementOfSeq DEF TypeOK
<1>1. CASE DefineIndex
  <2>1. /\ Head(queue) \in Index
        /\ Head(queue) \notin Defined
    BY <1>1, QueueHead, EmptySeq DEF Shape, DefineIndex
  <2>2. /\ Len(defs') = Len(defs) + 1
        /\ defs'[Len(defs) + 1] = Head(queue)
        /\ \A p \in 1..Len(defs) : defs'[p] = defs[p]
    BY <1>1, <2>1, AppendProperties DEF DefineIndex, TypeOK
  <2>3. QED
    BY <1>0, <1>1, <2>1, <2>2 DEF DefineIndex, Defined
<1>2. ASSUME NEW p \in 1..Len(defs), DropIndex(p)
      PROVE  NamesInv'
  <2>1. /\ Len(defs') = Len(defs) - 1
        /\ \A q \in 1..Len(defs') : defs'[q] = IF q < p THEN defs[q] ELSE defs[q + 1]
    BY <1>0, <1>2, WithoutType, LenProperties DEF DropIndex, Without
  <2>2. queue' = <<defs[p]>> /\ Head(queue') = defs[p]
    BY <1>2 DEF DropIndex
  <2>3. \A q \in 1..Len(defs') : \E r \in 1..Len(defs) \ {p} :
            defs'[q] = defs[r] /\ r = IF q < p THEN q ELSE q + 1
    BY <1>0, <2>1
  <2>4. \A q \in 1..Len(defs') : defs'[q] # defs[p]
    BY <2>3
  <2>5. \A q, r \in 1..Len(defs') : defs'[q] = defs'[r] => q = r
    BY <1>0, <2>1, <2>3
  <2>6. QED
    BY <2>2, <2>4, <2>5 DEF Defined
<1>3. CASE UNCHANGED <<defs, pc, queue>>
  BY <1>3 DEF Defined
<1>4. ASSUME UNCHANGED defs, pc' # "unlink"
      PROVE  NamesInv'
  BY <1>4
<1>5. CASE Statement
  BY <1>2, <1>3, <1>4, <1>5 DEF Statement, Insert, InsertDuplicate, Delete, Update,
     UpdateConflict, Select, Hang, CreateIndex, CreateIndexDuplicate, Truncate,
     TruncateNoFile, Die, Refuse, Begin, disk
<1>6. CASE Step
  BY <1>1, <1>3, <1>4, <1>6 DEF Step, AppendRow, Collect, CollectDone, FlagRow, FlagDone,
     MoveRow, PlaceRow, MoveDone, OpenIndex, WriteNodes, WriteRoot, Acknowledge, Finish,
     DropIndexFile, RecreateData, PurgeIndex, PurgeDone, StartSave, disk
<1>7. QED
  BY <1>3, <1>4, <1>5, <1>6 DEF Next, Crash, Finish, disk, vars

LEMMA NextRoots ==
    ASSUME TypeOK, Shape, RootsInv, [Next]_vars
    PROVE  RootsInv'
<1> DEFINE Rooted(img) == img.kind # "tree" => img.entries = {}
<1>1. /\ \A i \in Index : Rooted(file[i]) /\ Rooted(mem[i])
      /\ \A s : Rooted(Tree(s))
      /\ Rooted(ZeroFile) /\ Rooted(TornFile) /\ Rooted(NoFile)
  BY DEF RootsInv, Tree, ZeroFile, TornFile, NoFile
<1>2. SUFFICES (\A i \in Index : Rooted(file'[i])) /\ (\A i \in Index : Rooted(mem'[i]))
  BY DEF RootsInv
<1>3. \A i \in Index : Rooted(Loaded[i])
  BY <1>1 DEF Loaded
<1>4. ASSUME NEW m, NEW row, NEW o, \A i \in Index : Rooted(m[i])
      PROVE  \A i \in Index : Rooted(IndexSetInsert(m, row, o)[i])
  BY <1>1, <1>4 DEF IndexSetInsert
<1>5. ASSUME NEW m, NEW row, NEW after \in IndexSetDeletes(m, row),
             \A i \in Index : Rooted(m[i])
      PROVE  \A i \in Index : Rooted(after[i])
  <2>1. \A i \in Index : after[i] \in AfterDelete(m, row, i)
    BY DEF IndexSetDeletes
  <2>2. \A i \in Index : after[i] = m[i] \/ \E s : after[i] = Tree(s)
    BY <2>1 DEF AfterDelete, Removals
  <2>3. QED
    BY <1>1, <1>5, <2>2
<1> HIDE DEF Rooted
<1>6. \A i \in Index : Rooted(file'[i])
  <2>1. CASE UNCHANGED file
    BY <1>1, <2>1
  <2>2. CASE OpenIndex \/ WriteNodes \/ WriteRoot \/ DropIndexFile \/ PurgeIndex
    <3>1. Head(queue) \in Index
      BY <2>2, QueueHead, EmptySeq DEF Shape, OpenIndex, WriteNodes, WriteRoot,
         DropIndexFile, PurgeIndex
    <3>2. \E img \in {ZeroFile, TornFile, NoFile, mem[Head(queue)]} :
              file' = [file EXCEPT ![Head(queue)] = img]
      BY <2>2 DEF OpenIndex, WriteNodes, WriteRoot, DropIndexFile, PurgeIndex
    <3>3. QED
      BY <1>1, <3>1, <3>2 DEF TypeOK, IsIndexSet
  <2>3. QED
    BY <2>1, <2>2 DEF Next, Statement, Step, Insert, InsertDuplicate, Delete, Update,
       UpdateConflict, Select, Hang, CreateIndex, CreateIndexDuplicate, DropIndex,
       Truncate, TruncateNoFile, Die, Refuse, AppendRow, Collect, CollectDone, FlagRow,
       FlagDone, MoveRow, PlaceRow, MoveDone, Acknowledge, DefineIndex, RecreateData,
       PurgeDone, Crash, disk, vars
<1>7. \A i \in Index : Rooted(mem'[i])
  <2>1. CASE UNCHANGED mem
    BY <1>1, <2>1
  <2>2. CASE mem' = Loaded \/ mem' = [i \in Index |-> ZeroFile]
    BY <1>1, <1>3, <2>2
  <2>3. ASSUME NEW i \in Index, CreateIndex(i)
        PROVE  \A j \in Index : Rooted(mem'[j])
    BY <1>1, <2>3 DEF CreateIndex, TypeOK, IsIndexSet
  <2>4. CASE AppendRow
    BY <1>1, <1>4, <2>4 DEF AppendRow
  <2>5. CASE Collect
    BY <1>1, <1>5, <2>5 DEF Collect
  <2>6. CASE PlaceRow
    BY <1>1, <1>4, <1>5, <2>6 DEF PlaceRow
  <2>7. QED
    BY <2>1, <2>2, <2>3, <2>4, <2>5, <2>6 DEF Next, Statement, Step, Insert, InsertDuplicate, Delete, Update,
       UpdateConflict, Select, Hang, CreateIndexDuplicate, DropIndex,
       Truncate, TruncateNoFile, Die, Refuse, CollectDone, FlagRow,
       FlagDone, MoveRow, MoveDone, OpenIndex, WriteNodes, WriteRoot, Acknowledge, DefineIndex,
       DropIndexFile, RecreateData, PurgeIndex, PurgeDone, Crash, Finish, disk, vars
<1>8. QED
  BY <1>6, <1>7

(***************************************************************************)
(* The indexes and the rows.  One lemma for each stretch of a statement.   *)
(***************************************************************************)
\* A state in which the keys are as KeysInv says, and everything else is in
\* order.
Ready ==
    /\ TypeOK /\ Shape /\ TruncateInv /\ HomeInv /\ NamesInv /\ RootsInv
    /\ TargetInv
    /\ damage \subseteq {"stale"}
    /\ KeysInv

LEMMA ReadyHome ==
    ASSUME Ready, kind # "truncate", NEW i \in Defined
    PROVE  /\ i \in Index
           /\ \A e \in file[i].entries : e = Entry(i, data[e.off].val, e.off)
           /\ \A e \in mem[i].entries : e = Entry(i, data[e.off].val, e.off)
<1>1. i \in Index
  BY DefinedIndexes DEF Ready
<1>2. PointsHome(data, i, file[i].entries) /\ PointsHome(data, i, mem[i].entries)
  BY <1>1 DEF Ready, HomeInv
<1>3. IsIndexSet(file) /\ IsIndexSet(mem)
  BY DEF Ready, TypeOK
<1>4. QED
  BY <1>1, <1>2, <1>3, HomeEntry DEF Ready

LEMMA ReadyFiles ==
    ASSUME Ready, pc = "idle", NEW i \in Defined
    PROVE  /\ FileExact(i)
           /\ Sound(data, i, Loaded[i].entries, Live, damage)
<1>1. FileExact(i)
  BY DEF Ready, KeysInv, FilesInv
<1>2. QED
  BY <1>1, LoadedIsFile DEF Ready, FileExact

\* Between its statements and at an answer, what is on disk is what matters.
LEMMA RestKeys ==
    ASSUME UNCHANGED <<data, file>>, Defined' \subseteq Defined,
           kind' # "create_index" \/ pc' = "ack",
           pc' \in {"idle", "unlink", "ack", "hung"},
           \A i \in Defined : Sound(data, i, file[i].entries, Live, damage')
    PROVE  KeysInv'
<1>1. Live' = Live
  BY DEF Live
<1>2. QED
  BY <1>1 DEF KeysInv, FilesInv, SavingInv, InsertInv, DeleteInv, UpdateInv, CreateInv,
     FileExact

LEMMA InsertKeys ==
    ASSUME Ready, NEW row \in Row, Insert(row)
    PROVE  KeysInv'
<1>1. /\ UNCHANGED <<data, file, defs, damage>> /\ Live' = Live /\ Defined' = Defined
      /\ pc = "idle" /\ pc' = "append" /\ kind' = "insert" /\ mem' = Loaded
      /\ todo' = {[off |-> 0, new |-> row]}
      /\ ~HasDuplicate(Loaded, row)
  BY DEF Insert, Begin, disk, Live, Defined
<1>2. ASSUME NEW i \in Defined
      PROVE  /\ Sound(data, i, file[i].entries, Live, damage)
             /\ Sound(data, i, mem'[i].entries, Live, damage)
             /\ \A item \in todo' : EntriesFor(mem'[i], KeyOf(i, item.new)) = {}
  BY <1>1, ReadyFiles DEF HasDuplicate, FileExact
<1>3. QED
  BY <1>1, <1>2 DEF KeysInv, FilesInv, SavingInv, InsertInv, DeleteInv, UpdateInv, CreateInv,
     FileExact, MemOK

LEMMA AppendKeys ==
    ASSUME Ready, AppendRow
    PROVE  KeysInv'
<1>1. /\ UNCHANGED <<file, defs, damage, kind>> /\ Defined' = Defined
      /\ pc = "append" /\ kind = "insert" /\ todo' = {}
      /\ queue' = defs /\ pc' = IF defs = <<>> THEN "ack" ELSE "save"
  BY DEF AppendRow, StartSave, Defined, Ready, Shape
<1>2. PICK item \in todo : /\ data' = Append1(item.new)
                           /\ mem' = IndexSetInsert(mem, item.new, EndOffset)
  BY DEF AppendRow
<1>3. item.new \in Row
  BY DEF Ready, TypeOK, Work
<1>4. /\ Live' = Live \cup {EndOffset}
      /\ data'[EndOffset].val = item.new
      /\ \A p \in Live : data'[p].val = data[p].val
  BY <1>2, <1>3, AppendLive, LiveType DEF Ready
<1>5. ASSUME NEW i \in Defined
      PROVE  Sound(data', i, mem'[i].entries, Live', damage)
  <2>1. /\ Sound(data, i, mem[i].entries, Live, damage)
        /\ EntriesFor(mem[i], KeyOf(i, item.new)) = {}
    BY <1>1 DEF Ready, KeysInv, InsertInv, MemOK
  <2>2. Sound(data', i, mem[i].entries, Live, damage)
    BY <1>4, <2>1, SoundSame
  <2>3. mem'[i].entries = mem[i].entries \cup {Entry(i, item.new, EndOffset)}
    BY <1>2, InsertExact DEF Ready
  <2>4. \A e \in mem[i].entries : e.key # KeyOf(i, item.new)
    BY <2>1 DEF EntriesFor
  <2>5. QED
    BY <1>4, <2>2, <2>3, <2>4, SoundInsert
<1>6. InQueue' = Defined
  BY <1>1 DEF InQueue, Defined
<1>7. defs = <<>> => Defined = {}
  BY EmptySeq DEF Defined
<1>8. QED
  BY <1>1, <1>5, <1>6, <1>7 DEF KeysInv, FilesInv, SavingInv, InsertInv, DeleteInv, UpdateInv,
     CreateInv, FileExact, MemOK

LEMMA DeleteKeys ==
    ASSUME FaithfulValues, Ready, NEW w \in Where, Delete(w)
    PROVE  KeysInv'
<1>1. /\ UNCHANGED <<data, file, defs, damage>> /\ Live' = Live /\ Defined' = Defined
      /\ pc = "idle" /\ pc' = "collect" /\ kind' = "delete" /\ mem' = Loaded
  BY DEF Delete, Begin, disk, Live, Defined
<1>2. PICK hits \in Hits(w) : /\ todo' = {[off |-> o, new |-> RowAt(o)] : o \in hits}
                              /\ target' = hits
  BY DEF Delete
<1>3. hits \subseteq Live
  BY HitsType DEF Ready
<1>4. Pending' = hits /\ \A item \in todo' : item.new = data[item.off].val
  <2>1. Pending' = hits
    BY <1>2, WorkOffsets DEF Pending
  <2>2. \A o \in hits : RowAt(o) = data[o].val
    BY <1>3, FaithfulRead, LiveType DEF Ready
  <2>3. QED
    BY <1>2, <2>1, <2>2
<1>5. Live \ (target' \ Pending') = Live
  BY <1>2, <1>4
<1>6. ASSUME NEW i \in Defined
      PROVE  /\ Sound(data, i, file[i].entries, Live, damage)
             /\ Sound(data, i, mem'[i].entries, Live, damage)
  BY <1>1, ReadyFiles DEF FileExact
<1>7. QED
  BY <1>1, <1>2, <1>3, <1>4, <1>5, <1>6 DEF KeysInv, FilesInv, SavingInv, InsertInv,
     DeleteInv, UpdateInv, CreateInv, FileExact, MemOK

\* One row leaves the indexes in memory.
LEMMA CollectKeys ==
    ASSUME Ready, Collect
    PROVE  KeysInv'
<1> DEFINE kept == Live \ (target \ Pending)
<1>1. /\ UNCHANGED <<data, file, defs, damage, target, kind, pc>>
      /\ Live' = Live /\ Defined' = Defined
      /\ pc = "collect" /\ kind = "delete"
  BY DEF Collect, disk, Live, Defined, Ready, Shape
<1>2. PICK item \in todo : mem' \in IndexSetDeletes(mem, item.new) /\ todo' = todo \ {item}
  BY DEF Collect, First
<1>3. /\ target \subseteq Live
      /\ \A it \in todo : it.new = data[it.off].val
      /\ \A i \in Defined : Sound(data, i, mem[i].entries, kept, damage)
  BY <1>1 DEF Ready, KeysInv, DeleteInv, MemOK
<1>4. \A x, y \in todo : x.off = y.off => x = y
  <2>1. \A x \in todo : x = [off |-> x.off, new |-> x.new]
    BY DEF Ready, TypeOK, Work
  <2>2. QED
    BY <1>3, <2>1
<1>5. Pending' = Pending \ {item.off} /\ item.off \in Pending
  BY <1>2, <1>4 DEF Pending
<1>6. item.off \in target /\ item.off \in kept
  BY <1>1, <1>3, <1>5 DEF Ready, TargetInv
<1>7. Live' \ (target' \ Pending') = kept \ {item.off}
  BY <1>1, <1>5, <1>6
<1>8. ASSUME NEW i \in Defined
      PROVE  Sound(data, i, mem'[i].entries, kept \ {item.off}, damage)
  <2>1. \A j \in Defined : /\ Entry(j, item.new, item.off) \in mem[j].entries
                           /\ KeyedOnce(mem[j].entries)
    BY <1>3, <1>6 DEF Sound, Covers
  <2>2. mem'[i].entries = mem[i].entries \ {Entry(i, item.new, item.off)}
    <3>1. TypeOK /\ mem' \in IndexSetDeletes(mem, item.new)
      BY <1>2 DEF Ready
    <3> HIDE DEF kept
    <3>2. QED
      BY <2>1, <3>1, DeleteExact
  <2>3. item.new = data[item.off].val
    BY <1>3
  <2>4. \A e \in mem[i].entries : e = Entry(i, data[e.off].val, e.off)
    BY <1>1, ReadyHome
  <2>5. QED
    BY <1>3, <1>6, <2>2, <2>3, <2>4, SoundDelete
<1>9. \A it \in todo' : it.new = data[it.off].val
  BY <1>2, <1>3
<1>10. \A i \in Defined : Sound(data, i, file[i].entries, Live, damage)
  BY <1>1 DEF Ready, KeysInv, FilesInv, FileExact
<1>11. QED
  BY <1>1, <1>3, <1>7, <1>8, <1>9, <1>10 DEF KeysInv, FilesInv, SavingInv, InsertInv,
     DeleteInv, UpdateInv, CreateInv, FileExact, MemOK

LEMMA CollectDoneKeys ==
    ASSUME Ready, CollectDone
    PROVE  KeysInv'
<1>1. /\ UNCHANGED <<data, file, defs, mem, damage, target, kind>>
      /\ Live' = Live /\ Defined' = Defined
      /\ pc = "collect" /\ kind = "delete" /\ todo = {}
      /\ todo' = {[off |-> o, new |-> RowAt(o)] : o \in target}
      /\ pc' = IF target = {} THEN "ack" ELSE "flag"
  BY DEF CollectDone, disk, Live, Defined, Ready, Shape
<1>2. Pending = {} /\ Pending' = target
  <2>1. Pending = {}
    BY <1>1 DEF Pending
  <2>2. Pending' = target
    BY <1>1, WorkOffsets DEF Pending
  <2>3. QED
    BY <2>1, <2>2
<1>3. Live \ (target \ Pending) = Live \ target
  BY <1>2
<1>4. ASSUME NEW i \in Defined
      PROVE  /\ Sound(data, i, file[i].entries, Live, damage)
             /\ Sound(data, i, file[i].entries, Live, {"stale"})
             /\ Sound(data, i, mem[i].entries, Live \ target, damage)
  <2>1. FileExact(i) /\ MemOK(i, Live \ target)
    BY <1>1, <1>3 DEF Ready, KeysInv, FilesInv, DeleteInv
  <2>2. QED
    BY <2>1, SoundStale DEF FileExact, MemOK
<1>5. QED
  BY <1>1, <1>2, <1>4 DEF KeysInv, FilesInv, SavingInv, InsertInv,
     DeleteInv, UpdateInv, CreateInv, FileExact, FileOK, MemOK

LEMMA FlagKeys ==
    ASSUME Ready, FlagRow
    PROVE  KeysInv'
<1>1. /\ UNCHANGED <<file, defs, mem, damage, target, kind, pc>> /\ Defined' = Defined
      /\ pc = "flag" /\ kind = "delete"
  BY DEF FlagRow, Defined, Ready, Shape
<1>2. PICK item \in todo : data' = SetFlag(item.off) /\ todo' = todo \ {item}
  BY DEF FlagRow, First
<1>3. item.off \in 1..Len(data) /\ item.off \in Pending /\ item.off \in target
  BY <1>1, <1>2 DEF Pending, Ready, Shape, TargetInv
<1>4. Live' = Live \ {item.off} /\ \A o \in Live : data'[o].val = data[o].val
  BY <1>2, <1>3, FlagLive, LiveType DEF Ready
<1>5. Pending \subseteq Pending' \cup {item.off}
  BY <1>2 DEF Pending
<1>6. Live' \cap target \subseteq Pending' /\ Live' \ target = Live \ target
  <2>1. Live \cap target \subseteq Pending
    BY <1>1 DEF Ready, KeysInv, DeleteInv
  <2>2. QED
    BY <1>3, <1>4, <1>5, <2>1
<1>7. ASSUME NEW i \in Defined
      PROVE  /\ Sound(data', i, file[i].entries, Live', {"stale"})
             /\ Sound(data', i, mem[i].entries, Live \ target, damage)
  <2>1. /\ Sound(data, i, file[i].entries, Live, {"stale"})
        /\ Sound(data, i, mem[i].entries, Live \ target, damage)
    BY <1>1 DEF Ready, KeysInv, FilesInv, DeleteInv, FileOK, MemOK
  <2>2. Sound(data, i, file[i].entries, Live', {"stale"})
    BY <1>4, <2>1, SoundStale
  <2>3. QED
    BY <1>4, <2>1, <2>2, SoundSame
<1>8. QED
  BY <1>1, <1>6, <1>7 DEF KeysInv, FilesInv, SavingInv, InsertInv,
     DeleteInv, UpdateInv, CreateInv, FileOK, MemOK

LEMMA FlagDoneKeys ==
    ASSUME Ready, FlagDone
    PROVE  KeysInv'
<1>1. /\ UNCHANGED <<data, file, defs, mem, damage, kind>>
      /\ Live' = Live /\ Defined' = Defined
      /\ pc = "flag" /\ kind = "delete" /\ todo = {}
      /\ queue' = defs /\ pc' = IF defs = <<>> THEN "ack" ELSE "save"
  BY DEF FlagDone, StartSave, disk, Live, Defined, Ready, Shape
<1>2. Live \ target = Live
  <2>1. Pending = {}
    BY <1>1 DEF Pending
  <2>2. QED
    BY <1>1, <2>1 DEF Ready, KeysInv, DeleteInv
<1>3. \A i \in Defined : FileOK(i) /\ MemOK(i, Live)
  BY <1>1, <1>2 DEF Ready, KeysInv, FilesInv, DeleteInv
<1>4. InQueue' = Defined
  BY <1>1 DEF InQueue, Defined
<1>5. defs = <<>> => Defined = {}
  BY EmptySeq DEF Defined
<1>6. QED
  BY <1>1, <1>3, <1>4, <1>5 DEF KeysInv, FilesInv, SavingInv, InsertInv, DeleteInv,
     UpdateInv, CreateInv, FileExact, FileOK, MemOK

\* What an UPDATE has checked: no new key is that of another row, and no two
\* of the new rows have one key.
LEMMA UpdateKeys ==
    ASSUME FaithfulKeys, Ready, NEW w \in Where, NEW asg \in Assignment, Update(w, asg)
    PROVE  KeysInv'
<1>1. /\ UNCHANGED <<data, file, defs, damage>> /\ Live' = Live /\ Defined' = Defined
      /\ pc = "idle" /\ pc' = "move" /\ kind' = "update" /\ mem' = Loaded
  BY DEF Update, Begin, disk, Live, Defined
<1>2. PICK hits \in Hits(w) : /\ todo' = Pairs(hits, asg)
                              /\ \A item \in todo' : MayPass(Loaded, item)
                              /\ ~BatchDuplicate(todo')
  BY DEF Update
<1>3. hits \subseteq Live
  BY HitsType DEF Ready
<1>4. todo' \subseteq Work
  BY <1>2, <1>3, PairsType DEF Ready
<1>5. Pending' \subseteq Live
  BY <1>2, <1>3 DEF Pending, Pairs
<1>6. \A item, other \in todo' : item.off = other.off => item = other
  BY <1>2 DEF Pairs
<1>7. ASSUME NEW i \in Defined
      PROVE  Sound(data, i, mem'[i].entries, Live, damage)
  BY <1>1, ReadyFiles
<1>8. ASSUME NEW i \in Defined, NEW item \in todo',
             NEW e \in EntriesFor(mem'[i], KeyOf(i, item.new))
      PROVE  e.off = item.off
  <2>1. PICK f \in EntriesFor(mem'[i], KeyOf(i, item.new)) : f.off = item.off
    BY <1>1, <1>2 DEF MayPass
  <2>2. e = f
    BY <1>7 DEF Sound, KeyedOnce, EntriesFor
  <2>3. QED
    BY <2>1, <2>2
<1>9. ASSUME NEW i \in Defined, NEW item \in todo', NEW other \in todo',
             KeyOf(i, item.new) = KeyOf(i, other.new)
      PROVE  item = other
  <2>1. i \in Index /\ item.new \in Row /\ other.new \in Row
    BY <1>4, DefinedIndexes DEF Work, Ready
  <2>2. \A c \in IndexCols[i] : item.new[c] = other.new[c]
    BY <1>9, <2>1, FaithfulKey
  <2>3. QED
    BY <1>2, <2>2 DEF BatchDuplicate
<1>10. QED
  BY <1>1, <1>5, <1>6, <1>7, <1>8, <1>9 DEF KeysInv, FilesInv, SavingInv, InsertInv,
     DeleteInv, UpdateInv, CreateInv, MemOK, Kept

LEMMA FirstAlone ==
    ASSUME TypeOK, \A x, y \in todo : x.off = y.off => x = y, NEW item \in First(todo)
    PROVE  First(todo) = {item}
<1>1. \A x, y \in First(todo) : x.off =< y.off /\ y.off =< x.off /\ x \in todo /\ y \in todo
  BY DEF First
<1>2. \A x, y \in First(todo) : x.off \in Nat /\ y.off \in Nat
  BY <1>1 DEF TypeOK, Work
<1>3. QED
  BY <1>1, <1>2

\* The old row is dead, and still in the indexes: no other row has its key.
LEMMA MoveKeys ==
    ASSUME Ready, MoveRow
    PROVE  KeysInv'
<1>1. /\ UNCHANGED <<file, defs, mem, damage, todo, kind>> /\ Defined' = Defined
      /\ pc = "move" /\ pc' = "place" /\ kind = "update"
  BY DEF MoveRow, Defined, Ready, Shape
<1>2. PICK item \in First(todo) : data' = SetFlag(item.off)
  BY DEF MoveRow
<1>3. item \in todo /\ item.off \in Pending
  BY DEF First, Pending
<1>4. /\ Pending \subseteq Live
      /\ \A x, y \in todo : x.off = y.off => x = y
      /\ \A i \in Defined :
            /\ Sound(data, i, mem[i].entries, Live, damage)
            /\ \A it \in todo : \A e \in EntriesFor(mem[i], KeyOf(i, it.new)) : e.off = it.off
            /\ \A it, other \in todo : KeyOf(i, it.new) = KeyOf(i, other.new) => it = other
  BY <1>1 DEF Ready, KeysInv, UpdateInv, MemOK, Kept
<1>5. First(todo) = {item} /\ Moving = {item.off} /\ Moving' = Moving
  <2>1. First(todo) = {item}
    BY <1>4, FirstAlone DEF Ready
  <2>2. QED
    BY <1>1, <2>1 DEF Moving
<1>6. item.off \in 1..Len(data) /\ Live \subseteq 1..Len(data)
  BY <1>3, <1>4, LiveType DEF Ready
<1>7. /\ Live' = Live \ {item.off} /\ Len(data') = Len(data)
      /\ \A o \in Live : data'[o].val = data[o].val
  BY <1>2, <1>6, FlagLive DEF Ready
<1>8. /\ Kept' = Live
      /\ Moving' \subseteq (1..Len(data')) \ Live'
      /\ Pending' = Pending
  BY <1>1, <1>3, <1>4, <1>5, <1>6, <1>7 DEF Pending, Kept
<1>9. ASSUME NEW i \in Defined
      PROVE  Sound(data', i, mem[i].entries, Live, damage)
  BY <1>4, <1>7, SoundSame
<1>10. QED
  BY <1>1, <1>3, <1>4, <1>8, <1>9 DEF KeysInv, FilesInv, SavingInv, InsertInv,
     DeleteInv, UpdateInv, CreateInv, MemOK

\* The new row takes the old one's place in every index.
LEMMA PlaceKeys ==
    ASSUME FaithfulValues, Ready, PlaceRow
    PROVE  KeysInv'
<1>1. /\ UNCHANGED <<file, defs, damage, kind>> /\ Defined' = Defined
      /\ pc = "place" /\ pc' = "move" /\ kind = "update"
  BY DEF PlaceRow, Defined, Ready, Shape
<1>2. PICK item \in First(todo) :
          /\ \E after \in IndexSetDeletes(mem, RowAt(item.off)) :
                mem' = IndexSetInsert(after, item.new, EndOffset)
          /\ data' = Append1(item.new)
          /\ todo' = todo \ {item}
  BY DEF PlaceRow
<1>3. PICK after \in IndexSetDeletes(mem, RowAt(item.off)) :
          mem' = IndexSetInsert(after, item.new, EndOffset)
  BY <1>2
<1>4. item \in todo /\ item.off \in Pending /\ item.new \in Row
  BY DEF First, Pending, Ready, TypeOK, Work
<1>5. /\ Pending \subseteq Live \cup Moving
      /\ Moving \subseteq (1..Len(data)) \ Live
      /\ \A x, y \in todo : x.off = y.off => x = y
      /\ \A i \in Defined :
            /\ Sound(data, i, mem[i].entries, Live \cup Moving, damage)
            /\ \A it \in todo : \A e \in EntriesFor(mem[i], KeyOf(i, it.new)) : e.off = it.off
            /\ \A it, other \in todo : KeyOf(i, it.new) = KeyOf(i, other.new) => it = other
  BY <1>1 DEF Ready, KeysInv, UpdateInv, MemOK, Kept
<1>6. Moving = {item.off}
  <2>1. First(todo) = {item}
    BY <1>5, FirstAlone DEF Ready
  <2>2. QED
    BY <2>1 DEF Moving
<1>7. /\ item.off \in 1..Len(data) /\ item.off \notin Live
      /\ RowAt(item.off) = data[item.off].val
  BY <1>5, <1>6, FaithfulRead DEF Ready
<1>8. /\ Live' = Live \cup {EndOffset}
      /\ data'[EndOffset].val = item.new
      /\ \A p \in Live : data'[p].val = data[p].val
  BY <1>2, <1>4, AppendLive, LiveType DEF Ready
<1>9. Pending' \subseteq Live'
  <2>1. item.off \notin Pending'
    BY <1>2, <1>4, <1>5 DEF Pending
  <2>2. Pending' \subseteq Pending
    BY <1>2 DEF Pending
  <2>3. QED
    BY <1>5, <1>6, <1>8, <2>1, <2>2
<1>10. ASSUME NEW i \in Defined
       PROVE  /\ after[i].entries = mem[i].entries \ {Entry(i, data[item.off].val, item.off)}
              /\ mem'[i].entries = after[i].entries \cup {Entry(i, item.new, EndOffset)}
  <2>1. \A j \in Defined : /\ Entry(j, RowAt(item.off), item.off) \in mem[j].entries
                           /\ KeyedOnce(mem[j].entries)
    BY <1>5, <1>6, <1>7 DEF Sound, Covers
  <2>2. TypeOK
    BY DEF Ready
  <2>3. after[i].entries = mem[i].entries \ {Entry(i, RowAt(item.off), item.off)}
    BY <2>1, <2>2, DeleteExact
  <2>4. QED
    BY <1>3, <1>7, <2>2, <2>3, InsertExact
<1>11. ASSUME NEW i \in Defined
       PROVE  Sound(data', i, mem'[i].entries, Live', damage)
  <2>1. \A e \in mem[i].entries : e = Entry(i, data[e.off].val, e.off)
    BY <1>1, ReadyHome
  <2>2. (Live \cup Moving) \ {item.off} = Live /\ item.off \in Live \cup Moving
    BY <1>6, <1>7
  <2>3. Sound(data, i, mem[i].entries, Live \cup Moving, damage)
    BY <1>5
  <2>4. Sound(data, i, after[i].entries, (Live \cup Moving) \ {item.off}, damage)
    BY <1>10, <2>1, <2>2, <2>3, SoundDelete
  <2>5. Sound(data', i, after[i].entries, Live, damage)
    BY <1>8, <2>2, <2>4, SoundSame
  <2>6. ASSUME NEW e \in after[i].entries PROVE e.key # KeyOf(i, item.new)
    <3>1. SUFFICES ASSUME e.key = KeyOf(i, item.new) PROVE FALSE
      OBVIOUS
    <3>2. e \in mem[i].entries /\ e # Entry(i, data[item.off].val, item.off)
      BY <1>10
    <3>3. e.off = item.off
      BY <1>4, <1>5, <3>1, <3>2 DEF EntriesFor
    <3>4. QED
      BY <2>1, <3>2, <3>3
  <2>7. Sound(data', i, after[i].entries \cup {Entry(i, item.new, EndOffset)},
              Live \cup {EndOffset}, damage)
    BY <1>8, <2>5, <2>6, SoundInsert
  <2>8. QED
    BY <1>8, <1>10, <2>7
<1>12. ASSUME NEW i \in Defined, NEW it \in todo',
              NEW e \in EntriesFor(mem'[i], KeyOf(i, it.new))
       PROVE  e.off = it.off
  <2>1. it \in todo /\ it # item
    BY <1>2
  <2>2. e.key = KeyOf(i, it.new) /\ e \in mem'[i].entries
    BY DEF EntriesFor
  <2>3. CASE e \in mem[i].entries
    BY <1>5, <2>1, <2>2, <2>3 DEF EntriesFor
  <2>4. CASE e = Entry(i, item.new, EndOffset)
    BY <1>4, <1>5, <2>1, <2>2, <2>4, EntryIs
  <2>5. QED
    BY <1>10, <2>2, <2>3, <2>4
<1>13. todo' \subseteq todo /\ Kept' = Live'
  BY <1>1, <1>2 DEF Kept
<1>14. QED
  BY <1>1, <1>5, <1>9, <1>11, <1>12, <1>13 DEF KeysInv, FilesInv, SavingInv, InsertInv,
     DeleteInv, UpdateInv, CreateInv, MemOK

LEMMA MoveDoneKeys ==
    ASSUME Ready, MoveDone
    PROVE  KeysInv'
<1>1. /\ UNCHANGED <<data, file, defs, mem, damage, kind>>
      /\ Live' = Live /\ Defined' = Defined
      /\ pc = "move" /\ kind = "update"
      /\ queue' = defs /\ pc' = IF defs = <<>> THEN "ack" ELSE "save"
  BY DEF MoveDone, StartSave, disk, Live, Defined, Ready, Shape
<1>2. \A i \in Defined : MemOK(i, Live)
  BY <1>1 DEF Ready, KeysInv, UpdateInv, Kept
<1>3. InQueue' = Defined
  BY <1>1 DEF InQueue, Defined
<1>4. defs = <<>> => Defined = {}
  BY EmptySeq DEF Defined
<1>5. QED
  BY <1>1, <1>2, <1>3, <1>4 DEF KeysInv, FilesInv, SavingInv, InsertInv, DeleteInv,
     UpdateInv, CreateInv, FileExact, MemOK

(***************************************************************************)
(* The index files are written one by one.                                 *)
(***************************************************************************)
LEMMA SaveHead ==
    ASSUME Ready, pc \in {"save", "write"}
    PROVE  /\ Head(queue) \in Index /\ Head(queue) \in InQueue
           /\ kind = "create_index" => Head(queue) \notin Defined
           /\ kind = "truncate" \/ kind = "create_index"
                \/ kind \in {"insert", "delete", "update"}
<1>1. queue # <<>>
  BY DEF Ready, Shape
<1>2. Head(queue) \in Index /\ Head(queue) = queue[1] /\ Len(queue) \in Nat \ {0}
  BY <1>1, QueueHead DEF Ready
<1>3. QED
  BY <1>2 DEF Ready, Shape, InQueue

\* A file that is being written is no other file.
LEMMA OpenKeys ==
    ASSUME Ready, OpenIndex \/ WriteNodes
    PROVE  KeysInv'
<1>1. /\ UNCHANGED <<data, defs, mem, damage, kind, queue, todo>>
      /\ Live' = Live /\ Defined' = Defined /\ InQueue' = InQueue
      /\ pc \in {"save", "write"} /\ pc' = "write"
      /\ \A i \in Index \ {Head(queue)} : file'[i] = file[i]
  BY DEF OpenIndex, WriteNodes, Live, Defined, InQueue, Ready, TypeOK, IsIndexSet
<1>2. Defined \subseteq Index
  BY DefinedIndexes DEF Ready
<1>3. ASSUME kind \in {"insert", "delete", "update"}, NEW i \in Defined
      PROVE  /\ MemOK(i, Live)
             /\ i \notin InQueue => FileExact(i)
             /\ kind = "delete" /\ i # Head(queue) => FileOK(i)
  BY <1>1, <1>3 DEF Ready, KeysInv, SavingInv
<1>4. ASSUME NEW i \in Defined, i # Head(queue)
      PROVE  file'[i] = file[i]
  BY <1>1, <1>2, <1>4
<1>5. SavingInv'
  BY <1>1, <1>3, <1>4, SaveHead DEF SavingInv, MemOK, FileExact, FileOK
<1>6. FilesInv'
  BY <1>1, <1>4, SaveHead DEF Ready, KeysInv, FilesInv, FileExact
<1>7. CreateInv'
  BY <1>1 DEF Ready, KeysInv, CreateInv, MemOK
<1>8. QED
  BY <1>1, <1>5, <1>6, <1>7 DEF KeysInv, InsertInv, DeleteInv, UpdateInv

\* TRUNCATE has no rows and no entries.
LEMMA TruncatedKeys ==
    ASSUME TypeOK', Shape', TruncateInv', kind' = "truncate"
    PROVE  KeysInv'
<1>1. pc' \in {"recreate", "purge", "save", "write", "ack"}
  BY DEF TruncateInv
<1>2. ASSUME pc' = "ack", NEW i \in Defined'
      PROVE  FileExact(i)'
  <2>1. data' = <<>> /\ queue' = <<>>
    BY <1>2 DEF TruncateInv, Shape
  <2>2. Live' = {} /\ InQueue' = {}
    BY <2>1, EmptySeq DEF Live, InQueue
  <2>3. file'[i].entries = {}
    BY <1>2, <2>2 DEF TruncateInv
  <2>4. QED
    BY <2>2, <2>3 DEF FileExact, Sound, Covers, KeyedOnce, Within
<1>3. QED
  BY <1>1, <1>2 DEF KeysInv, FilesInv, SavingInv, InsertInv, DeleteInv, UpdateInv, CreateInv

LEMMA WriteRootKeys ==
    ASSUME Ready, WriteRoot, kind # "truncate"
    PROVE  KeysInv'
<1> DEFINE h == Head(queue)
<1>1. /\ UNCHANGED <<data, defs, mem, damage, kind, todo>>
      /\ Live' = Live /\ Defined' = Defined
      /\ pc = "write" /\ h \in Index
      /\ file'[h] = mem[h]
      /\ \A i \in Index \ {h} : file'[i] = file[i]
  BY SaveHead DEF WriteRoot, Live, Defined, Ready, TypeOK, IsIndexSet
<1>2. Defined \subseteq Index
  BY DefinedIndexes DEF Ready
<1>3. CASE kind = "create_index"
  <2>1. pc' = "define" /\ queue' = queue /\ h \notin Defined
    BY <1>1, <1>3, SaveHead DEF WriteRoot
  <2>2. Sound(data, h, mem[h].entries, Live, damage)
    BY <1>1, <1>3 DEF Ready, KeysInv, CreateInv, MemOK
  <2>3. \A i \in Defined : Sound(data, i, file'[i].entries, Live, damage)
    BY <1>1, <1>2, <1>3, <2>1 DEF Ready, KeysInv, FilesInv, FileExact
  <2>4. QED
    BY <1>1, <1>3, <2>1, <2>2, <2>3 DEF KeysInv, FilesInv, SavingInv, InsertInv, DeleteInv,
       UpdateInv, CreateInv, FileExact, MemOK
<1>4. CASE kind # "create_index"
  <2>1. kind \in {"insert", "delete", "update"}
    BY <1>1, <1>4, SaveHead
  <2>2. queue' = Tail(queue) /\ pc' = IF queue' = <<>> THEN "ack" ELSE "save"
    BY <1>4 DEF WriteRoot, StartSave
  <2>3. InQueue \subseteq InQueue' \cup {h}
    <3>1. /\ Len(queue') = Len(queue) - 1 /\ Len(queue) \in Nat \ {0}
          /\ \A p \in 1..Len(queue') : queue'[p] = queue[p + 1]
          /\ h = queue[1]
      BY <1>1, <2>2, QueueHead DEF Ready, Shape
    <3>2. ASSUME NEW p \in 1..Len(queue), p # 1
          PROVE  p - 1 \in 1..Len(queue') /\ queue'[p - 1] = queue[p]
      BY <3>1, <3>2
    <3>3. QED
      BY <3>1, <3>2 DEF InQueue
  <2>4. ASSUME NEW i \in Defined
        PROVE  /\ Sound(data, i, mem[i].entries, Live, damage)
               /\ i \notin InQueue' => Sound(data, i, file'[i].entries, Live, damage)
               /\ kind = "delete" => Sound(data, i, file'[i].entries, Live, {"stale"})
    <3>1. /\ MemOK(i, Live)
          /\ i \notin InQueue => FileExact(i)
          /\ kind = "delete" /\ i # h => FileOK(i)
      BY <1>1, <2>1 DEF Ready, KeysInv, SavingInv
    <3>2. CASE i = h
      <4>1. Sound(data, i, mem[i].entries, Live, {"stale"})
        BY <3>1, SoundStale DEF MemOK
      <4>2. QED
        BY <1>1, <3>1, <3>2, <4>1 DEF MemOK
    <3>3. CASE i # h
      BY <1>1, <1>2, <2>3, <3>1, <3>3 DEF MemOK, FileExact, FileOK
    <3>4. QED
      BY <3>2, <3>3
  <2>5. queue' = <<>> => InQueue' = {}
    BY EmptySeq DEF InQueue
  <2>6. QED
    BY <1>1, <2>1, <2>2, <2>4, <2>5 DEF KeysInv, FilesInv, SavingInv, InsertInv, DeleteInv,
       UpdateInv, CreateInv, FileExact, FileOK, MemOK
<1>5. QED
  BY <1>3, <1>4

(***************************************************************************)
(* Indexes come and go; statements end.                                    *)
(***************************************************************************)
LEMMA CreateKeys ==
    ASSUME FaithfulValues, Ready, NEW i \in Index, CreateIndex(i)
    PROVE  KeysInv'
<1>1. /\ UNCHANGED <<data, file, defs, damage>> /\ Live' = Live /\ Defined' = Defined
      /\ pc = "idle" /\ pc' = "save" /\ kind' = "create_index"
      /\ Head(queue') = i /\ ~LiveDuplicates(i)
      /\ mem'[i] = IF Live = {} THEN ZeroFile ELSE Tree(LiveEntries(i))
  BY DEF CreateIndex, Begin, disk, Live, Defined, Ready, TypeOK, IsIndexSet
<1>2. mem'[i].entries = LiveEntries(i)
  BY <1>1 DEF ZeroFile, Tree, LiveEntries
<1>3. \A o \in Live : RowAt(o) = data[o].val
  BY FaithfulRead, LiveType DEF Ready
<1>4. Sound(data, i, LiveEntries(i), Live, damage)
  <2>1. Covers(data, i, LiveEntries(i), Live)
    BY <1>3 DEF Covers, LiveEntries
  <2>2. KeyedOnce(LiveEntries(i))
    BY <1>1, EntryIs DEF KeyedOnce, LiveEntries, LiveDuplicates
  <2>3. Within(LiveEntries(i), Live)
    BY EntryIs DEF Within, LiveEntries
  <2>4. QED
    BY <2>1, <2>2, <2>3 DEF Sound
<1>5. \A j \in Defined : Sound(data, j, file[j].entries, Live, damage)
  BY <1>1, ReadyFiles DEF FileExact
<1>6. QED
  BY <1>1, <1>2, <1>4, <1>5 DEF KeysInv, FilesInv, SavingInv, InsertInv, DeleteInv,
     UpdateInv, CreateInv, FileExact, MemOK

LEMMA DefineKeys ==
    ASSUME Ready, DefineIndex
    PROVE  KeysInv'
<1>1. /\ UNCHANGED <<data, file, damage, kind>> /\ Live' = Live
      /\ pc = "define" /\ pc' = "ack" /\ kind = "create_index"
      /\ defs' = Append(defs, Head(queue))
  BY DEF DefineIndex, Live, Ready, Shape
<1>2. Head(queue) \in Index
  BY <1>1, QueueHead, EmptySeq DEF Ready, Shape
<1>3. Defined' \subseteq Defined \cup {Head(queue)}
  <2>1. /\ Len(defs') = Len(defs) + 1 /\ Len(defs) \in Nat
        /\ defs'[Len(defs) + 1] = Head(queue)
        /\ \A p \in 1..Len(defs) : defs'[p] = defs[p]
    BY <1>1, <1>2, AppendProperties, LenProperties DEF Ready, TypeOK
  <2>2. QED
    BY <2>1 DEF Defined
<1>4. FileExact(Head(queue)) /\ \A i \in Defined : FileExact(i)
  BY <1>1 DEF Ready, KeysInv, CreateInv, FilesInv
<1>5. QED
  BY <1>1, <1>3, <1>4 DEF KeysInv, FilesInv, SavingInv, InsertInv, DeleteInv,
     UpdateInv, CreateInv, FileExact

LEMMA DropKeys ==
    ASSUME Ready, NEW p \in 1..Len(defs), DropIndex(p)
    PROVE  KeysInv'
<1>1. Defined' \subseteq Defined
  <2>1. /\ Len(defs) \in Nat
        /\ defs' = [q \in 1..(Len(defs) - 1) |-> IF q < p THEN defs[q] ELSE defs[q + 1]]
        /\ defs' \in Seq(Index)
    BY LenProperties, WithoutType DEF DropIndex, Without, Ready, TypeOK
  <2>2. 1..Len(defs') = 1..(Len(defs) - 1)
    BY <2>1, LenProperties
  <2>3. \A q \in 1..Len(defs') : \E r \in 1..Len(defs) : defs'[q] = defs[r]
    BY <2>1, <2>2
  <2>4. QED
    BY <2>3 DEF Defined
<1>2. \A i \in Defined : Sound(data, i, file[i].entries, Live, damage')
  BY ReadyFiles DEF DropIndex, Begin, FileExact
<1>3. QED
  BY <1>1, <1>2, RestKeys DEF DropIndex, Begin

LEMMA DropFileKeys ==
    ASSUME Ready, DropIndexFile
    PROVE  KeysInv'
<1>1. /\ UNCHANGED <<data, defs, damage, kind>> /\ Live' = Live /\ Defined' = Defined
      /\ pc = "unlink" /\ pc' = "ack" /\ Head(queue) \notin Defined
      /\ \A i \in Index \ {Head(queue)} : file'[i] = file[i]
  BY DEF DropIndexFile, Live, Defined, Ready, NamesInv, TypeOK, IsIndexSet
<1>2. Defined \subseteq Index
  BY DefinedIndexes DEF Ready
<1>3. \A i \in Defined : Sound(data, i, file'[i].entries, Live, damage)
  BY <1>1, <1>2 DEF Ready, KeysInv, FilesInv, FileExact
<1>4. QED
  BY <1>1, <1>3 DEF KeysInv, FilesInv, SavingInv, InsertInv, DeleteInv, UpdateInv, CreateInv,
     FileExact

\* A statement that dies where the damage it leaves is stale entries at most
\* leaves files from which the next statement can go on.
LEMMA CrashKeys ==
    ASSUME Ready, Crash, damage' \subseteq {"stale"}
    PROVE  KeysInv'
<1>1. /\ UNCHANGED <<data, file, defs>> /\ Defined' = Defined
      /\ pc' = "idle" /\ kind' = "none" /\ damage' = damage \cup Damage
      /\ pc # "idle"
  BY DEF Crash, Finish, disk, Defined
<1>2. ASSUME NEW i \in Defined
      PROVE  Sound(data, i, file[i].entries, Live, damage')
  <2>1. CASE FileExact(i)
    <3>1. damage # {} => damage' # {}
      BY <1>1
    <3>2. Sound(data, i, file[i].entries, Live, damage)
      BY <2>1 DEF FileExact
    <3>3. QED
      BY <3>1, <3>2 DEF Sound
  <2>2. CASE kind = "delete" /\ pc \in {"flag", "save"}
    <3>1. damage' # {}
      BY <1>1, <2>2 DEF Damage
    <3>2. FileOK(i)
      BY <2>2 DEF Ready, KeysInv, FilesInv
    <3>3. QED
      BY <3>1, <3>2, SoundStale DEF FileOK
  <2>3. \/ pc \in {"idle", "append", "collect", "define", "unlink", "ack", "hung"}
        \/ kind = "create_index"
        \/ kind = "delete" /\ pc \in {"flag", "save"}
    BY <1>1 DEF Damage, Ready, Shape, TypeOK, Control, Kinds
  <2>4. QED
    BY <2>1, <2>2, <2>3 DEF Ready, KeysInv, FilesInv
<1>3. QED
  BY <1>1, <1>2, RestKeys

LEMMA AcknowledgeKeys ==
    ASSUME Ready, Acknowledge
    PROVE  KeysInv'
<1>1. /\ UNCHANGED <<data, file, defs, damage>> /\ Defined' = Defined
      /\ pc = "ack" /\ pc' = "idle" /\ kind' = "none"
  BY DEF Acknowledge, Finish, disk, Defined
<1>2. \A i \in Defined : Sound(data, i, file[i].entries, Live, damage')
  BY <1>1 DEF Ready, KeysInv, FilesInv, FileExact
<1>3. QED
  BY <1>1, <1>2, RestKeys

LEMMA HangKeys ==
    ASSUME Ready, NEW w \in Where, Hang(w)
    PROVE  KeysInv'
<1>1. /\ UNCHANGED <<data, file, defs, damage>> /\ Defined' = Defined
      /\ pc = "idle" /\ pc' = "hung" /\ kind' = "scan"
  BY DEF Hang, Begin, disk, Defined
<1>2. \A i \in Defined : Sound(data, i, file[i].entries, Live, damage')
  BY <1>1, ReadyFiles DEF FileExact
<1>3. QED
  BY <1>1, <1>2, RestKeys

\* A statement that only answers.
LEMMA SameKeys ==
    ASSUME KeysInv, UNCHANGED <<data, file, defs, mem, pc, kind, todo, target, queue, damage>>
    PROVE  KeysInv'
<1>1. /\ Live' = Live /\ Defined' = Defined /\ InQueue' = InQueue /\ Pending' = Pending
      /\ Moving' = Moving
  BY DEF Live, Defined, InQueue, Pending, Moving, First
<1>2. Kept' = Kept
  BY <1>1 DEF Kept
<1>3. FilesInv'
  BY <1>1 DEF KeysInv, FilesInv, FileExact, FileOK
<1>4. SavingInv'
  BY <1>1 DEF KeysInv, SavingInv, FileExact, FileOK, MemOK
<1>5. InsertInv' /\ DeleteInv' /\ CreateInv'
  BY <1>1 DEF KeysInv, InsertInv, DeleteInv, CreateInv, FileExact, MemOK
<1>6. UpdateInv'
  BY <1>1, <1>2 DEF KeysInv, UpdateInv, MemOK
<1>7. QED
  BY <1>3, <1>4, <1>5, <1>6 DEF KeysInv

\* What a crash has damaged stays damaged.
LEMMA DamageGrows ==
    ASSUME [Next]_vars
    PROVE  damage \subseteq damage'
BY DEF Next, Statement, Step, Insert, InsertDuplicate, Delete, Update,
   UpdateConflict, Select, Hang, CreateIndex, CreateIndexDuplicate, DropIndex,
   Truncate, TruncateNoFile, Die, Refuse, Begin, AppendRow, Collect, CollectDone,
   FlagRow, FlagDone, MoveRow, PlaceRow, MoveDone, OpenIndex, WriteNodes,
   WriteRoot, Acknowledge, DefineIndex, DropIndexFile, RecreateData, PurgeIndex,
   PurgeDone, Crash, vars

LEMMA NextKeys ==
    ASSUME FaithfulKeys, TypeOK, Shape, TruncateInv, HomeInv, NamesInv, RootsInv,
           TargetInv, UniqueInv, [Next]_vars
    PROVE  UniqueInv'
<1> SUFFICES ASSUME damage' \subseteq {"stale"}
             PROVE  KeysInv'
  BY DEF UniqueInv
<1>1. FaithfulValues
  BY DEF FaithfulKeys
<1>2. damage \subseteq damage'
  BY DamageGrows
<1>3. Ready
  BY <1>2 DEF UniqueInv, Ready
<1>4. CASE kind' = "truncate"
  <2>1. TypeOK' /\ Shape' /\ TruncateInv'
    BY NextType, NextTruncate
  <2>2. QED
    BY <1>4, <2>1, TruncatedKeys
<1>5. ASSUME UNCHANGED <<data, file, defs, mem, pc, kind, todo, target, queue, damage>>
      PROVE  KeysInv'
  BY <1>3, <1>5, SameKeys DEF Ready
<1>6. CASE Statement
  BY <1>1, <1>3, <1>4, <1>5, <1>6, InsertKeys, DeleteKeys, UpdateKeys, HangKeys, CreateKeys,
     DropKeys DEF Statement, InsertDuplicate, UpdateConflict, Select, CreateIndexDuplicate,
     Truncate, TruncateNoFile, Die, Refuse, Begin, disk
<1>7. CASE Step
  <2>1. ASSUME RecreateData \/ PurgeIndex \/ PurgeDone \/ (WriteRoot /\ kind = "truncate")
        PROVE  KeysInv'
    BY <1>3, <1>4, <2>1 DEF RecreateData, PurgeIndex, PurgeDone, WriteRoot, Ready, Shape
  <2>2. QED
    BY <1>1, <1>3, <1>7, <2>1, AppendKeys, CollectKeys, CollectDoneKeys, FlagKeys, FlagDoneKeys,
       MoveKeys, PlaceKeys, MoveDoneKeys, OpenKeys, WriteRootKeys, AcknowledgeKeys,
       DefineKeys, DropFileKeys DEF Step
<1>8. CASE Crash
  BY <1>3, <1>8, CrashKeys
<1>9. CASE UNCHANGED vars
  BY <1>5, <1>9 DEF vars
<1>10. QED
  BY <1>6, <1>7, <1>8, <1>9 DEF Next

(***************************************************************************)
(* What a statement has found to change, and what it answers.              *)
(***************************************************************************)
LEMMA LiveFinite ==
    ASSUME TypeOK
    PROVE  IsFiniteSet(Live) /\ Cardinality(Live) \in Nat
<1>1. Len(data) \in Nat
  BY LenProperties DEF TypeOK
<1>2. IsFiniteSet(1..Len(data))
  BY <1>1, FS_Interval
<1>3. QED
  BY <1>2, LiveType, FS_Subset, FS_CardinalityType

\* How many rows are live after a row is flagged, and after one is appended.
LEMMA FlagCount ==
    ASSUME TypeOK, NEW o \in 1..Len(data), data' = SetFlag(o)
    PROVE  Cardinality(Live') \in Nat /\ Cardinality(Live) =< Cardinality(Live') + 1
<1>1. Live' = Live \ {o}
  BY FlagLive
<1>2. IsFiniteSet(Live) /\ Cardinality(Live) \in Nat
  BY LiveFinite
<1>3. CASE o \in Live
  <2>1. Cardinality(Live \ {o}) = Cardinality(Live) - 1 /\ IsFiniteSet(Live \ {o})
    BY <1>2, <1>3, FS_RemoveElement
  <2>2. Cardinality(Live \ {o}) \in Nat
    BY <2>1, FS_CardinalityType
  <2>3. QED
    BY <1>1, <1>2, <2>1, <2>2
<1>4. CASE o \notin Live
  <2>1. Live' = Live
    BY <1>1, <1>4
  <2>2. QED
    BY <1>2, <2>1
<1>5. QED
  BY <1>3, <1>4

LEMMA AppendCount ==
    ASSUME TypeOK, NEW row \in Row, data' = Append1(row)
    PROVE  Cardinality(Live') = Cardinality(Live) + 1
<1>1. Live' = Live \cup {EndOffset} /\ EndOffset \notin Live
  BY AppendLive, LiveType
<1>2. QED
  BY <1>1, LiveFinite, FS_AddElement

LEMMA NextTarget ==
    ASSUME TypeOK, Shape, TargetInv, [Next]_vars
    PROVE  TargetInv'
<1>0. Cardinality(Live) \in Nat
  BY LiveFinite
<1>1. ASSUME NEW row \in Row, Insert(row)
      PROVE  TargetInv'
  BY <1>1 DEF Insert, Begin, TargetInv, Live, disk
<1>2. ASSUME NEW w \in Where, Delete(w)
      PROVE  TargetInv'
  <2>1. Pending' = target'
    BY <1>2, WorkOffsets DEF Delete, Pending
  <2>2. QED
    BY <1>2, <2>1 DEF Delete, Begin, TargetInv, Live, disk
<1>3. ASSUME NEW w \in Where, NEW asg \in Assignment, Update(w, asg)
      PROVE  TargetInv'
  <2>1. Pending' = target'
    BY <1>3 DEF Update, Pending
  <2>2. QED
    BY <1>0, <1>3, <2>1 DEF Update, Begin, TargetInv, Live, disk
<1>4. ASSUME Begin(kind', pc'),
             kind' \in {"scan", "create_index", "drop_index", "truncate"},
             kind' = "truncate" \/ UNCHANGED data
      PROVE  TargetInv'
  BY <1>4 DEF Begin, TargetInv, Live
<1>5. ASSUME UNCHANGED <<data, kind, todo, target, base>>, pc' # "place", pc # "place"
      PROVE  TargetInv'
  BY <1>5 DEF TargetInv, Live, Pending
<1>6. ASSUME UNCHANGED <<data, kind, pc, todo, target, base>>
      PROVE  TargetInv'
  BY <1>6 DEF TargetInv, Live, Pending
<1>7. CASE AppendRow
  <2>1. PICK item \in todo : data' = Append1(item.new)
    BY <1>7 DEF AppendRow
  <2>2. item.new \in Row
    BY DEF TypeOK, Work
  <2>3. Live \subseteq Live'
    BY <2>1, <2>2, AppendLive
  <2>4. QED
    BY <1>7, <2>3 DEF AppendRow, Shape, TargetInv
<1>8. CASE Collect
  <2>1. Pending' \subseteq Pending
    BY <1>8 DEF Collect, Pending
  <2>2. QED
    BY <1>8, <2>1 DEF Collect, Shape, TargetInv, Live, disk
<1>9. CASE CollectDone
  <2>1. Pending' = target'
    BY <1>9, WorkOffsets DEF CollectDone, Pending
  <2>2. QED
    BY <1>9, <2>1 DEF CollectDone, Shape, TargetInv, Live, disk
<1>10. CASE FlagRow
  <2>1. PICK item \in todo : data' = SetFlag(item.off) /\ todo' = todo \ {item}
    BY <1>10 DEF FlagRow, First
  <2>2. item.off \in 1..Len(data) /\ item.off \in target
    BY <1>10 DEF FlagRow, Shape, TargetInv, Pending
  <2>3. Live' = Live \ {item.off} /\ Pending' \subseteq Pending
    BY <2>1, <2>2, FlagLive DEF Pending
  <2>4. QED
    BY <1>10, <2>2, <2>3 DEF FlagRow, Shape, TargetInv
<1>11. CASE MoveRow
  <2>1. PICK item \in todo : data' = SetFlag(item.off)
    BY <1>11 DEF MoveRow, First
  <2>2. item.off \in 1..Len(data) /\ item.off \in target
    BY <1>11 DEF MoveRow, Shape, TargetInv, Pending
  <2>3. Live' = Live \ {item.off}
    BY <2>1, <2>2, FlagLive
  <2>4. Cardinality(Live') \in Nat /\ Cardinality(Live) =< Cardinality(Live') + 1
    BY <2>1, <2>2, FlagCount
  <2>5. Cardinality(base') \in 0..(Cardinality(Live') + 1)
    BY <1>0, <1>11, <2>4 DEF MoveRow, Shape, TargetInv
  <2>6. QED
    BY <1>11, <2>2, <2>3, <2>5 DEF MoveRow, Shape, TargetInv, Pending
<1>12. CASE PlaceRow
  <2>1. PICK item \in todo : data' = Append1(item.new) /\ todo' = todo \ {item}
    BY <1>12 DEF PlaceRow, First
  <2>2. item.new \in Row
    BY DEF TypeOK, Work
  <2>3. Live \subseteq Live' /\ Pending' \subseteq Pending
    BY <2>1, <2>2, AppendLive DEF Pending
  <2>4. Cardinality(Live') = Cardinality(Live) + 1
    BY <2>1, <2>2, AppendCount
  <2>5. QED
    BY <1>0, <1>12, <2>3, <2>4 DEF PlaceRow, Shape, TargetInv
<1>13. CASE Crash \/ Acknowledge
  BY <1>13 DEF Crash, Acknowledge, Finish, TargetInv
<1>14. CASE Statement
  BY <1>1, <1>2, <1>3, <1>4, <1>6, <1>14 DEF Statement, InsertDuplicate, UpdateConflict, Select,
     Hang, CreateIndex, CreateIndexDuplicate, DropIndex, Truncate, TruncateNoFile, Die, Refuse,
     Begin, disk
<1>15. CASE Step
  BY <1>5, <1>6, <1>7, <1>8, <1>9, <1>10, <1>11, <1>12, <1>13, <1>15 DEF Step, FlagDone, MoveDone,
     OpenIndex, WriteNodes, WriteRoot, DefineIndex, DropIndexFile, RecreateData, PurgeIndex,
     PurgeDone, StartSave, disk
<1>16. QED
  BY <1>6, <1>13, <1>14, <1>15 DEF Next, vars

LEMMA NextAnswer ==
    ASSUME Shape, AnswerInv, [Next]_vars
    PROVE  AnswerInv'
<1>1. UNCHANGED <<reply, pc>> => AnswerInv'
  BY DEF AnswerInv
<1>2. (UNCHANGED reply /\ pc # "idle") => AnswerInv'
  BY DEF AnswerInv
<1>3. pc' = "idle" => AnswerInv'
  BY DEF AnswerInv
<1>4. reply' = NoReply => AnswerInv'
  BY DEF AnswerInv, NoReply
<1>5. CASE Statement
  BY <1>3, <1>4, <1>5 DEF Statement, Insert, InsertDuplicate, Delete, Update, UpdateConflict,
     Select, Hang, CreateIndex, CreateIndexDuplicate, DropIndex, Truncate, TruncateNoFile,
     Die, Refuse, Begin
<1>6. CASE Step \/ Crash
  BY <1>2, <1>3, <1>6 DEF Step, Crash, AppendRow, Collect, CollectDone, FlagRow, FlagDone,
     MoveRow, PlaceRow, MoveDone, OpenIndex, WriteNodes, WriteRoot, Acknowledge, Finish,
     DefineIndex, DropIndexFile, RecreateData, PurgeIndex, PurgeDone
<1>7. QED
  BY <1>1, <1>5, <1>6 DEF Next, vars

(***************************************************************************)
(* The inductive invariant, and what it means for the statements.          *)
(***************************************************************************)
LEMMA InitTable == Init => TableInv
<1> SUFFICES ASSUME Init PROVE TableInv
  OBVIOUS
<1>1. TypeOK /\ Shape /\ TruncateInv /\ HomeInv
  BY InitType, InitTruncate, InitHome
<1>2. Defined = {} /\ Live = {}
  BY EmptySeq DEF Init, Defined, Live
<1>3. NamesInv /\ RootsInv
  BY EmptySeq DEF Init, NamesInv, RootsInv, NoFile, ZeroFile
<1>4. UniqueInv
  BY <1>2 DEF Init, UniqueInv, KeysInv, FilesInv, SavingInv, InsertInv, DeleteInv,
     UpdateInv, CreateInv
<1>5. TargetInv
  BY DEF Init, TargetInv
<1>6. AnswerInv
  BY DEF Init, AnswerInv
<1>7. QED
  BY <1>1, <1>3, <1>4, <1>5, <1>6 DEF TableInv

\* TableInv holds at every step of every statement: what the rows, the loaded
\* indexes and the index files have to do with one another never breaks, short
\* of a crash that loses rows to an index.
THEOREM TableInductive ==
    ASSUME FaithfulKeys
    PROVE  Spec => []TableInv
<1>1. TableInv /\ [Next]_vars => TableInv'
  <2> SUFFICES ASSUME TableInv, [Next]_vars PROVE TableInv'
    OBVIOUS
  <2>1. FaithfulValues
    BY DEF FaithfulKeys
  <2>2. TypeOK' /\ Shape' /\ TruncateInv' /\ HomeInv'
    BY <2>1, NextType, NextTruncate, NextHome DEF TableInv
  <2>3. NamesInv' /\ RootsInv' /\ TargetInv' /\ AnswerInv'
    BY NextNames, NextRoots, NextTarget, NextAnswer DEF TableInv
  <2>4. UniqueInv'
    BY NextKeys DEF TableInv
  <2>5. QED
    BY <2>2, <2>3, <2>4 DEF TableInv
<1>2. QED
  BY <1>1, InitTable, PTL DEF Spec

\* At every step some image of a defined index has every live row in it.
LEMMA SomeIndex ==
    ASSUME Ready, NEW i \in Defined
    PROVE  \E entries, offs, flaws :
                Sound(data, i, entries, offs, flaws) /\ Live \subseteq offs
<1>1. CASE FileExact(i)
  BY <1>1 DEF FileExact
<1>2. CASE FileOK(i)
  BY <1>2 DEF FileOK
<1>3. CASE \E offs : MemOK(i, offs) /\ Live \subseteq offs
  BY <1>3 DEF MemOK
<1>4. CASE kind = "truncate"
  <2>1. Live = {}
    BY <1>4, EmptySeq DEF Ready, TruncateInv, Live
  <2>2. Sound(data, i, {}, {}, {})
    BY DEF Sound, Covers, KeyedOnce, Within
  <2>3. QED
    BY <2>1, <2>2
<1>5. CASE pc \in {"save", "write"} /\ kind \in {"insert", "delete", "update"}
  BY <1>3, <1>5 DEF Ready, KeysInv, SavingInv
<1>6. CASE pc \in {"move", "place"}
  BY <1>3, <1>6 DEF Ready, KeysInv, UpdateInv, Kept
<1>7. CASE pc = "flag"
  BY <1>2, <1>7 DEF Ready, KeysInv, FilesInv
<1>8. CASE pc \in {"idle", "append", "collect", "define", "unlink", "ack", "hung"}
           \/ kind = "create_index"
  BY <1>1, <1>8 DEF Ready, KeysInv, FilesInv
<1>9. QED
  BY <1>4, <1>5, <1>6, <1>7, <1>8 DEF Ready, Shape, TypeOK, Control

\* Whatever the order of the statement's writes, no two live rows of a table
\* have one key in a unique index, in the middle of an UPDATE and after any
\* crash of a DELETE too.
THEOREM KeysStayUnique ==
    ASSUME FaithfulKeys
    PROVE  Spec => []KeysUnique
<1>1. TableInv => KeysUnique
  <2> SUFFICES ASSUME TableInv, damage \subseteq {"stale"}, NEW i \in Defined,
                      NEW o \in Live, NEW p \in Live,
                      KeyOf(i, RowAt(o)) = KeyOf(i, RowAt(p))
               PROVE  o = p
    BY DEF KeysUnique
  <2>1. Ready
    BY DEF TableInv, UniqueInv, Ready
  <2>2. RowAt(o) = data[o].val /\ RowAt(p) = data[p].val
    BY FaithfulRead, LiveType DEF FaithfulKeys, TableInv
  <2>3. PICK entries, offs, flaws :
            Sound(data, i, entries, offs, flaws) /\ Live \subseteq offs
    BY <2>1, SomeIndex
  <2>4. Entry(i, RowAt(o), o) \in entries /\ Entry(i, RowAt(p), p) \in entries
    BY <2>2, <2>3 DEF Sound, Covers
  <2>5. Entry(i, RowAt(o), o) = Entry(i, RowAt(p), p)
    BY <2>3, <2>4, EntryIs DEF Sound, KeyedOnce
  <2>6. QED
    BY <2>5, EntryIs
<1>2. QED
  BY <1>1, TableInductive, PTL

\* Between statements, and unless a crash has done damage, each index file
\* holds exactly the live rows' entries.
THEOREM IndexesExact ==
    ASSUME FaithfulKeys
    PROVE  Spec => []IndexExact
<1>1. TableInv => IndexExact
  <2> SUFFICES ASSUME TableInv, pc = "idle", damage = {}, NEW i \in Defined
               PROVE  file[i].entries = LiveEntries(i)
    BY DEF IndexExact
  <2>1. Ready
    BY DEF TableInv, UniqueInv, Ready
  <2>2. Sound(data, i, file[i].entries, Live, {})
    BY <2>1, ReadyFiles DEF FileExact
  <2>3. \A e \in file[i].entries : e = Entry(i, data[e.off].val, e.off)
    BY <2>1, ReadyHome DEF Ready, Shape
  <2>4. \A o \in Live : RowAt(o) = data[o].val
    BY FaithfulRead, LiveType DEF FaithfulKeys, TableInv
  <2>5. file[i].entries \subseteq LiveEntries(i)
    BY <2>2, <2>3, <2>4 DEF Sound, Within, LiveEntries
  <2>6. LiveEntries(i) \subseteq file[i].entries
    BY <2>2, <2>4 DEF Sound, Covers, LiveEntries
  <2>7. QED
    BY <2>5, <2>6
<1>2. QED
  BY <1>1, TableInductive, PTL

\* The index the planner chooses finds the rows that a scan of the table
\* finds, even when stale entries are left in it.
LEMMA HitsExact ==
    ASSUME FaithfulKeys, Ready, pc = "idle", NEW w \in Where, NEW hits \in Hits(w)
    PROVE  hits = TableScan(w)
<1>1. CASE Covered(w) = {}
  BY <1>1 DEF Hits
<1>2. CASE Covered(w) # {}
  <2>1. PICK p \in Covered(w) :
            \E a \in StreamAnswers(defs[p], LookupKey(defs[p], w)) : hits = IndexScan(w, a)
    BY <1>2 DEF Hits
  <2> DEFINE i == defs[p]
             k == LookupKey(i, w)
  <2>2. PICK a \in StreamAnswers(i, k) : hits = IndexScan(w, a)
    BY <2>1
  <2>3. i \in Defined /\ i \in Index /\ IndexCols[i] \subseteq DOMAIN w.eq
    BY DefinedIndexes DEF Covered, Defined, Ready
  <2>4. Sound(data, i, file[i].entries, Live, damage)
    BY <2>3, ReadyFiles DEF FileExact
  <2>5. Live \subseteq 1..Len(data) /\ Len(data) \in Nat
    BY LiveType, LenProperties DEF Ready, TypeOK
  <2>6. ASSUME NEW o \in TableScan(w)
        PROVE  Entry(i, data[o].val, o) \in EntriesFor(file[i], k)
    <3>1. o \in Live /\ \A c \in IndexCols[i] : RowAt(o)[c] = w.eq[c]
      BY <2>3 DEF TableScan, Satisfies
    <3>2. RowAt(o) = data[o].val
      BY <2>5, <3>1, FaithfulRead DEF FaithfulKeys, Ready
    <3>3. KeyOf(i, data[o].val) = k
      BY <3>1, <3>2 DEF KeyOf, LookupKey
    <3>4. QED
      BY <2>4, <3>1, <3>3, EntryIs DEF Sound, Covers, EntriesFor
  <2>7. hits = {o \in {a} : o \in TableScan(w)}
    BY <2>2 DEF IndexScan, TableScan
  <2>8. ASSUME NEW o \in TableScan(w)
        PROVE  o = a
    <3>1. PICK e \in EntriesFor(file[i], k) : e = Entry(i, data[o].val, o)
      BY <2>6
    <3>2. file[i].kind = "tree"
      BY <2>3, <3>1 DEF Ready, RootsInv, EntriesFor
    <3>3. PICK f \in EntriesFor(file[i], k) : a = f.off
      BY <2>2, <3>1, <3>2 DEF StreamAnswers
    <3>4. e = f
      BY <2>4, <3>1, <3>3 DEF Sound, KeyedOnce, EntriesFor
    <3>5. Entry(i, data[o].val, o).off = o
      BY EntryIs
    <3>6. QED
      BY <3>1, <3>3, <3>4, <3>5
  <2>9. QED
    BY <2>7, <2>8
<1>3. QED
  BY <1>1, <1>2

\* An answer is given when it is true, and taken back by the next statement.
LEMMA NextReply ==
    ASSUME FaithfulKeys, TableInv, SelectExact, NoSpuriousDuplicate, [Next]_vars
    PROVE  SelectExact' /\ NoSpuriousDuplicate'
<1>1. CASE reply'.outcome \notin {"rows", "duplicate"}
  BY <1>1 DEF SelectExact, NoSpuriousDuplicate
<1>2. CASE UNCHANGED vars
  <2>1. Live' = Live /\ Defined' = Defined
    BY <1>2 DEF vars, Live, Defined
  <2>2. QED
    BY <1>2, <2>1 DEF vars, SelectExact, NoSpuriousDuplicate, RowAt
<1>3. ASSUME NEW w \in Where, NEW ignoreIndex \in BOOLEAN, Select(w, ignoreIndex)
      PROVE  SelectExact' /\ NoSpuriousDuplicate'
  <2>1. PICK hits \in IF ignoreIndex THEN {TableScan(w)} ELSE Hits(w) :
            reply' = [outcome |-> "rows", where |-> w, rows |-> hits]
    BY <1>3 DEF Select, Refuse
  <2>2. UNCHANGED <<data, damage>> /\ Live' = Live /\ pc = "idle"
    BY <1>3 DEF Select, Refuse, Live, disk
  <2>3. damage \subseteq {"stale"} => hits = TableScan(w)
    BY <2>1, <2>2, HitsExact DEF TableInv, UniqueInv, Ready
  <2>4. QED
    BY <2>1, <2>2, <2>3 DEF SelectExact, NoSpuriousDuplicate, TableScan, RowAt
<1>4. ASSUME NEW row \in Row, InsertDuplicate(row)
      PROVE  SelectExact' /\ NoSpuriousDuplicate'
  <2>1. /\ reply' = [outcome |-> "duplicate", row |-> row]
        /\ UNCHANGED <<data, damage>> /\ Live' = Live /\ Defined' = Defined /\ pc = "idle"
        /\ HasDuplicate(Loaded, row)
    BY <1>4 DEF InsertDuplicate, Refuse, Live, Defined, disk
  <2>2. ASSUME damage = {}
        PROVE  \E o \in Live : \E i \in Defined : KeyOf(i, RowAt(o)) = KeyOf(i, ReadRow(row))
    <3>1. Ready
      BY <2>2 DEF TableInv, UniqueInv, Ready
    <3>2. PICK i \in Defined : EntriesFor(Loaded[i], KeyOf(i, row)) # {}
      BY <2>1 DEF HasDuplicate
    <3>3. PICK e \in file[i].entries : e.key = KeyOf(i, row)
      BY <3>1, <3>2, LoadedIsFile DEF EntriesFor, Ready
    <3>4. e.off \in Live
      BY <2>1, <2>2, <3>1, ReadyFiles DEF FileExact, Sound, Within
    <3>5. e.key = KeyOf(i, data[e.off].val)
      BY <2>1, <3>1, ReadyHome, EntryIs DEF Ready, Shape
    <3>6. RowAt(e.off) = data[e.off].val /\ ReadRow(row) = row
      BY <3>1, <3>4, FaithfulRead, FaithfulRow, LiveType DEF FaithfulKeys, Ready
    <3>7. QED
      BY <3>3, <3>4, <3>5, <3>6
  <2>3. QED
    BY <2>1, <2>2 DEF SelectExact, NoSpuriousDuplicate, RowAt
<1>5. CASE UNCHANGED reply /\ pc # "idle"
  BY <1>1, <1>5 DEF TableInv, AnswerInv
<1>6. CASE Statement
  BY <1>1, <1>3, <1>4, <1>6 DEF Statement, Insert, Delete, Update, UpdateConflict,
     Hang, CreateIndex, CreateIndexDuplicate, DropIndex, Truncate, TruncateNoFile,
     Die, Refuse, Begin, NoReply, Answer
<1>7. CASE Step \/ Crash
  BY <1>1, <1>5, <1>7 DEF Step, Crash, AppendRow, Collect, CollectDone, FlagRow, FlagDone,
     MoveRow, PlaceRow, MoveDone, OpenIndex, WriteNodes, WriteRoot, Acknowledge, Finish,
     DefineIndex, DropIndexFile, RecreateData, PurgeIndex, PurgeDone, Answer
<1>8. QED
  BY <1>2, <1>6, <1>7 DEF Next

LEMMA RepliesTrue ==
    ASSUME FaithfulKeys
    PROVE  Spec => [](SelectExact /\ NoSpuriousDuplicate)
<1>1. Init => SelectExact /\ NoSpuriousDuplicate
  BY DEF Init, NoReply, SelectExact, NoSpuriousDuplicate
<1>2. TableInv /\ SelectExact /\ NoSpuriousDuplicate /\ [Next]_vars
        => SelectExact' /\ NoSpuriousDuplicate'
  BY NextReply
<1>3. QED
  BY <1>1, <1>2, TableInductive, PTL DEF Spec

\* Whichever way the planner takes, a SELECT answers the live rows that
\* satisfy its WHERE clause, and no others.
THEOREM SelectsExact ==
    ASSUME FaithfulKeys
    PROVE  Spec => []SelectExact
BY RepliesTrue, PTL

\* An INSERT is refused as a duplicate only where a live row has its key.
THEOREM DuplicatesReal ==
    ASSUME FaithfulKeys
    PROVE  Spec => []NoSpuriousDuplicate
BY RepliesTrue, PTL

\* Whatever the keys and wherever a statement dies, the rows it did not select
\* stay live, and an UPDATE has at most one row in its hands to lose.
THEOREM OthersStay == Spec => []OthersUntouched
<1> DEFINE Inv == TypeOK /\ Shape /\ TargetInv
<1>1. Init => Inv
  BY InitTable DEF TableInv
<1>2. Inv /\ [Next]_vars => Inv'
  BY NextType, NextTarget
<1>3. Inv => OthersUntouched
  <2> SUFFICES ASSUME Inv PROVE OthersUntouched
    OBVIOUS
  <2>1. Cardinality(Live) \in Nat
    BY LiveFinite
  <2>2. QED
    BY <2>1 DEF TargetInv, OthersUntouched
<1>4. QED
  BY <1>1, <1>2, <1>3, PTL DEF Spec

(***************************************************************************)
(* The files a statement needs are there.                                  *)
(***************************************************************************)
\* What the operations on an index set leave readable.
LEMMA InsertReadable ==
    ASSUME NEW m, NEW row, NEW o, \A i \in Index : Readable(m[i])
    PROVE  \A i \in Index : Readable(IndexSetInsert(m, row, o)[i])
BY DEF IndexSetInsert, Readable, Tree

LEMMA DeleteReadable ==
    ASSUME NEW m, NEW row, NEW after \in IndexSetDeletes(m, row),
           \A i \in Index : Readable(m[i])
    PROVE  \A i \in Index : Readable(after[i])
BY DEF IndexSetDeletes, AfterDelete, Removals, Readable, Tree

LEMMA LoadedReadable ==
    ASSUME Loadable
    PROVE  \A i \in Index : Readable(Loaded[i])
BY DEF Loadable, Loaded, Readable, ZeroFile

\* Where the queue is empty no file is excepted.
LEMMA NoQueue ==
    ASSUME TypeOK, queue = <<>>
    PROVE  InQueue = {}
BY EmptySeq DEF InQueue

LEMMA AllReadable ==
    ASSUME TypeOK, Shape, ReadableInv, pc \notin {"save", "write", "define", "unlink", "purge"}
    PROVE  \A i \in Defined : Readable(file[i])
BY NoQueue DEF Shape, ReadableInv

\* A death that does no damage is one with no file of the table half written.
LEMMA WholeReadable ==
    ASSUME TypeOK, Shape, NamesInv, ReadableInv, Damage = {}
    PROVE  \A i \in Defined : Readable(file[i])
<1>1. CASE pc \in {"save", "write", "define"}
  <2>1. kind = "create_index" /\ Len(queue) = 1 /\ Head(queue) \notin Defined
    BY <1>1 DEF Shape, Damage
  <2>2. InQueue = {Head(queue)}
    BY <2>1, HeadTailProperties DEF InQueue, TypeOK
  <2>3. QED
    BY <1>1, <2>1, <2>2 DEF ReadableInv
<1>2. CASE pc = "unlink"
  <2>1. Len(queue) = 1 /\ Head(queue) \notin Defined
    BY <1>2 DEF Shape, NamesInv
  <2>2. InQueue = {Head(queue)}
    BY <2>1, HeadTailProperties DEF InQueue, TypeOK
  <2>3. QED
    BY <1>2, <2>1, <2>2 DEF ReadableInv
<1>3. CASE pc = "purge"
  BY <1>3 DEF Shape, Damage
<1>4. QED
  BY <1>1, <1>2, <1>3, AllReadable

LEMMA NextReadable ==
    ASSUME TypeOK, Shape, TruncateInv, NamesInv, ReadableInv, [Next]_vars, damage' = {}
    PROVE  ReadableInv'
<1> DEFINE Whole == \A i \in Defined : Readable(file[i])
           Mems(m) == \A i \in Index : Readable(m[i])
<1>1. /\ exists \/ pc = "recreate"
      /\ Mems(mem)
      /\ pc # "purge" => \A i \in Defined \ InQueue : Readable(file[i])
      /\ pc = "define" => Readable(file[Head(queue)])
  BY DEF ReadableInv
<1>2. pc \notin {"save", "write", "define", "unlink", "purge"} => Whole
  BY AllReadable
<1>3. Mems([i \in Index |-> ZeroFile])
  BY DEF Readable, ZeroFile
<1>4. ASSUME UNCHANGED <<exists, file, defs, queue>>, Mems(mem'), pc' = pc
      PROVE  ReadableInv'
  BY <1>1, <1>4 DEF ReadableInv, Defined, InQueue
<1>5. ASSUME UNCHANGED <<file, defs>>, exists', Mems(mem'), Whole,
             pc' \in {"idle", "append", "collect", "flag", "move", "place", "ack", "hung"}
      PROVE  ReadableInv'
  BY <1>5 DEF ReadableInv, Defined
<1>6. ASSUME UNCHANGED <<exists, file, defs>>, Mems(mem'), StartSave(defs), exists
      PROVE  ReadableInv'
  <2>1. InQueue' = Defined /\ Defined' = Defined /\ pc' \in {"ack", "save"}
    BY <1>6 DEF StartSave, InQueue, Defined
  <2>2. QED
    BY <1>6, <2>1 DEF ReadableInv
<1>7. ASSUME NEW row \in Row, Insert(row)
      PROVE  ReadableInv'
  BY <1>2, <1>5, <1>7, LoadedReadable DEF Insert, Begin, Loadable, disk
<1>8. ASSUME NEW w \in Where, Delete(w)
      PROVE  ReadableInv'
  BY <1>2, <1>5, <1>8, LoadedReadable DEF Delete, Begin, Loadable, disk
<1>9. ASSUME NEW w \in Where, NEW asg \in Assignment, Update(w, asg)
      PROVE  ReadableInv'
  BY <1>2, <1>5, <1>9, LoadedReadable DEF Update, Begin, Loadable, disk
<1>10. ASSUME NEW w \in Where, Hang(w)
       PROVE  ReadableInv'
  BY <1>1, <1>2, <1>5, <1>10 DEF Hang, Begin, disk
<1>11. ASSUME NEW i \in Index, CreateIndex(i)
       PROVE  ReadableInv'
  <2>1. pc = "idle" /\ pc' = "save" /\ exists /\ UNCHANGED <<exists, file, defs>>
    BY <1>11 DEF CreateIndex, Begin, disk
  <2>2. Mems(mem')
    BY <1>1, <1>11 DEF CreateIndex, Readable, Tree, ZeroFile, TypeOK, IsIndexSet
  <2>3. QED
    BY <1>2, <2>1, <2>2 DEF ReadableInv, Defined
<1>12. ASSUME NEW p \in 1..Len(defs), DropIndex(p)
       PROVE  ReadableInv'
  <2>1. pc = "idle" /\ pc' = "unlink" /\ UNCHANGED <<exists, file, mem>> /\ defs' = Without(p)
    BY <1>12 DEF DropIndex, Begin
  <2>2. Len(defs) \in Nat
    BY LenProperties DEF TypeOK
  <2>3. Defined' \subseteq Defined
    <3>1. /\ Len(defs') = Len(defs) - 1
          /\ \A q \in 1..Len(defs') : defs'[q] = IF q < p THEN defs[q] ELSE defs[q + 1]
      BY <2>1, <2>2, WithoutType, LenProperties DEF Without
    <3>2. \A q \in 1..Len(defs') : \E r \in 1..Len(defs) : defs'[q] = defs[r]
      BY <2>2, <3>1
    <3>3. QED
      BY <3>2 DEF Defined
  <2>4. QED
    BY <1>1, <1>2, <2>1, <2>3 DEF ReadableInv
<1>13. CASE Truncate
  <2>1. pc' = "recreate" /\ UNCHANGED <<file, defs, mem>> /\ pc = "idle"
    BY <1>13 DEF Truncate, Begin
  <2>2. QED
    BY <1>1, <1>2, <2>1 DEF ReadableInv, Defined
<1>14. CASE AppendRow
  <2>1. PICK item \in todo : mem' = IndexSetInsert(mem, item.new, EndOffset)
    BY <1>14 DEF AppendRow
  <2>2. QED
    BY <1>1, <1>6, <1>14, <2>1, InsertReadable DEF AppendRow
<1>15. CASE Collect
  <2>1. PICK item \in First(todo) : mem' \in IndexSetDeletes(mem, item.new)
    BY <1>15 DEF Collect
  <2>2. QED
    BY <1>1, <1>4, <1>15, <2>1, DeleteReadable DEF Collect, disk
<1>16. CASE CollectDone \/ FlagRow \/ MoveRow
  BY <1>1, <1>2, <1>5, <1>16 DEF CollectDone, FlagRow, MoveRow, disk
<1>17. CASE PlaceRow
  <2>1. PICK item \in First(todo) : \E after \in IndexSetDeletes(mem, RowAt(item.off)) :
            mem' = IndexSetInsert(after, item.new, EndOffset)
    BY <1>17 DEF PlaceRow
  <2>2. PICK after \in IndexSetDeletes(mem, RowAt(item.off)) :
            mem' = IndexSetInsert(after, item.new, EndOffset)
    BY <2>1
  <2>3. Mems(after)
    BY <1>1, <2>2, DeleteReadable
  <2>4. Mems(mem')
    BY <2>2, <2>3, InsertReadable
  <2>5. QED
    BY <1>1, <1>2, <1>5, <1>17, <2>4 DEF PlaceRow
<1>18. CASE FlagDone \/ MoveDone \/ PurgeDone
  BY <1>1, <1>6, <1>18 DEF FlagDone, MoveDone, PurgeDone, disk
<1>19. CASE OpenIndex \/ WriteNodes
  <2>1. /\ pc \in {"save", "write"} /\ pc' = "write" /\ UNCHANGED <<exists, defs, mem, queue>>
        /\ \E img : file' = [file EXCEPT ![Head(queue)] = img]
    BY <1>19 DEF OpenIndex, WriteNodes
  <2>2. Head(queue) \in InQueue
    BY <2>1, QueueHead DEF Shape, InQueue
  <2>3. \A i \in Defined \ InQueue : file'[i] = file[i]
    BY <2>1, <2>2, DefinedIndexes DEF TypeOK, IsIndexSet
  <2>4. QED
    BY <1>1, <2>1, <2>3 DEF ReadableInv, Defined, InQueue
<1>20. CASE WriteRoot
  <2>1. /\ pc = "write" /\ UNCHANGED <<exists, defs, mem>> /\ exists
        /\ file' = [file EXCEPT ![Head(queue)] = mem[Head(queue)]]
        /\ \/ kind = "create_index" /\ pc' = "define" /\ queue' = queue
           \/ StartSave(Tail(queue))
    BY <1>1, <1>20 DEF WriteRoot
  <2>2. Head(queue) \in InQueue /\ Head(queue) \in Index
    BY <2>1, QueueHead DEF Shape, InQueue
  <2>3. Readable(file'[Head(queue)]) /\ \A i \in Index \ {Head(queue)} : file'[i] = file[i]
    BY <1>1, <2>1, <2>2 DEF TypeOK, IsIndexSet
  <2>4. CASE pc' = "define" /\ queue' = queue
    BY <1>1, <2>1, <2>2, <2>3, <2>4, DefinedIndexes DEF ReadableInv, Defined, InQueue
  <2>5. CASE StartSave(Tail(queue))
    <3>1. InQueue \subseteq InQueue' \cup {Head(queue)}
      <4>1. /\ Len(queue) \in Nat /\ Len(queue') = Len(queue) - 1 /\ Head(queue) = queue[1]
            /\ \A p \in 1..Len(queue') : queue'[p] = queue[p + 1]
        BY <2>1, <2>5, QueueHead DEF Shape, StartSave
      <4>2. ASSUME NEW p \in 1..Len(queue), p # 1
            PROVE  queue[p] \in InQueue'
        <5>1. p - 1 \in 1..Len(queue') /\ queue'[p - 1] = queue[p]
          BY <4>1, <4>2
        <5>2. QED
          BY <5>1 DEF InQueue
      <4>3. QED
        BY <4>1, <4>2 DEF InQueue
    <3>2. \A i \in Defined \ InQueue' : Readable(file'[i])
      BY <1>1, <2>1, <2>3, <3>1, DefinedIndexes
    <3>3. pc' \in {"ack", "save"}
      BY <2>5 DEF StartSave
    <3>4. QED
      BY <1>1, <2>1, <3>2, <3>3 DEF ReadableInv, Defined
  <2>6. QED
    BY <2>1, <2>4, <2>5
<1>21. CASE Acknowledge
  BY <1>1, <1>2, <1>3, <1>5, <1>21 DEF Acknowledge, Finish, disk
<1>22. CASE DefineIndex
  <2>1. /\ pc = "define" /\ pc' = "ack" /\ UNCHANGED <<exists, file, mem>>
        /\ defs' = Append(defs, Head(queue)) /\ Len(queue) = 1 /\ exists
    BY <1>1, <1>22 DEF DefineIndex, Shape
  <2>2. Head(queue) \in Index /\ InQueue = {Head(queue)}
    BY <2>1, QueueHead, EmptySeq DEF InQueue
  <2>3. Defined' \subseteq Defined \cup {Head(queue)}
    BY <2>1, <2>2, AppendProperties DEF Defined, TypeOK
  <2>4. QED
    BY <1>1, <2>1, <2>2, <2>3 DEF ReadableInv
<1>23. CASE DropIndexFile
  <2>1. /\ pc = "unlink" /\ pc' = "ack" /\ UNCHANGED <<exists, defs, mem>> /\ exists
        /\ file' = [file EXCEPT ![Head(queue)] = NoFile] /\ Len(queue) = 1
        /\ Head(queue) \notin Defined
    BY <1>1, <1>23 DEF DropIndexFile, Shape, NamesInv
  <2>2. InQueue = {Head(queue)}
    BY <2>1, QueueHead, EmptySeq DEF InQueue
  <2>3. \A i \in Defined : file'[i] = file[i]
    BY <2>1, DefinedIndexes DEF TypeOK, IsIndexSet
  <2>4. QED
    BY <1>1, <2>1, <2>2, <2>3 DEF ReadableInv, Defined
<1>24. CASE RecreateData \/ PurgeIndex
  BY <1>1, <1>24 DEF RecreateData, PurgeIndex, ReadableInv
<1>25. CASE Crash
  <2>1. Damage = {}
    BY <1>25 DEF Crash
  <2>2. Whole
    BY <2>1, WholeReadable
  <2>3. pc # "recreate"
    BY <2>1 DEF Damage, Shape
  <2>4. QED
    BY <1>1, <1>3, <1>5, <1>25, <2>2, <2>3 DEF Crash, Finish, disk
<1>26. ASSUME UNCHANGED <<disk, mem, pc, queue>>
       PROVE  ReadableInv'
  BY <1>1, <1>4, <1>26 DEF disk
<1>27. CASE Statement
  BY <1>7, <1>8, <1>9, <1>10, <1>11, <1>12, <1>13, <1>26, <1>27 DEF Statement, InsertDuplicate,
     UpdateConflict, Select, CreateIndexDuplicate, TruncateNoFile, Die, Refuse
<1>28. CASE Step
  BY <1>14, <1>15, <1>16, <1>17, <1>18, <1>19, <1>20, <1>21, <1>22, <1>23, <1>24, <1>28 DEF Step
<1>29. CASE UNCHANGED vars
  BY <1>26, <1>29 DEF vars, disk
<1>30. QED
  BY <1>25, <1>27, <1>28, <1>29 DEF Next

(***************************************************************************)
(* The rows of a table as the bag they are.                                *)
(***************************************************************************)
LEMMA SameCount == \A S : Rel!Cardinality(S) = Cardinality(S)
BY DEF Rel!Cardinality, Cardinality

\* Of these offsets, those that hold this row.
Having(offs, r) == {o \in offs : RowAt(o) = r}

LEMMA HavingFinite ==
    ASSUME TypeOK, NEW offs \in SUBSET (1..Len(data)), NEW r
    PROVE  /\ IsFiniteSet(offs)
           /\ IsFiniteSet(Having(offs, r))
           /\ Cardinality(Having(offs, r)) \in Nat
           /\ Cardinality(Having(offs, r)) > 0 <=> Having(offs, r) # {}
<1>1. Len(data) \in Nat
  BY LenProperties DEF TypeOK
<1>2. IsFiniteSet(1..Len(data))
  BY <1>1, FS_Interval
<1>3. IsFiniteSet(offs)
  BY <1>2, FS_Subset
<1>4. Having(offs, r) \in SUBSET offs
  BY DEF Having
<1>5. IsFiniteSet(Having(offs, r))
  BY <1>3, <1>4, FS_Subset
<1>6. Cardinality(Having(offs, r)) \in Nat
  BY <1>5, FS_CardinalityType
<1>7. Cardinality(Having(offs, r)) = 0 <=> Having(offs, r) = {}
  BY <1>5, FS_EmptySet
<1>8. QED
  BY <1>3, <1>5, <1>6, <1>7

LEMMA BagIs ==
    ASSUME NEW offs
    PROVE  BagOf(offs) = [r \in Row |-> Cardinality(Having(offs, r))]
BY DEF BagOf, Having

LEMMA BagPresent ==
    ASSUME TypeOK, NEW offs \in SUBSET (1..Len(data))
    PROVE  Rel!Present(BagOf(offs)) = {RowAt(o) : o \in offs}
<1>1. \A r \in Row : BagOf(offs)[r] > 0 <=> Having(offs, r) # {}
  BY BagIs, HavingFinite
<1>2. \A o \in offs : RowAt(o) \in Row
  BY LiveType
<1>3. QED
  BY <1>1, <1>2 DEF Rel!Present, Having

LEMMA BagEmpty == BagOf({}) = [r \in Row |-> 0]
<1>1. \A r \in Row : Having({}, r) = {}
  BY DEF Having
<1>2. QED
  BY <1>1, BagIs, FS_EmptySet

LEMMA BagPlus ==
    ASSUME TypeOK, NEW offs \in SUBSET (1..Len(data)), NEW o \in (1..Len(data)) \ offs
    PROVE  BagOf(offs \cup {o}) = Rel!Plus(BagOf(offs), RowAt(o))
<1>1. RowAt(o) \in Row
  BY LiveType
<1>2. ASSUME NEW r \in Row
      PROVE  Cardinality(Having(offs \cup {o}, r)) =
                Cardinality(Having(offs, r)) + (IF r = RowAt(o) THEN 1 ELSE 0)
  <2>1. IsFiniteSet(Having(offs, r)) /\ Cardinality(Having(offs, r)) \in Nat
    BY HavingFinite
  <2>2. CASE r = RowAt(o)
    <3>1. Having(offs \cup {o}, r) = Having(offs, r) \cup {o} /\ o \notin Having(offs, r)
      BY <2>2 DEF Having
    <3>2. QED
      BY <2>1, <2>2, <3>1, FS_AddElement
  <2>3. CASE r # RowAt(o)
    <3>1. Having(offs \cup {o}, r) = Having(offs, r)
      BY <2>3 DEF Having
    <3>2. QED
      BY <2>1, <2>3, <3>1
  <2>4. QED
    BY <2>2, <2>3
<1>3. \A r \in Row : Cardinality(Having(offs, r)) \in Nat
  BY HavingFinite
<1> DEFINE bag == BagOf(offs)
           more == BagOf(offs \cup {o})
<1>4. /\ bag = [r \in Row |-> bag[r]] /\ more = [r \in Row |-> more[r]]
      /\ \A r \in Row : more[r] = bag[r] + (IF r = RowAt(o) THEN 1 ELSE 0) /\ bag[r] \in Nat
  BY <1>2, <1>3, BagIs
<1> HIDE DEF bag, more
<1>5. more = [bag EXCEPT ![RowAt(o)] = bag[RowAt(o)] + 1]
  BY <1>1, <1>4
<1>6. QED
  BY <1>5 DEF Rel!Plus, bag, more

LEMMA BagMinus ==
    ASSUME NEW offs, NEW w
    PROVE  BagOf({o \in offs : ~Satisfies(w, RowAt(o))}) = Rel!Minus(BagOf(offs), w)
<1> DEFINE left == {o \in offs : ~Satisfies(w, RowAt(o))}
<1>1. ASSUME NEW r \in Row
      PROVE  Cardinality(Having(left, r)) =
                IF Satisfies(w, r) THEN 0 ELSE Cardinality(Having(offs, r))
  <2>1. Having(left, r) = IF Satisfies(w, r) THEN {} ELSE Having(offs, r)
    BY DEF Having
  <2>2. QED
    BY <2>1, FS_EmptySet
<1> HIDE DEF left
<1>2. BagOf(left) = Rel!Minus(BagOf(offs), w)
  BY <1>1, BagIs DEF Rel!Minus
<1>3. QED
  BY <1>2 DEF left

LEMMA BagKept ==
    ASSUME NEW offs, NEW w
    PROVE  BagOf({o \in offs : Satisfies(w, RowAt(o))}) = Rel!Kept(BagOf(offs), w)
<1> DEFINE hits == {o \in offs : Satisfies(w, RowAt(o))}
<1>1. ASSUME NEW r \in Row
      PROVE  Cardinality(Having(hits, r)) =
                IF Satisfies(w, r) THEN Cardinality(Having(offs, r)) ELSE 0
  <2>1. Having(hits, r) = IF Satisfies(w, r) THEN Having(offs, r) ELSE {}
    BY DEF Having
  <2>2. QED
    BY <2>1, FS_EmptySet
<1> HIDE DEF hits
<1>2. BagOf(hits) = Rel!Kept(BagOf(offs), w)
  BY <1>1, BagIs DEF Rel!Kept
<1>3. QED
  BY <1>2 DEF hits

\* A key is unique in the bag where no two offsets have it.
LEMMA BagUnique ==
    ASSUME TypeOK, NEW offs \in SUBSET (1..Len(data)), NEW i
    PROVE  Rel!Unique(BagOf(offs), i) <=>
             \A o, p \in offs : KeyOf(i, RowAt(o)) = KeyOf(i, RowAt(p)) => o = p
<1> DEFINE bag == BagOf(offs)
           Apart == \A o, p \in offs : KeyOf(i, RowAt(o)) = KeyOf(i, RowAt(p)) => o = p
<1>1. Rel!Unique(bag, i) <=>
        \A o, p \in offs :
            /\ bag[RowAt(o)] = 1
            /\ KeyOf(i, RowAt(o)) = KeyOf(i, RowAt(p)) => RowAt(o) = RowAt(p)
  BY BagPresent DEF Rel!Unique
<1>2. \A o \in offs : RowAt(o) \in Row
  BY LiveType
<1>3. \A o \in offs : /\ IsFiniteSet(Having(offs, RowAt(o)))
                      /\ o \in Having(offs, RowAt(o))
                      /\ bag[RowAt(o)] = Cardinality(Having(offs, RowAt(o)))
  BY <1>2, BagIs, HavingFinite DEF Having
<1> HIDE DEF bag
<1>4. ASSUME Apart
      PROVE  Rel!Unique(bag, i)
  <2>1. \A o \in offs : Having(offs, RowAt(o)) = {o}
    BY <1>4 DEF Having
  <2>2. \A o \in offs : bag[RowAt(o)] = 1
    BY <1>3, <2>1, FS_Singleton
  <2>3. QED
    BY <1>1, <1>4, <2>2
<1>5. ASSUME Rel!Unique(bag, i), NEW o \in offs, NEW p \in offs,
             KeyOf(i, RowAt(o)) = KeyOf(i, RowAt(p))
      PROVE  o = p
  <2>1. RowAt(o) = RowAt(p) /\ bag[RowAt(o)] = 1
    BY <1>1, <1>5
  <2>2. o \in Having(offs, RowAt(o)) /\ p \in Having(offs, RowAt(o))
    BY <2>1 DEF Having
  <2>3. \E x : Having(offs, RowAt(o)) = {x}
    BY <1>3, <2>1, FS_Singleton
  <2>4. QED
    BY <2>2, <2>3
<1>6. QED
  BY <1>4, <1>5 DEF bag

LEMMA RestrictedBijection ==
    ASSUME NEW S, NEW T, NEW f \in Bijection(S, T), NEW A \in SUBSET S, NEW B \in SUBSET T,
           \A x \in S : x \in A <=> f[x] \in B
    PROVE  ExistsBijection(A, B)
<1> DEFINE g == [x \in A |-> f[x]]
<1>1. /\ f \in [S -> T]
      /\ \A x, y \in S : f[x] = f[y] => x = y
      /\ \A t \in T : \E x \in S : f[x] = t
  BY DEF Bijection, Injection, Surjection, IsInjective
<1>2. g \in [A -> B]
  BY <1>1
<1>3. \A x, y \in A : g[x] = g[y] => x = y
  BY <1>1
<1>4. \A t \in B : \E x \in A : g[x] = t
  BY <1>1
<1>5. g \in Bijection(A, B)
  <2> HIDE DEF g
  <2>1. DOMAIN g = A
    BY <1>2
  <2>2. QED
    BY <1>2, <1>3, <1>4, <2>1 DEF Bijection, Injection, Surjection, IsInjective
<1>6. QED
  BY <1>5 DEF ExistsBijection

\* The offsets are as many as the copies they hold.
LEMMA BagCopies ==
    ASSUME TypeOK, NEW offs \in SUBSET (1..Len(data))
    PROVE  \E g \in Bijection(offs, Rel!Copies(BagOf(offs))) :
                \A o \in offs : g[o][1] = RowAt(o)
<1> DEFINE n(r) == Cardinality(Having(offs, r))
           Numbers(r) == Bijection(Having(offs, r), 1..n(r))
           number == [r \in Row |-> CHOOSE f : f \in Numbers(r)]
           copies == Rel!Copies(BagOf(offs))
           g == [o \in offs |-> <<RowAt(o), number[RowAt(o)][o]>>]
<1>1. \A o \in offs : RowAt(o) \in Row /\ o \in Having(offs, RowAt(o))
  BY LiveType DEF Having
<1>2. ASSUME NEW r \in Row PROVE number[r] \in Numbers(r)
  <2>1. ExistsBijection(1..n(r), Having(offs, r))
    BY HavingFinite, FS_CardinalityType
  <2>2. ExistsBijection(Having(offs, r), 1..n(r))
    BY <2>1, Fun_ExistsBijSymmetric
  <2>3. \E f : f \in Numbers(r)
    BY <2>2 DEF ExistsBijection
  <2>4. QED
    BY <2>3
<1>3. \A c : c \in copies <=> \E r \in Row : \E k \in 1..n(r) : c = <<r, k>>
  BY BagIs DEF Rel!Copies
<1>4. ASSUME NEW r \in Row
      PROVE  /\ \A o \in Having(offs, r) : number[r][o] \in 1..n(r)
             /\ \A o, p \in Having(offs, r) : number[r][o] = number[r][p] => o = p
             /\ \A k \in 1..n(r) : \E o \in Having(offs, r) : number[r][o] = k
  <2>1. number[r] \in Bijection(Having(offs, r), 1..n(r))
    BY <1>2
  <2> HIDE DEF number, n
  <2>2. QED
    BY <2>1 DEF Bijection, Injection, Surjection, IsInjective
<1> HIDE DEF n, number, copies
<1>5. g \in [offs -> copies]
  BY <1>1, <1>3, <1>4
<1>6. \A o, p \in offs : g[o] = g[p] => o = p
  <2> SUFFICES ASSUME NEW o \in offs, NEW p \in offs, g[o] = g[p] PROVE o = p
    OBVIOUS
  <2>1. RowAt(o) = RowAt(p) /\ number[RowAt(o)][o] = number[RowAt(p)][p]
    OBVIOUS
  <2>2. QED
    BY <1>1, <1>4, <2>1
<1>7. ASSUME NEW c \in copies PROVE \E o \in offs : g[o] = c
  <2>1. PICK r \in Row : \E k \in 1..n(r) : c = <<r, k>>
    BY <1>3
  <2>2. PICK k \in 1..n(r) : c = <<r, k>>
    BY <2>1
  <2>3. PICK o \in Having(offs, r) : number[r][o] = k
    BY <1>4
  <2>4. QED
    BY <2>2, <2>3 DEF Having
<1>8. g \in Bijection(offs, copies)
  <2> HIDE DEF g
  <2>1. DOMAIN g = offs
    BY <1>5
  <2>2. QED
    BY <1>5, <1>6, <1>7, <2>1 DEF Bijection, Injection, Surjection, IsInjective
<1>9. \A o \in offs : g[o][1] = RowAt(o)
  OBVIOUS
<1>10. QED
  BY <1>8, <1>9 DEF copies

\* Rows that have gone one by one to where their updated selves are.
LEMMA BagMoved ==
    ASSUME TypeOK, NEW offs \in SUBSET (1..Len(data)), NEW after \in SUBSET (1..Len(data)),
           NEW w, NEW asg, NEW h \in Bijection(offs, after),
           \A o \in offs : RowAt(h[o]) = Rel!Updated(RowAt(o), w, asg)
    PROVE  BagOf(after) = Rel!Moved(BagOf(offs), w, asg)
<1> DEFINE copies == Rel!Copies(BagOf(offs))
           To(r) == {o \in offs : Rel!Updated(RowAt(o), w, asg) = r}
           CopiesTo(r) == {c \in copies : Rel!Updated(c[1], w, asg) = r}
<1>1. PICK g \in Bijection(offs, copies) : \A o \in offs : g[o][1] = RowAt(o)
  BY BagCopies
<1>2. g \in [offs -> copies] /\ h \in [offs -> after]
  BY DEF Bijection, Injection
<1> HIDE DEF copies
<1>3. ASSUME NEW r \in Row
      PROVE  Cardinality(Having(after, r)) = Cardinality(CopiesTo(r))
  <2>1. IsFiniteSet(To(r))
    BY HavingFinite, FS_Subset
  <2>2. ExistsBijection(To(r), CopiesTo(r))
    <3>1. To(r) \in SUBSET offs /\ CopiesTo(r) \in SUBSET copies
      OBVIOUS
    <3>2. \A o \in offs : o \in To(r) <=> g[o] \in CopiesTo(r)
      BY <1>1, <1>2
    <3> HIDE DEF To, CopiesTo
    <3>3. QED
      BY <3>1, <3>2, RestrictedBijection
  <2>3. ExistsBijection(To(r), Having(after, r))
    <3>1. To(r) \in SUBSET offs /\ Having(after, r) \in SUBSET after
      BY DEF Having
    <3>2. \A o \in offs : o \in To(r) <=> h[o] \in Having(after, r)
      BY <1>2 DEF Having
    <3> HIDE DEF To
    <3>3. QED
      BY <3>1, <3>2, RestrictedBijection
  <2>4. QED
    <3> HIDE DEF To, CopiesTo
    <3>1. QED
      BY <2>1, <2>2, <2>3, FS_Bijection
<1>4. BagOf(after) = [r \in Row |-> Rel!Cardinality(CopiesTo(r))]
  <2> HIDE DEF CopiesTo
  <2>1. QED
    BY <1>3, BagIs, SameCount
<1>5. QED
  BY <1>4 DEF Rel!Moved, copies

(***************************************************************************)
(* How far a statement has come in changing the rows.                      *)
(***************************************************************************)
\* A step that changes no rows.
LEMMA EffectSame ==
    ASSUME EffectInv, UNCHANGED <<data, kind, todo, target, base>>,
           pc # "append", pc' # "append",
           pc = "collect" <=> pc' = "collect", pc = "place" <=> pc' = "place",
           kind \in {"delete", "update"} /\ pc' \in {"save", "write", "ack"} => todo = {}
    PROVE  EffectInv'
<1>1. /\ Live' = Live /\ Pending' = Pending /\ Moving' = Moving /\ Changing' = Changing
  BY DEF Live, Pending, Moving, First, Changing
<1>2. Kept' = Kept
  BY <1>1 DEF Kept
<1>3. kind = "delete" => DeleteEffect'
  BY <1>1 DEF EffectInv, DeleteEffect
<1>4. kind = "update" => UpdateEffect'
  <2> SUFFICES ASSUME kind = "update" PROVE UpdateEffect'
    OBVIOUS
  <2>1. PICK w \in Where, asg \in Assignment :
            /\ target = {o \in base : Satisfies(w, data[o].val) /\ Changed(data[o].val, asg)}
            /\ \A item \in todo : item.new = Assign(data[item.off].val, asg)
            /\ \E h \in Bijection(base, Kept) : Traces(h, asg)
    BY DEF EffectInv, UpdateEffect
  <2>2. PICK h \in Bijection(base, Kept) : Traces(h, asg)
    BY <2>1
  <2>3. Traces(h, asg)'
    BY <1>1, <2>2 DEF Traces
  <2>4. h \in Bijection(base, Kept)'
    BY <1>2, <2>2
  <2>5. \E g \in Bijection(base, Kept)' : Traces(g, asg)'
    BY <2>3, <2>4
  <2>6. QED
    BY <2>1, <2>5 DEF UpdateEffect
<1>5. QED
  BY <1>1, <1>3, <1>4 DEF EffectInv, InsertEffect

\* Between statements there is nothing to say.
LEMMA EffectNone ==
    ASSUME pc' # "append", kind' \in {"none", "truncate"}
    PROVE  EffectInv'
BY DEF EffectInv

LEMMA InsertBegins ==
    ASSUME Ready, NEW row \in Row, Insert(row)
    PROVE  EffectInv'
BY LiveType DEF Ready, Insert, Begin, disk, EffectInv, Live

LEMMA AppendEffect ==
    ASSUME Ready, EffectInv, AppendRow
    PROVE  EffectInv'
<1>1. /\ UNCHANGED <<base, kind>>
      /\ pc = "append" /\ kind = "insert" /\ pc' \in {"ack", "save"} /\ todo' = {}
  BY DEF AppendRow, StartSave, Ready, Shape
<1>2. PICK item \in todo : data' = Append1(item.new)
  BY DEF AppendRow
<1>3. item.new \in Row /\ Len(data) \in Nat
  BY LenProperties DEF Ready, TypeOK, Work
<1>4. /\ Live' = Live \cup {EndOffset} /\ EndOffset \notin 1..Len(data)
      /\ Len(data') = Len(data) + 1 /\ EndOffset = Len(data) + 1
  BY <1>2, <1>3, AppendLive DEF Ready, EndOffset
<1>5. base \subseteq 1..Len(data) /\ Live = base
  BY <1>1 DEF EffectInv
<1>6. EndOffset \in (1..Len(data')) \ base' /\ base' \subseteq 1..Len(data')
  BY <1>1, <1>3, <1>4, <1>5
<1>7. InsertEffect'
  BY <1>1, <1>4, <1>5, <1>6 DEF InsertEffect
<1>8. QED
  BY <1>1, <1>6, <1>7 DEF EffectInv

LEMMA DeleteBegins ==
    ASSUME FaithfulKeys, Ready, NEW w \in Where, Delete(w)
    PROVE  EffectInv'
<1>1. /\ UNCHANGED data /\ Live' = Live /\ base' = Live
      /\ pc = "idle" /\ pc' = "collect" /\ kind' = "delete"
  BY DEF Delete, Begin, disk, Live
<1>2. PICK hits \in Hits(w) : /\ todo' = {[off |-> o, new |-> RowAt(o)] : o \in hits}
                              /\ target' = hits
  BY DEF Delete
<1>3. hits = TableScan(w)
  BY <1>1, HitsExact
<1>4. \A o \in Live : RowAt(o) = data[o].val
  BY FaithfulRead, LiveType DEF FaithfulKeys, Ready
<1>5. target' = {o \in base' : Satisfies(w, data'[o].val)}
  BY <1>1, <1>2, <1>3, <1>4 DEF TableScan
<1>6. \A item, other \in todo' : item.off = other.off => item = other
  BY <1>2
<1>7. DeleteEffect'
  BY <1>1, <1>5, <1>6 DEF DeleteEffect
<1>8. QED
  BY <1>1, <1>7, LiveType DEF EffectInv, Ready

LEMMA CollectEffect ==
    ASSUME Ready, EffectInv, Collect
    PROVE  EffectInv'
<1>1. /\ UNCHANGED <<data, base, target, kind, pc>> /\ Live' = Live
      /\ pc = "collect" /\ kind = "delete" /\ todo' \subseteq todo
  BY DEF Collect, disk, Live, Ready, Shape
<1>2. DeleteEffect'
  BY <1>1 DEF EffectInv, DeleteEffect
<1>3. QED
  BY <1>1, <1>2 DEF EffectInv

LEMMA CollectDoneEffect ==
    ASSUME Ready, EffectInv, CollectDone
    PROVE  EffectInv'
<1>1. /\ UNCHANGED <<data, base, target, kind>> /\ Live' = Live
      /\ pc = "collect" /\ kind = "delete" /\ pc' = IF target = {} THEN "ack" ELSE "flag"
      /\ todo' = {[off |-> o, new |-> RowAt(o)] : o \in target}
  BY DEF CollectDone, disk, Live, Ready, Shape
<1>2. Pending' = target
  BY <1>1, WorkOffsets DEF Pending
<1>3. Changing' = {}
  BY <1>1, <1>2 DEF Changing
<1>4. Live' = base' \ Changing'
  BY <1>1, <1>3 DEF EffectInv, DeleteEffect
<1>5. \A item, other \in todo' : item.off = other.off => item = other
  BY <1>1
<1>6. DeleteEffect'
  BY <1>1, <1>4, <1>5 DEF EffectInv, DeleteEffect
<1>7. QED
  BY <1>1, <1>6 DEF EffectInv

LEMMA FlagEffect ==
    ASSUME Ready, EffectInv, FlagRow
    PROVE  EffectInv'
<1>1. /\ UNCHANGED <<base, target, kind, pc>>
      /\ pc = "flag" /\ kind = "delete"
  BY DEF FlagRow, Ready, Shape
<1>2. PICK item \in todo : data' = SetFlag(item.off) /\ todo' = todo \ {item}
  BY DEF FlagRow, First
<1>3. item.off \in 1..Len(data) /\ item.off \in Pending /\ item.off \in target
  BY <1>1, <1>2 DEF Pending, Ready, Shape, TargetInv
<1>4. /\ Live' = Live \ {item.off} /\ Len(data') = Len(data)
      /\ \A o \in 1..Len(data) : data'[o].val = data[o].val
  BY <1>2, <1>3, FlagLive DEF Ready
<1>5. /\ base \subseteq 1..Len(data) /\ Live = base \ Changing
      /\ \A it, other \in todo : it.off = other.off => it = other
      /\ \E w \in Where : target = {o \in base : Satisfies(w, data[o].val)}
  BY <1>1 DEF EffectInv, DeleteEffect
<1>6. Pending' = Pending \ {item.off}
  BY <1>2, <1>5 DEF Pending
<1>7. Live' = base' \ Changing'
  BY <1>1, <1>3, <1>4, <1>5, <1>6 DEF Changing
<1>8. PICK w \in Where : target = {o \in base : Satisfies(w, data[o].val)}
  BY <1>5
<1>9. target' = {o \in base' : Satisfies(w, data'[o].val)}
  BY <1>1, <1>4, <1>5, <1>8
<1>10. DeleteEffect'
  BY <1>1, <1>2, <1>5, <1>7, <1>9 DEF DeleteEffect
<1>11. QED
  BY <1>1, <1>4, <1>5, <1>10 DEF EffectInv

LEMMA UpdateBegins ==
    ASSUME FaithfulKeys, Ready, NEW w \in Where, NEW asg \in Assignment, Update(w, asg)
    PROVE  EffectInv'
<1>1. /\ UNCHANGED data /\ Live' = Live /\ base' = Live
      /\ pc = "idle" /\ pc' = "move" /\ kind' = "update"
  BY DEF Update, Begin, disk, Live
<1>2. PICK hits \in Hits(w) : /\ todo' = Pairs(hits, asg)
                              /\ target' = {item.off : item \in todo'}
  BY DEF Update
<1>3. hits = TableScan(w)
  BY <1>1, HitsExact
<1>4. \A o \in Live : RowAt(o) = data[o].val
  BY FaithfulRead, LiveType DEF FaithfulKeys, Ready
<1>5. \A item \in todo' : /\ item.off \in hits /\ Changed(RowAt(item.off), asg)
                          /\ item.new = Assign(RowAt(item.off), asg)
  BY <1>2 DEF Pairs
<1>6. \A o \in hits : Changed(RowAt(o), asg) => \E item \in todo' : item.off = o
  <2>1. \A o \in hits : Changed(RowAt(o), asg) =>
            [off |-> o, new |-> Assign(RowAt(o), asg)] \in todo'
    BY <1>2 DEF Pairs
  <2>2. \A o, r : [off |-> o, new |-> r].off = o
    OBVIOUS
  <2>3. QED
    BY <2>1, <2>2
<1>7. target' = {o \in hits : Changed(RowAt(o), asg)}
  BY <1>2, <1>5, <1>6
<1>8. hits \subseteq Live /\ hits = {o \in Live : Satisfies(w, data[o].val)}
  BY <1>3, <1>4 DEF TableScan
<1>9. target' = {o \in base' : Satisfies(w, data'[o].val) /\ Changed(data'[o].val, asg)}
  BY <1>1, <1>4, <1>7, <1>8
<1>10. \A item \in todo' : item.new = Assign(data'[item.off].val, asg)
  BY <1>1, <1>4, <1>5, <1>8
<1>0. PICK h : h = [o \in Live |-> o]
  OBVIOUS
<1>11. h \in Bijection(base', Kept')
  <2>1. Kept' = Live
    BY <1>1 DEF Kept
  <2>2. h \in Bijection(Live, Live)
    BY <1>0 DEF Bijection, Injection, Surjection, IsInjective
  <2>3. QED
    BY <1>1, <2>1, <2>2
<1>12. Changing' = {}
  BY <1>2 DEF Changing, Pending
<1>13. Traces(h, asg)'
  BY <1>0, <1>1, <1>12 DEF Traces
<1>14. UpdateEffect'
  <2>1. \E g \in Bijection(base', Kept') : Traces(g, asg)'
    BY <1>11, <1>13
  <2>2. QED
    BY <1>9, <1>10, <2>1 DEF UpdateEffect
<1>15. QED
  BY <1>1, <1>14, LiveType DEF EffectInv, Ready

LEMMA MoveEffect ==
    ASSUME Ready, EffectInv, MoveRow
    PROVE  EffectInv'
<1>1. /\ UNCHANGED <<base, target, todo, kind>>
      /\ pc = "move" /\ pc' = "place" /\ kind = "update"
  BY DEF MoveRow, Ready, Shape
<1>2. PICK item \in First(todo) : data' = SetFlag(item.off)
  BY DEF MoveRow
<1>3. item \in todo /\ item.off \in Pending
  BY DEF First, Pending
<1>4. Pending \subseteq Live /\ \A x, y \in todo : x.off = y.off => x = y
  BY <1>1 DEF Ready, KeysInv, UpdateInv, Kept
<1>5. Moving' = {item.off}
  BY <1>1, <1>4, FirstAlone DEF Moving, Ready
<1>6. item.off \in 1..Len(data) /\ Live \subseteq 1..Len(data)
  BY <1>3, <1>4, LiveType DEF Ready
<1>7. /\ Live' = Live \ {item.off} /\ Len(data') = Len(data)
      /\ \A o \in 1..Len(data) : data'[o].val = data[o].val
  BY <1>2, <1>6, FlagLive DEF Ready
<1>8. Kept = Live /\ Kept' = Live
  BY <1>1, <1>3, <1>4, <1>5, <1>7 DEF Kept
<1>9. base \subseteq 1..Len(data) /\ UpdateEffect
  BY <1>1 DEF EffectInv
<1>10. PICK w \in Where, asg \in Assignment :
            /\ target = {o \in base : Satisfies(w, data[o].val) /\ Changed(data[o].val, asg)}
            /\ \A it \in todo : it.new = Assign(data[it.off].val, asg)
            /\ \E h \in Bijection(base, Kept) : Traces(h, asg)
  BY <1>9 DEF UpdateEffect
<1>11. PICK h \in Bijection(base, Kept) : Traces(h, asg)
  BY <1>10
<1>12. h \in [base -> Live] /\ Changing' = Changing
  BY <1>1, <1>8 DEF Bijection, Injection, Changing, Pending
<1>13. Traces(h, asg)'
  <2>1. \A o \in base : /\ data'[o].val = data[o].val
                        /\ data'[h[o]].val = data[h[o]].val
    BY <1>6, <1>7, <1>9, <1>12
  <2>2. QED
    BY <1>1, <1>11, <1>12, <2>1 DEF Traces
<1>14. \E g \in Bijection(base', Kept') : Traces(g, asg)'
  BY <1>1, <1>8, <1>11, <1>13
<1>15. target' = {o \in base' : Satisfies(w, data'[o].val) /\ Changed(data'[o].val, asg)}
  BY <1>1, <1>7, <1>9, <1>10
<1>16. \A it \in todo' : it.new = Assign(data'[it.off].val, asg)
  <2>1. \A it \in todo : it.off \in 1..Len(data)
    BY <1>4, <1>6 DEF Pending
  <2>2. QED
    BY <1>1, <1>7, <1>10, <2>1
<1>17. UpdateEffect'
  BY <1>14, <1>15, <1>16 DEF UpdateEffect
<1>18. QED
  BY <1>1, <1>7, <1>9, <1>17 DEF EffectInv

\* The row that has been flagged is now at the end of the file.
LEMMA TraceMoved ==
    ASSUME NEW S, NEW T, NEW x \in S, NEW y, x \notin T, y \notin T,
           NEW h \in Bijection(S, T \cup {x}), h[x] = x
    PROVE  [h EXCEPT ![x] = y] \in Bijection(S, T \cup {y})
<1> DEFINE g == [h EXCEPT ![x] = y]
<1>1. /\ h \in [S -> T \cup {x}]
      /\ \A a, b \in S : h[a] = h[b] => a = b
      /\ \A t \in T \cup {x} : \E s \in S : h[s] = t
  BY DEF Bijection, Injection, Surjection, IsInjective
<1>2. \A s \in S \ {x} : h[s] \in T
  BY <1>1
<1>3. g[x] = y /\ \A s \in S \ {x} : g[s] = h[s]
  BY <1>1
<1>4. g \in [S -> T \cup {y}] /\ DOMAIN g = S
  BY <1>1, <1>2
<1> HIDE DEF g
<1>5. \A a, b \in S : g[a] = g[b] => a = b
  BY <1>1, <1>2, <1>3
<1>6. \A t \in T \cup {y} : \E s \in S : g[s] = t
  BY <1>1, <1>3
<1>7. g \in Bijection(S, T \cup {y})
  BY <1>4, <1>5, <1>6 DEF Bijection, Injection, Surjection, IsInjective
<1>8. QED
  BY <1>7 DEF g

LEMMA PlaceEffect ==
    ASSUME FaithfulKeys, Ready, EffectInv, PlaceRow
    PROVE  EffectInv'
<1>1. /\ UNCHANGED <<base, target, kind>>
      /\ pc = "place" /\ pc' = "move" /\ kind = "update"
  BY DEF PlaceRow, Ready, Shape
<1>2. PICK item \in First(todo) : data' = Append1(item.new) /\ todo' = todo \ {item}
  BY DEF PlaceRow
<1>3. item \in todo /\ item.off \in Pending /\ item.new \in Row
  BY DEF First, Pending, Ready, TypeOK, Work
<1>4. /\ Pending \subseteq Live \cup Moving
      /\ Moving \subseteq (1..Len(data)) \ Live
      /\ \A x, y \in todo : x.off = y.off => x = y
      /\ Pending \subseteq target
  BY <1>1 DEF Ready, KeysInv, UpdateInv, Kept, TargetInv
<1>5. Moving = {item.off}
  BY <1>4, FirstAlone DEF Moving, Ready
<1>6. /\ Live' = Live \cup {EndOffset}
      /\ EndOffset \notin 1..Len(data)
      /\ Len(data') = Len(data) + 1
      /\ data'[EndOffset].val = item.new
      /\ \A p \in 1..Len(data) : data'[p].val = data[p].val
  BY <1>2, <1>3, AppendLive DEF Ready
<1>7. Live \subseteq 1..Len(data) /\ Len(data) \in Nat
  BY LiveType, LenProperties DEF Ready, TypeOK
<1>8. Pending' = Pending \ {item.off}
  BY <1>2, <1>3, <1>4 DEF Pending
<1>9. Kept = Live \cup {item.off} /\ Kept' = Live \cup {EndOffset}
  BY <1>1, <1>5, <1>6 DEF Kept
<1>10. base \subseteq 1..Len(data) /\ UpdateEffect
  BY <1>1 DEF EffectInv
<1>11. PICK w \in Where, asg \in Assignment :
            /\ target = {o \in base : Satisfies(w, data[o].val) /\ Changed(data[o].val, asg)}
            /\ \A it \in todo : it.new = Assign(data[it.off].val, asg)
            /\ \E h \in Bijection(base, Kept) : Traces(h, asg)
  BY <1>10 DEF UpdateEffect
<1>12. PICK h \in Bijection(base, Kept) : Traces(h, asg)
  BY <1>11
<1>13. h \in [base -> Live \cup {item.off}]
  BY <1>9 DEF Bijection, Injection
<1>14. Changing' = Changing \cup {item.off} /\ item.off \in base \ Changing
  BY <1>1, <1>3, <1>4, <1>8, <1>11 DEF Changing
<1>15. h[item.off] = item.off
  BY <1>12, <1>14 DEF Traces
<1>16. PICK end : end = EndOffset
  OBVIOUS
<1>17. PICK g : g = [h EXCEPT ![item.off] = end]
  OBVIOUS
<1>18. g \in Bijection(base', Kept')
  <2>1. item.off \notin Live /\ end \notin Live
    BY <1>4, <1>5, <1>6, <1>7, <1>16
  <2>2. g \in Bijection(base, Live \cup {end})
    BY <1>9, <1>12, <1>14, <1>15, <1>17, <2>1, TraceMoved
  <2>3. QED
    BY <1>1, <1>9, <1>16, <2>2
<1>19. Traces(g, asg)'
  <2>1. ASSUME NEW o \in base, o = item.off
        PROVE  data'[g[o]].val = Assign(data'[o].val, asg)
    BY <1>3, <1>6, <1>10, <1>11, <1>13, <1>16, <1>17, <2>1
  <2>2. ASSUME NEW o \in base, o # item.off
        PROVE  IF o \in Changing THEN data'[g[o]].val = Assign(data'[o].val, asg)
               ELSE g[o] = o
    <3>1. g[o] = h[o]
      BY <1>13, <1>17, <2>2
    <3>2. h[o] \in 1..Len(data) /\ data'[o].val = data[o].val
      BY <1>4, <1>5, <1>6, <1>7, <1>10, <1>13
    <3>3. QED
      BY <1>6, <1>12, <3>1, <3>2 DEF Traces
  <2>3. QED
    BY <1>1, <1>14, <2>1, <2>2 DEF Traces
<1>20. \E f \in Bijection(base', Kept') : Traces(f, asg)'
  BY <1>18, <1>19
<1>21. target' = {o \in base' : Satisfies(w, data'[o].val) /\ Changed(data'[o].val, asg)}
  BY <1>1, <1>6, <1>10, <1>11
<1>22. \A it \in todo' : it.new = Assign(data'[it.off].val, asg)
  <2>1. \A it \in todo : it.off \in 1..Len(data)
    BY <1>4, <1>7 DEF Pending
  <2>2. QED
    BY <1>2, <1>6, <1>11, <2>1
<1>23. UpdateEffect'
  BY <1>20, <1>21, <1>22 DEF UpdateEffect
<1>24. base' \subseteq 1..Len(data')
  BY <1>1, <1>6, <1>7, <1>10
<1>25. QED
  BY <1>1, <1>23, <1>24 DEF EffectInv

LEMMA NextEffect ==
    ASSUME FaithfulKeys, Ready, EffectInv, [Next]_vars
    PROVE  EffectInv'
<1>1. ASSUME UNCHANGED <<data, pc, kind, todo, target, base>>
      PROVE  EffectInv'
  <2>1. CASE pc = "append"
    BY <1>1, <2>1 DEF EffectInv, Ready, Shape, Live
  <2>2. CASE pc # "append"
    BY <1>1, <2>2, EffectSame DEF EffectInv
  <2>3. QED
    BY <2>1, <2>2
<1>2. ASSUME UNCHANGED data, Begin(kind', pc'),
             kind' \in {"create_index", "drop_index", "scan"}, pc' \in {"save", "unlink", "hung"}
      PROVE  EffectInv'
  BY <1>2, LiveType DEF Begin, EffectInv, Live, Ready
<1>3. CASE Truncate \/ Acknowledge \/ Crash
  BY <1>3, EffectNone DEF Truncate, Acknowledge, Crash, Begin, Finish
<1>4. CASE Statement
  BY <1>1, <1>2, <1>3, <1>4, InsertBegins, DeleteBegins, UpdateBegins DEF Statement, InsertDuplicate,
     UpdateConflict, Select, Hang, CreateIndex, CreateIndexDuplicate, DropIndex, TruncateNoFile,
     Die, Refuse, Begin, disk
<1>5. CASE FlagDone \/ MoveDone \/ PurgeDone
  BY <1>5, EffectSame DEF FlagDone, MoveDone, PurgeDone, StartSave, disk, Ready, Shape
<1>6. CASE OpenIndex \/ WriteNodes \/ WriteRoot
  BY <1>6, EffectSame DEF OpenIndex, WriteNodes, WriteRoot, StartSave, EffectInv
<1>7. CASE DefineIndex \/ DropIndexFile \/ RecreateData \/ PurgeIndex
  BY <1>7, EffectSame DEF DefineIndex, DropIndexFile, RecreateData, PurgeIndex, Ready, Shape
<1>8. CASE Step
  BY <1>3, <1>5, <1>6, <1>7, <1>8, AppendEffect, CollectEffect, CollectDoneEffect, FlagEffect,
     MoveEffect, PlaceEffect DEF Step
<1>9. QED
  BY <1>1, <1>3, <1>4, <1>8 DEF Next, vars

(***************************************************************************)
(* A table is the relation it stands for: what its steps are there.        *)
(***************************************************************************)
\* A state that no crash has damaged.
Clean == FaithfulKeys /\ Ready /\ damage = {} /\ ReadableInv /\ EffectInv

\* Until a crash does damage, no file is missing, and the rows are those that
\* the running statement has made of what it found.
THEOREM RelationInductive ==
    ASSUME FaithfulKeys
    PROVE  Spec => []RelationInv
<1>1. Init => RelationInv
  <2> SUFFICES ASSUME Init PROVE RelationInv
    OBVIOUS
  <2>1. Defined = {}
    BY EmptySeq DEF Init, Defined
  <2>2. ReadableInv
    BY <2>1 DEF Init, ReadableInv, Readable, ZeroFile
  <2>3. EffectInv
    BY DEF Init, EffectInv
  <2>4. QED
    BY <2>2, <2>3 DEF RelationInv
<1>2. TableInv /\ RelationInv /\ [Next]_vars => RelationInv'
  <2> SUFFICES ASSUME TableInv, RelationInv, [Next]_vars, damage' = {}
               PROVE  ReadableInv' /\ EffectInv'
    BY DEF RelationInv
  <2>1. damage = {}
    BY DamageGrows
  <2>2. Ready /\ ReadableInv /\ EffectInv
    BY <2>1 DEF TableInv, UniqueInv, Ready, RelationInv
  <2>3. ReadableInv'
    BY <2>2, NextReadable DEF Ready
  <2>4. EffectInv'
    BY <2>2, NextEffect
  <2>5. QED
    BY <2>3, <2>4
<1>3. QED
  BY <1>1, <1>2, TableInductive, PTL DEF Spec

\* An index of these rows and more keeps their keys apart.
LEMMA SoundUnique ==
    ASSUME Clean, NEW i, NEW entries, NEW more, NEW flaws, Sound(data, i, entries, more, flaws),
           Live \subseteq more
    PROVE  /\ \A o, p \in Live : KeyOf(i, RowAt(o)) = KeyOf(i, RowAt(p)) => o = p
           /\ Rel!Unique(BagOf(Live), i)
<1>1. \A o \in Live : RowAt(o) = data[o].val
  BY FaithfulRead, LiveType DEF Clean, FaithfulKeys, Ready
<1>2. \A o \in Live : Entry(i, RowAt(o), o) \in entries
  BY <1>1 DEF Sound, Covers
<1>3. \A o, p \in Live : KeyOf(i, RowAt(o)) = KeyOf(i, RowAt(p)) =>
          Entry(i, RowAt(o), o) = Entry(i, RowAt(p), p)
  BY <1>2, EntryIs DEF Sound, KeyedOnce
<1>4. \A o, p \in Live : KeyOf(i, RowAt(o)) = KeyOf(i, RowAt(p)) => o = p
  BY <1>3, EntryIs
<1>5. QED
  BY <1>4, BagUnique, LiveType DEF Clean, Ready

LEMMA KeysApart ==
    ASSUME Clean, NEW i \in Defined
    PROVE  /\ \A o, p \in Live : KeyOf(i, RowAt(o)) = KeyOf(i, RowAt(p)) => o = p
           /\ Rel!Unique(BagOf(Live), i)
<1>1. PICK entries, offs, flaws :
          Sound(data, i, entries, offs, flaws) /\ Live \subseteq offs
  BY SomeIndex DEF Clean
<1>2. QED
  BY <1>1, SoundUnique

(***************************************************************************)
(* What the relation is, and what stays.                                   *)
(***************************************************************************)
LEMMA RowsIdle ==
    ASSUME kind # "truncate", pc = "idle"
    PROVE  Rows = BagOf(Live)
BY DEF Rows

LEMMA RowsHeld ==
    ASSUME UNCHANGED <<kind, base>>, pc # "idle", pc' # "idle",
           kind = "truncate" \/ \A o \in base : data'[o].val = data[o].val
    PROVE  Rows' = Rows
<1>1. CASE kind = "truncate"
  BY <1>1 DEF Rows, BagOf
<1>2. CASE kind # "truncate"
  <2>1. \A o \in base : RowAt(o)' = RowAt(o)
    BY <1>2 DEF RowAt
  <2>2. \A r : {o \in base : RowAt(o)' = r} = {o \in base : RowAt(o) = r}
    BY <2>1
  <2>3. Rows = [r \in Row |-> Cardinality({o \in base : RowAt(o) = r})]
    BY <1>2 DEF Rows, BagOf
  <2>4. Rows' = [r \in Row |-> Cardinality({o \in base : RowAt(o)' = r})]
    BY <1>2 DEF Rows, BagOf
  <2>5. QED
    BY <2>2, <2>3, <2>4
<1>3. QED
  BY <1>1, <1>2

LEMMA RowsRest ==
    ASSUME UNCHANGED data, kind' = "none", pc' = "idle"
    PROVE  Rows' = BagOf(Live)
BY DEF Rows, BagOf, RowAt, Live

LEMMA RowsBegin ==
    ASSUME UNCHANGED data, kind = "none", pc = "idle", base' = Live, pc' # "idle", kind' # "truncate"
    PROVE  Rows' = Rows
BY DEF Rows, BagOf, RowAt, Live

LEMMA RepliedPlain ==
    /\ reply.outcome # "rows" => Replied = reply
    /\ reply'.outcome # "rows" => Replied' = reply'
BY DEF Replied

\* A step inside a statement is no step of the relation.
LEMMA StutterStep ==
    ASSUME Clean, AnswerInv, UNCHANGED <<kind, base, reply, defs>>, pc # "idle", pc' # "idle",
           kind = "truncate" \/ \A o \in 1..Len(data) : data'[o].val = data[o].val
    PROVE  UNCHANGED Rel!relation
<1>1. kind = "truncate" \/ base \subseteq 1..Len(data)
  BY DEF Clean, EffectInv, Ready, Shape
<1>2. Rows' = Rows
  <2>1. kind = "truncate" \/ \A o \in base : data'[o].val = data[o].val
    BY <1>1
  <2>2. QED
    BY <2>1, RowsHeld
<1>3. Defined' = Defined
  BY DEF Defined
<1>4. Replied' = Replied
  BY RepliedPlain DEF AnswerInv
<1>5. QED
  BY <1>2, <1>3, <1>4 DEF Rel!relation

\* What a statement has done when it answers.
LEMMA UpdateDone ==
    ASSUME Clean, kind = "update", pc = "ack"
    PROVE  \E w \in Where, asg \in Assignment : BagOf(Live) = Rel!Moved(BagOf(base), w, asg)
<1>1. todo = {} /\ UpdateEffect /\ base \subseteq 1..Len(data) /\ Kept = Live /\ Changing = target
  BY DEF Clean, EffectInv, Kept, Changing, Pending
<1>2. PICK w \in Where, asg \in Assignment :
            /\ target = {o \in base : Satisfies(w, data[o].val) /\ Changed(data[o].val, asg)}
            /\ \E h \in Bijection(base, Live) : Traces(h, asg)
  BY <1>1 DEF UpdateEffect
<1>3. PICK h \in Bijection(base, Live) : Traces(h, asg)
  BY <1>2
<1>4. TypeOK /\ FaithfulValues
  BY DEF Clean, Ready, FaithfulKeys
<1>5. h \in [base -> Live] /\ Live \subseteq 1..Len(data)
  BY <1>4, LiveType DEF Bijection, Injection
<1>6. ASSUME NEW o \in base
      PROVE  RowAt(h[o]) = Rel!Updated(RowAt(o), w, asg)
  <2>1. RowAt(o) = data[o].val /\ RowAt(o) \in Row
    BY <1>1, <1>4, FaithfulRead
  <2>2. CASE o \in target
    <3>1. data[h[o]].val = Assign(RowAt(o), asg) /\ Satisfies(w, RowAt(o))
      BY <1>1, <1>2, <1>3, <2>1, <2>2 DEF Traces
    <3>2. RowAt(h[o]) = ReadRow(Assign(RowAt(o), asg))
      BY <3>1 DEF RowAt
    <3>3. QED
      BY <3>1, <3>2 DEF Rel!Updated
  <2>3. CASE o \notin target
    <3>1. h[o] = o
      BY <1>1, <1>3, <2>3 DEF Traces
    <3>2. CASE ~Satisfies(w, RowAt(o))
      BY <3>1, <3>2 DEF Rel!Updated
    <3>3. CASE Satisfies(w, RowAt(o))
      <4>1. \A c \in DOMAIN asg : asg[c] = RowAt(o)[c]
        BY <1>2, <2>1, <2>3, <3>3 DEF Changed
      <4>2. Assign(RowAt(o), asg) = RowAt(o)
        BY <2>1, <4>1 DEF Assign, Row
      <4>3. ReadRow(Assign(RowAt(o), asg)) = RowAt(o)
        BY <1>4, <2>1, <4>2, FaithfulRow
      <4>4. QED
        BY <3>1, <3>3, <4>3 DEF Rel!Updated
    <3>4. QED
      BY <3>2, <3>3
  <2>4. QED
    BY <2>2, <2>3
<1>7. BagOf(Live) = Rel!Moved(BagOf(base), w, asg)
  BY <1>1, <1>4, <1>5, <1>6, BagMoved
<1>8. QED
  BY <1>7

LEMMA EffectDone ==
    ASSUME Clean, pc = "ack"
    PROVE  Rel!Effect(Rows, BagOf(Live))
<1>1. TypeOK /\ FaithfulValues /\ Live \subseteq 1..Len(data)
  BY LiveType DEF Clean, Ready, FaithfulKeys
<1>2. kind # "truncate" => Rows = BagOf(base)
  BY DEF Rows
<1>3. CASE kind = "insert"
  <2>1. base \subseteq 1..Len(data) /\ InsertEffect
    BY <1>3 DEF Clean, EffectInv
  <2>2. PICK o \in (1..Len(data)) \ base : Live = base \cup {o}
    BY <2>1 DEF InsertEffect
  <2>3. BagOf(Live) = Rel!Plus(BagOf(base), RowAt(o)) /\ RowAt(o) \in Row
    BY <1>1, <2>1, <2>2, BagPlus, LiveType
  <2>4. QED
    BY <1>2, <1>3, <2>3 DEF Rel!Effect
<1>4. CASE kind = "delete"
  <2>1. base \subseteq 1..Len(data) /\ DeleteEffect /\ todo = {}
    BY <1>4 DEF Clean, EffectInv
  <2>2. Live = base \ target
    BY <2>1 DEF DeleteEffect, Changing, Pending
  <2>3. PICK w \in Where : target = {o \in base : Satisfies(w, data[o].val)}
    BY <2>1 DEF DeleteEffect
  <2>4. \A o \in base : RowAt(o) = data[o].val
    BY <1>1, <2>1, FaithfulRead
  <2>5. Live = {o \in base : ~Satisfies(w, RowAt(o))}
    BY <2>2, <2>3, <2>4
  <2>6. BagOf(Live) = Rel!Minus(BagOf(base), w)
    BY <2>5, BagMinus
  <2>7. QED
    BY <1>2, <1>4, <2>6 DEF Rel!Effect
<1>5. CASE kind = "update"
  BY <1>2, <1>5, UpdateDone DEF Rel!Effect
<1>6. CASE kind \in {"create_index", "drop_index"}
  <2>1. Live = base
    BY <1>6 DEF Clean, EffectInv
  <2>2. QED
    BY <1>2, <1>6, <2>1 DEF Rel!Effect
<1>7. CASE kind = "truncate"
  <2>1. Live = {}
    BY <1>7, EmptySeq DEF Clean, Ready, TruncateInv, Live
  <2>2. Rows = BagOf(Live)
    BY <1>7, <2>1 DEF Rows
  <2>3. QED
    BY <1>7, <2>2 DEF Rel!Effect
<1>8. QED
  BY <1>3, <1>4, <1>5, <1>6, <1>7 DEF Clean, Ready, TypeOK, Kinds, Shape

(***************************************************************************)
(* Statements begin, and are refused or answered at once.                  *)
(***************************************************************************)
LEMMA AskStep ==
    ASSUME Clean, Begin(kind', pc'), pc = "idle", pc' # "idle", kind' \notin {"none", "truncate"},
           UNCHANGED data, UNCHANGED defs \/ kind' = "drop_index",
           kind' = "drop_index" => \E p \in 1..Len(defs) : defs' = Without(p)
    PROVE  Rel!Next
<1>1. kind = "none" /\ base' = Live /\ reply' = NoReply
  BY DEF Clean, Ready, Shape, Begin
<1>2. Rows' = Rows
  BY <1>1, RowsBegin
<1>3. Replied' = NoReply
  BY <1>1, RepliedPlain DEF NoReply
<1>4. CASE kind' # "drop_index"
  <2>1. Defined' = Defined
    BY <1>4 DEF Defined
  <2>2. Rel!Ask
    BY <1>1, <1>2, <1>3, <1>4, <2>1 DEF Rel!Ask, NoReply
  <2>3. QED
    BY <2>2 DEF Rel!Next
<1>5. CASE kind' = "drop_index"
  <2>1. PICK p \in 1..Len(defs) : defs' = Without(p)
    BY <1>5
  <2>2. Len(defs) \in Nat
    BY LenProperties DEF Clean, Ready, TypeOK
  <2>3. /\ Len(defs') = Len(defs) - 1
        /\ \A q \in 1..Len(defs') : defs'[q] = IF q < p THEN defs[q] ELSE defs[q + 1]
    BY <2>1, <2>2, WithoutType, LenProperties DEF Without, Clean, Ready
  <2>4. \A q \in 1..Len(defs') : \E r \in 1..Len(defs) \ {p} : defs'[q] = defs[r]
    BY <2>2, <2>3
  <2>5. \A r \in 1..Len(defs) \ {p} : \E q \in 1..Len(defs') : defs'[q] = defs[r]
    <3> SUFFICES ASSUME NEW r \in 1..Len(defs) \ {p}
                 PROVE  \E q \in 1..Len(defs') : defs'[q] = defs[r]
      OBVIOUS
    <3>1. CASE r < p
      BY <2>2, <2>3, <3>1
    <3>2. CASE r > p
      <4>1. r - 1 \in 1..Len(defs') /\ defs'[r - 1] = defs[r]
        BY <2>2, <2>3, <3>2
      <4>2. QED
        BY <4>1
    <3>3. QED
      BY <2>2, <3>1, <3>2
  <2>6. \A r \in 1..Len(defs) : defs[r] = defs[p] => r = p
    BY DEF Clean, Ready, NamesInv
  <2>7. Defined' = Defined \ {defs[p]} /\ defs[p] \in Defined
    <3>1. \A q \in 1..Len(defs') : defs'[q] \in Defined \ {defs[p]}
      BY <2>4, <2>6 DEF Defined
    <3>2. \A r \in 1..Len(defs) : defs[r] # defs[p] => defs[r] \in Defined'
      <4>1. \A r \in 1..Len(defs) \ {p} : defs[r] \in Defined'
        BY <2>5 DEF Defined
      <4>2. QED
        BY <4>1
    <3>3. \A x \in Defined' : x \in Defined \ {defs[p]}
      BY <3>1 DEF Defined
    <3>4. \A x \in Defined \ {defs[p]} : x \in Defined'
      BY <3>2 DEF Defined
    <3>5. QED
      BY <3>3, <3>4 DEF Defined
  <2>8. Rel!Ask
    BY <1>1, <1>2, <1>3, <1>5, <2>7 DEF Rel!Ask, NoReply
  <2>9. QED
    BY <2>8 DEF Rel!Next
<1>6. QED
  BY <1>4, <1>5

LEMMA TruncateStep ==
    ASSUME Clean, Truncate
    PROVE  Rel!Next
<1>1. kind = "none" /\ kind' = "truncate" /\ reply' = NoReply
  BY DEF Clean, Ready, Shape, Begin, Truncate
<1>2. Rows' = [r \in Row |-> 0]
  <2>1. \A r : {o \in {} : RowAt(o)' = r} = {}
    OBVIOUS
  <2>2. Rows' = [r \in Row |-> Cardinality({o \in {} : RowAt(o)' = r})]
    BY <1>1 DEF Rows, BagOf
  <2>3. QED
    BY <2>1, <2>2, FS_EmptySet
<1>3. Replied' = NoReply
  BY <1>1, RepliedPlain DEF NoReply
<1>4. Defined' = Defined
  BY DEF Truncate, Defined
<1>5. Rel!Ask
  BY <1>1, <1>2, <1>3, <1>4 DEF Rel!Ask, NoReply
<1>6. QED
  BY <1>5 DEF Rel!Next

\* What a statement refused at once leaves as it was.
LEMMA RefuseFrame ==
    ASSUME Clean, pc = "idle", NEW answer, Refuse(answer)
    PROVE  /\ kind = "none" /\ kind' = "none"
           /\ Rows = BagOf(Live) /\ Rows' = Rows
           /\ Defined' = Defined
           /\ reply' = answer /\ UNCHANGED <<data, damage>>
<1>1. kind = "none" /\ UNCHANGED <<data, defs, pc, kind, base, damage>> /\ reply' = answer
  BY DEF Clean, Ready, Shape, Refuse, disk
<1>2. Rows = BagOf(Live) /\ Rows' = BagOf(Live)
  BY <1>1, RowsIdle, RowsRest
<1>3. QED
  BY <1>1, <1>2 DEF Defined

LEMMA DuplicateStep ==
    ASSUME Clean, NEW row \in Row, InsertDuplicate(row)
    PROVE  Rel!Next
<1>1. pc = "idle" /\ HasDuplicate(Loaded, row) /\ TypeOK
      /\ Refuse([outcome |-> "duplicate", row |-> row])
  BY DEF InsertDuplicate, Clean, Ready
<1>2. /\ kind = "none" /\ kind' = "none" /\ Rows = BagOf(Live) /\ Rows' = Rows
      /\ Defined' = Defined /\ reply' = [outcome |-> "duplicate", row |-> row]
  BY <1>1, RefuseFrame
<1>3. Replied' = [outcome |-> "duplicate", row |-> row]
  BY <1>2, RepliedPlain
<1>4. PICK i \in Defined : EntriesFor(Loaded[i], KeyOf(i, row)) # {}
  BY <1>1 DEF HasDuplicate
<1>5. PICK e \in file[i].entries : e.key = KeyOf(i, row)
  BY <1>1, <1>4, LoadedIsFile DEF EntriesFor
<1>6. e.off \in Live
  BY <1>1, ReadyFiles DEF Clean, FileExact, Sound, Within
<1>7. e.key = KeyOf(i, data[e.off].val)
  BY <1>2, ReadyHome, EntryIs DEF Clean
<1>8. RowAt(e.off) = data[e.off].val /\ Live \subseteq 1..Len(data)
  BY <1>1, <1>6, FaithfulRead, LiveType DEF Clean, FaithfulKeys
<1>9. RowAt(e.off) \in Rel!Present(BagOf(Live))
  BY <1>1, <1>6, <1>8, BagPresent
<1>10. \E s \in Rel!Present(Rows) : \E j \in Defined :
            KeyOf(j, row) = KeyOf(j, s)
  BY <1>2, <1>5, <1>7, <1>8, <1>9
<1>11. Rel!Duplicate
  BY <1>2, <1>3, <1>10 DEF Rel!Duplicate
<1>12. QED
  BY <1>11 DEF Rel!Next

LEMMA SelectStep ==
    ASSUME Clean, NEW w \in Where, NEW ignoreIndex \in BOOLEAN, Select(w, ignoreIndex)
    PROVE  Rel!Next
<1>1. PICK hits \in IF ignoreIndex THEN {TableScan(w)} ELSE Hits(w) :
          Refuse([outcome |-> "rows", where |-> w, rows |-> hits])
  BY DEF Select
<1>2. pc = "idle"
  BY DEF Select
<1>3. hits = TableScan(w)
  BY <1>1, <1>2, HitsExact DEF Clean
<1>4. /\ kind = "none" /\ kind' = "none" /\ Rows = BagOf(Live) /\ Rows' = Rows
      /\ Defined' = Defined /\ reply' = [outcome |-> "rows", where |-> w, rows |-> hits]
      /\ UNCHANGED data
  BY <1>1, <1>2, RefuseFrame
<1>5. BagOf(hits)' = BagOf(hits)
  <2>1. hits' = hits
    BY <1>4 DEF TableScan, Live, RowAt
  <2>2. QED
    BY <1>4, <2>1 DEF BagOf, RowAt
<1>6. Replied' = [outcome |-> "rows", where |-> w, rows |-> BagOf(hits)]
  BY <1>4, <1>5 DEF Replied
<1>7. BagOf(hits) = Rel!Kept(Rows, w)
  BY <1>3, <1>4, BagKept DEF TableScan
<1>8. Rel!Select
  BY <1>4, <1>6, <1>7 DEF Rel!Select
<1>9. QED
  BY <1>8 DEF Rel!Next

(***************************************************************************)
(* An UPDATE is refused where two rows would have one key.                 *)
(***************************************************************************)
\* Two rows of the table whose updated selves have one key in an index.
LEMMA MovedClash ==
    ASSUME Clean, NEW w \in Where, NEW asg \in Assignment, NEW i \in Defined,
           NEW o \in Live, NEW p \in Live, o # p,
           Rel!Updated(RowAt(o), w, asg) \in Row, Rel!Updated(RowAt(p), w, asg) \in Row,
           KeyOf(i, Rel!Updated(RowAt(o), w, asg)) = KeyOf(i, Rel!Updated(RowAt(p), w, asg))
    PROVE  ~Rel!Unique(Rel!Moved(BagOf(Live), w, asg), i)
<1> DEFINE copies == Rel!Copies(BagOf(Live))
           CopiesTo(r) == {c \in copies : Rel!Updated(c[1], w, asg) = r}
           r == Rel!Updated(RowAt(o), w, asg)
           s == Rel!Updated(RowAt(p), w, asg)
           moved == Rel!Moved(BagOf(Live), w, asg)
<1>1. TypeOK /\ Live \in SUBSET (1..Len(data))
  BY LiveType DEF Clean, Ready
<1>2. RowAt(o) # RowAt(p)
  BY KeysApart
<1>3. PICK g \in Bijection(Live, copies) : \A q \in Live : g[q][1] = RowAt(q)
  BY <1>1, BagCopies
<1>4. g \in [Live -> copies]
  BY DEF Bijection, Injection
<1>5. IsFiniteSet(copies)
  BY <1>1, LiveFinite, FS_Bijection DEF ExistsBijection
<1> HIDE DEF copies
<1>6. g[o] \in CopiesTo(r) /\ g[p] \in CopiesTo(s) /\ g[o] # g[p]
  BY <1>2, <1>3, <1>4
<1>7. \A t : IsFiniteSet(CopiesTo(t))
  <2>1. \A t : CopiesTo(t) \in SUBSET copies
    OBVIOUS
  <2>2. QED
    BY <1>5, <2>1, FS_Subset
<1>8. \A t \in Row : moved[t] = Cardinality(CopiesTo(t))
  BY SameCount DEF Rel!Moved, copies
<1> HIDE DEF CopiesTo, moved, r, s
<1>9. \A t \in Row : moved[t] \in Nat /\ (CopiesTo(t) # {} => moved[t] > 0)
  <2> SUFFICES ASSUME NEW t \in Row
               PROVE  moved[t] \in Nat /\ (CopiesTo(t) # {} => moved[t] > 0)
    OBVIOUS
  <2>1. Cardinality(CopiesTo(t)) \in Nat
    BY <1>7, FS_CardinalityType
  <2>2. CopiesTo(t) # {} => Cardinality(CopiesTo(t)) # 0
    BY <1>7, FS_EmptySet
  <2>3. QED
    BY <1>8, <2>1, <2>2
<1>10. r \in Row /\ s \in Row /\ KeyOf(i, r) = KeyOf(i, s)
  BY DEF r, s
<1>11. r \in Rel!Present(moved) /\ s \in Rel!Present(moved)
  BY <1>6, <1>9, <1>10 DEF Rel!Present
<1>12. r = s => moved[r] # 1
  <2> SUFFICES ASSUME r = s, Cardinality(CopiesTo(r)) = 1 PROVE FALSE
    BY <1>8, <1>10
  <2>1. PICK x : CopiesTo(r) = {x}
    BY <1>7, FS_Singleton
  <2>2. QED
    BY <1>6, <2>1
<1>13. ~Rel!Unique(moved, i)
  BY <1>10, <1>11, <1>12 DEF Rel!Unique
<1>14. QED
  BY <1>13 DEF moved

\* An item of an UPDATE is the updated self of its row.
LEMMA PairUpdated ==
    ASSUME Clean, pc = "idle", NEW w \in Where, NEW asg \in Assignment, NEW hits \in Hits(w),
           NEW item \in Pairs(hits, asg)
    PROVE  /\ item.off \in Live
           /\ Satisfies(w, RowAt(item.off))
           /\ item.new \in Row
           /\ item.new = ReadRow(Assign(RowAt(item.off), asg))
           /\ item.new = Rel!Updated(RowAt(item.off), w, asg)
<1>1. hits = TableScan(w)
  BY HitsExact DEF Clean
<1>2. item.off \in hits /\ item.new = Assign(RowAt(item.off), asg)
  BY DEF Pairs
<1>3. item.off \in Live /\ Satisfies(w, RowAt(item.off))
  BY <1>1, <1>2 DEF TableScan
<1>4. item.new \in Row
  BY <1>1, PairsType DEF Clean, Ready, Work, TableScan
<1>5. ReadRow(item.new) = item.new
  BY <1>4, FaithfulRow DEF Clean, FaithfulKeys
<1>6. QED
  BY <1>2, <1>3, <1>4, <1>5 DEF Rel!Updated

LEMMA ConflictStep ==
    ASSUME Clean, NEW w \in Where, NEW asg \in Assignment, UpdateConflict(w, asg)
    PROVE  Rel!Next
<1>1. pc = "idle" /\ Refuse(Answer("conflict")) /\ TypeOK
  BY DEF UpdateConflict, Clean, Ready
<1>2. PICK hits \in Hits(w) :
          \/ \E item \in Pairs(hits, asg) : MayConflict(Loaded, item)
          \/ BatchDuplicate(Pairs(hits, asg))
  BY DEF UpdateConflict
<1>3. /\ kind = "none" /\ kind' = "none" /\ Rows = BagOf(Live) /\ Rows' = Rows
      /\ Defined' = Defined /\ reply' = Answer("conflict")
  BY <1>1, RefuseFrame
<1>4. Live \in SUBSET (1..Len(data)) /\ \A o \in Live : RowAt(o) = data[o].val
  BY <1>1, LiveType, FaithfulRead DEF Clean, FaithfulKeys
<1>5. Rel!Clashes(Rows, w, asg)
  <2>1. ASSUME NEW item \in Pairs(hits, asg), MayConflict(Loaded, item)
        PROVE  Rel!Clashes(Rows, w, asg)
    <3>1. PICK i \in Defined : \E e \in EntriesFor(Loaded[i], KeyOf(i, item.new)) :
              e.off # item.off
      BY <2>1 DEF MayConflict
    <3>2. PICK e \in file[i].entries : e.key = KeyOf(i, item.new) /\ e.off # item.off
      BY <1>1, <3>1, LoadedIsFile DEF EntriesFor
    <3>3. e.off \in Live
      BY <1>1, ReadyFiles DEF Clean, FileExact, Sound, Within
    <3>4. e.key = KeyOf(i, RowAt(e.off))
      <4>1. e.key = KeyOf(i, data[e.off].val)
        BY <1>3, ReadyHome, EntryIs DEF Clean
      <4>2. QED
        BY <1>4, <3>3, <4>1
    <3>5. /\ item.off \in Live /\ Satisfies(w, RowAt(item.off))
          /\ item.new = ReadRow(Assign(RowAt(item.off), asg))
      BY <1>1, PairUpdated
    <3>6. RowAt(item.off) # RowAt(e.off)
      BY <3>2, <3>3, <3>5, KeysApart
    <3>7. RowAt(item.off) \in Rel!Present(Rows) /\ RowAt(e.off) \in Rel!Present(Rows)
      BY <1>1, <1>3, <1>4, <3>3, <3>5, BagPresent
    <3>8. KeyOf(i, ReadRow(Assign(RowAt(item.off), asg))) = KeyOf(i, RowAt(e.off))
      BY <3>2, <3>4, <3>5
    <3>9. QED
      BY <3>5, <3>6, <3>7, <3>8 DEF Rel!Clashes
  <2>2. ASSUME BatchDuplicate(Pairs(hits, asg))
        PROVE  Rel!Clashes(Rows, w, asg)
    <3>1. PICK x \in Pairs(hits, asg), y \in Pairs(hits, asg) : \E i \in Defined :
              x # y /\ \A c \in IndexCols[i] : x.new[c] = y.new[c]
      BY <2>2 DEF BatchDuplicate
    <3>2. PICK i \in Defined : x # y /\ \A c \in IndexCols[i] : x.new[c] = y.new[c]
      BY <3>1
    <3>3. KeyOf(i, x.new) = KeyOf(i, y.new)
      BY <3>2 DEF KeyOf
    <3>4. x.off # y.off
      BY <3>2 DEF Pairs
    <3>5. /\ x.off \in Live /\ x.new \in Row /\ x.new = Rel!Updated(RowAt(x.off), w, asg)
          /\ y.off \in Live /\ y.new \in Row /\ y.new = Rel!Updated(RowAt(y.off), w, asg)
      BY <1>1, PairUpdated
    <3>6. ~Rel!Unique(Rel!Moved(BagOf(Live), w, asg), i)
      BY <3>3, <3>4, <3>5, MovedClash
    <3>7. QED
      BY <1>3, <3>6 DEF Rel!Clashes
  <2>3. QED
    BY <1>2, <2>1, <2>2
<1>6. Replied' = [outcome |-> "conflict"]
  BY <1>3, RepliedPlain DEF Answer
<1>7. Rel!Conflict
  BY <1>3, <1>5, <1>6 DEF Rel!Conflict
<1>8. QED
  BY <1>7 DEF Rel!Next

LEMMA BackfillStep ==
    ASSUME Clean, NEW i \in Index, CreateIndexDuplicate(i)
    PROVE  Rel!Next
<1>1. pc = "idle" /\ Refuse(Answer("conflict")) /\ TypeOK /\ i \notin Defined /\ LiveDuplicates(i)
  BY DEF CreateIndexDuplicate, Clean, Ready
<1>2. /\ kind = "none" /\ kind' = "none" /\ Rows = BagOf(Live) /\ Rows' = Rows
      /\ Defined' = Defined /\ reply' = Answer("conflict")
  BY <1>1, RefuseFrame
<1>3. ~Rel!Unique(Rows, i)
  BY <1>1, <1>2, BagUnique, LiveType DEF LiveDuplicates
<1>4. Replied' = [outcome |-> "conflict"]
  BY <1>2, RepliedPlain DEF Answer
<1>5. Rel!Conflict
  BY <1>1, <1>2, <1>3, <1>4 DEF Rel!Conflict
<1>6. QED
  BY <1>5 DEF Rel!Next

(***************************************************************************)
(* A statement comes to its end.                                           *)
(***************************************************************************)
LEMMA DefineStep ==
    ASSUME Clean, AnswerInv, DefineIndex
    PROVE  Rel!Next
<1>1. /\ UNCHANGED <<data, kind, base, reply>> /\ pc = "define" /\ pc' = "ack"
      /\ kind = "create_index" /\ queue # <<>> /\ Head(queue) \notin Defined
      /\ defs' = Append(defs, Head(queue)) /\ TypeOK
  BY EmptySeq DEF DefineIndex, Clean, Ready, Shape
<1> DEFINE i == Head(queue)
<1>2. i \in Index \ Defined
  BY <1>1, QueueHead
<1>3. Defined' = Defined \cup {i}
  <2>1. /\ Len(defs) \in Nat /\ Len(defs') = Len(defs) + 1 /\ defs'[Len(defs) + 1] = i
        /\ \A q \in 1..Len(defs) : defs'[q] = defs[q]
    BY <1>1, <1>2, AppendProperties, LenProperties DEF TypeOK
  <2>2. 1..Len(defs') = 1..Len(defs) \cup {Len(defs) + 1}
    BY <2>1
  <2>3. QED
    BY <2>1, <2>2 DEF Defined
<1>4. Live = base
  BY <1>1 DEF Clean, EffectInv
<1>5. Sound(data, i, mem[i].entries, Live, damage)
  BY <1>1 DEF Clean, Ready, KeysInv, CreateInv, MemOK
<1>6. Rel!Unique(Rows, i)
  <2>1. Rows = BagOf(Live)
    BY <1>1, <1>4 DEF Rows
  <2> HIDE DEF i
  <2>2. QED
    BY <1>5, <2>1, SoundUnique
<1>7. Rows' = Rows
  BY <1>1, RowsHeld
<1>8. Replied' = Replied
  BY <1>1, RepliedPlain DEF AnswerInv
<1>9. Rel!Define
  <2> HIDE DEF i
  <2>1. QED
    BY <1>1, <1>2, <1>3, <1>6, <1>7, <1>8 DEF Rel!Define
<1>10. QED
  BY <1>9 DEF Rel!Next

LEMMA DoneStep ==
    ASSUME Clean, Acknowledge
    PROVE  Rel!Next
<1>1. /\ UNCHANGED <<data, defs>> /\ pc = "ack" /\ kind # "none"
      /\ kind' = "none" /\ pc' = "idle" /\ reply' = Answer("ok")
  BY DEF Acknowledge, Finish, disk, Clean, Ready, Shape
<1>2. Rows' = BagOf(Live)
  BY <1>1, RowsRest
<1>3. Rel!Effect(Rows, Rows')
  BY <1>1, <1>2, EffectDone
<1>4. \A i \in Defined : Rel!Unique(Rows', i)
  BY <1>2, KeysApart
<1>5. Replied' = [outcome |-> "ok"] /\ Defined' = Defined
  BY <1>1, RepliedPlain DEF Answer, Defined
<1>6. Rel!Done
  BY <1>1, <1>3, <1>4, <1>5 DEF Rel!Done
<1>7. QED
  BY <1>6 DEF Rel!Next

LEMMA DieStep ==
    ASSUME Clean, Crash, damage' = {}
    PROVE  Rel!Next
<1>1. /\ UNCHANGED <<data, defs>> /\ pc # "idle" /\ kind # "none" /\ Damage = {}
      /\ kind' = "none" /\ pc' = "idle" /\ reply' = Answer("died")
  BY DEF Crash, Finish, disk, Clean, Ready, Shape
<1>2. Rows' = BagOf(Live)
  BY <1>1, RowsRest
<1>3. Rows' = Rows \/ Rel!Effect(Rows, Rows')
  <2>1. CASE pc = "ack"
    BY <1>2, <2>1, EffectDone
  <2>2. CASE pc # "ack"
    <3>1. kind # "truncate"
      BY <1>1, <2>2 DEF Damage
    <3>2. Live = base
      <4>1. CASE kind = "insert"
        <5>1. pc = "append"
          BY <1>1, <2>2, <4>1 DEF Damage, Clean, Ready, Shape, TypeOK, Control
        <5>2. QED
          BY <5>1 DEF Clean, EffectInv
      <4>2. CASE kind = "delete"
        <5>1. pc = "collect"
          BY <1>1, <2>2, <4>2 DEF Damage, Clean, Ready, Shape, TypeOK, Control
        <5>2. QED
          BY <4>2, <5>1 DEF Clean, EffectInv, DeleteEffect
      <4>3. CASE kind = "update"
        BY <1>1, <2>2, <4>3 DEF Damage, Clean, Ready, Shape, TypeOK, Control
      <4>4. CASE kind \in {"create_index", "drop_index", "scan"}
        BY <4>4 DEF Clean, EffectInv
      <4>5. QED
        BY <1>1, <3>1, <4>1, <4>2, <4>3, <4>4 DEF Clean, Ready, TypeOK, Kinds
    <3>3. QED
      BY <1>1, <1>2, <3>1, <3>2 DEF Rows
  <2>3. QED
    BY <2>1, <2>2
<1>4. Replied' = [outcome |-> "died"] /\ Defined' = Defined
  BY <1>1, RepliedPlain DEF Answer, Defined
<1>5. Rel!Die
  BY <1>1, <1>3, <1>4 DEF Rel!Die
<1>6. QED
  BY <1>5 DEF Rel!Next

(***************************************************************************)
(* Every step that leaves no damage is one of the relation, or none.       *)
(***************************************************************************)
LEMMA StatementStep ==
    ASSUME Clean, Statement
    PROVE  Rel!Next
<1>1. ASSUME NEW row \in Row, Insert(row)
      PROVE  Rel!Next
  BY <1>1, AskStep DEF Insert, Begin, disk
<1>2. ASSUME NEW w \in Where, Delete(w) \/ Hang(w) \/ \E asg \in Assignment : Update(w, asg)
      PROVE  Rel!Next
  BY <1>2, AskStep DEF Delete, Update, Hang, Begin, disk
<1>3. ASSUME NEW i \in Index, CreateIndex(i)
      PROVE  Rel!Next
  BY <1>3, AskStep DEF CreateIndex, Begin, disk
<1>4. ASSUME NEW p \in 1..Len(defs), DropIndex(p)
      PROVE  Rel!Next
  BY <1>4, AskStep DEF DropIndex, Begin
<1>5. CASE Die
  <2>1. exists /\ \A i \in Defined : Readable(file[i])
    BY <1>5, AllReadable DEF Die, Clean, Ready, ReadableInv
  <2>2. QED
    BY <1>5, <2>1 DEF Die, Loadable, Readable
<1>6. CASE TruncateNoFile
  BY <1>6 DEF TruncateNoFile, Clean, ReadableInv
<1>7. QED
  BY <1>1, <1>2, <1>3, <1>4, <1>5, <1>6, TruncateStep, DuplicateStep, SelectStep, ConflictStep,
     BackfillStep DEF Statement

LEMMA QuietStep ==
    ASSUME Clean, AnswerInv, Step
    PROVE  Rel!Next \/ UNCHANGED Rel!relation
<1>1. CASE AppendRow
  <2>1. PICK item \in todo : data' = Append1(item.new)
    BY <1>1 DEF AppendRow
  <2>2. \A o \in 1..Len(data) : data'[o].val = data[o].val
    BY <2>1, AppendLive DEF Clean, Ready, TypeOK, Work
  <2>3. QED
    BY <1>1, <2>2, StutterStep DEF AppendRow, StartSave
<1>2. CASE FlagRow \/ MoveRow
  <2>1. PICK item \in todo : data' = SetFlag(item.off)
    BY <1>2 DEF FlagRow, MoveRow, First
  <2>2. item.off \in 1..Len(data)
    BY <1>2, <2>1 DEF FlagRow, MoveRow, Clean, Ready, Shape, Pending
  <2>3. \A o \in 1..Len(data) : data'[o].val = data[o].val
    BY <2>1, <2>2, FlagLive DEF Clean, Ready
  <2>4. QED
    BY <1>2, <2>3, StutterStep DEF FlagRow, MoveRow
<1>3. CASE PlaceRow
  <2>1. PICK item \in todo : data' = Append1(item.new)
    BY <1>3 DEF PlaceRow, First
  <2>2. \A o \in 1..Len(data) : data'[o].val = data[o].val
    BY <2>1, AppendLive DEF Clean, Ready, TypeOK, Work
  <2>3. QED
    BY <1>3, <2>2, StutterStep DEF PlaceRow
<1>4. CASE Collect \/ CollectDone \/ FlagDone \/ MoveDone \/ PurgeDone
  BY <1>4, StutterStep DEF Collect, CollectDone, FlagDone, MoveDone, PurgeDone, StartSave, disk
<1>5. CASE OpenIndex \/ WriteNodes \/ WriteRoot
  BY <1>5, StutterStep DEF OpenIndex, WriteNodes, WriteRoot, StartSave
<1>6. CASE DropIndexFile \/ RecreateData \/ PurgeIndex
  BY <1>6, StutterStep DEF DropIndexFile, RecreateData, PurgeIndex
<1>7. QED
  BY <1>1, <1>2, <1>3, <1>4, <1>5, <1>6, DefineStep, DoneStep DEF Step

LEMMA RelationStep ==
    ASSUME FaithfulKeys, TableInv, RelationInv, [Next]_vars
    PROVE  damage' # {} \/ Rel!Next \/ UNCHANGED Rel!relation
<1> SUFFICES ASSUME damage' = {} PROVE Rel!Next \/ UNCHANGED Rel!relation
  OBVIOUS
<1>1. damage = {}
  BY DamageGrows
<1>2. Clean /\ AnswerInv
  BY <1>1 DEF TableInv, UniqueInv, Ready, RelationInv, Clean
<1>3. CASE UNCHANGED vars
  <2>1. /\ UNCHANGED <<data, defs, kind, pc, base, reply>>
        /\ Live' = Live /\ Defined' = Defined
    BY <1>3 DEF vars, Live, Defined
  <2>2. Rows' = Rows
    BY <2>1 DEF Rows, BagOf, RowAt
  <2>3. Replied' = Replied
    BY <2>1 DEF Replied, BagOf, RowAt
  <2>4. QED
    BY <2>1, <2>2, <2>3 DEF Rel!relation
<1>4. QED
  BY <1>2, <1>3, StatementStep, QuietStep, DieStep DEF Next

\* The table is the relation it stands for: every step that leaves no damage
\* behind is a step of the bag of rows with unique keys, or does not show.
THEOREM TableIsRelation ==
    ASSUME FaithfulKeys
    PROVE  Spec => IsRelation
<1>1. Init => Rel!Init
  <2> SUFFICES ASSUME Init PROVE Rel!Init
    OBVIOUS
  <2>1. Defined = {} /\ Live = {} /\ kind = "none" /\ pc = "idle" /\ reply = NoReply
    BY EmptySeq DEF Init, Defined, Live
  <2>2. Rows = [r \in Row |-> 0]
    BY <2>1, BagEmpty DEF Rows
  <2>3. Replied = [outcome |-> "none"]
    BY <2>1, RepliedPlain DEF NoReply
  <2>4. QED
    BY <2>1, <2>2, <2>3 DEF Rel!Init
<1>2. TableInv /\ RelationInv /\ [Next]_vars => [damage' # {} \/ Rel!Next]_(Rel!relation)
  BY RelationStep
<1>3. QED
  BY <1>1, <1>2, TableInductive, RelationInductive, PTL DEF Spec, IsRelation

=============================================================================

-------------------------- MODULE DefinitionsProofs --------------------------
(***************************************************************************)
(* That a definition, once accepted, stays what it was (Definitions), for  *)
(* every set of statements.  The table in memory is a function of the      *)
(* statements that made it, the schema file is a function of that table,   *)
(* and a start computes the inverse of the second one: RoundTrip.          *)
(***************************************************************************)
EXTENDS Definitions, NodeLayoutProofs, SequenceTheorems,
        WellFoundedInduction, TLAPS

\* What the statements have defined.
Built(d) ==
    LET columns == [i \in DOMAIN d.columns |-> PlanColumn(d.columns[i])]
    IN  [columns |-> columns,
         indexes |-> [i \in DOMAIN d.indexes |->
            PlanIndex(columns, d.indexes[i].name, "btree",
                      d.indexes[i].is_unique, d.indexes[i].parts)]]

\* A statement that the checks of CREATE TABLE, or of CREATE INDEX, have let in.
AcceptedColumn(def) ==
    def \in ColumnDef /\ def.name \notin Long /\ PlansColumn(def)

AcceptedIndex(columns, stmt) ==
    /\ stmt \in IndexDef /\ stmt.is_unique
    /\ Len(stmt.parts) =< MaxParts
    /\ \A i \in DOMAIN stmt.parts :
        LET pos == ColumnPos(columns, stmt.parts[i].column)
        IN  pos # 0 /\ KeyPartFits(stmt.parts[i], columns[pos])

Accepted(d) ==
    /\ d \in [columns : Seq(ColumnDef), indexes : Seq(IndexDef)]
    /\ Len(d.columns) =< MaxColumns
    /\ \A i \in DOMAIN d.columns : AcceptedColumn(d.columns[i])
    /\ Len(d.indexes) =< MaxIndexes
    /\ \A i \in DOMAIN d.indexes : AcceptedIndex(Built(d).columns, d.indexes[i])
    /\ \A i, j \in DOMAIN d.indexes : d.indexes[i].name = d.indexes[j].name => i = j

DefinitionsInv ==
    /\ Accepted(declared)
    /\ file = Saved(Built(declared))
    /\ table = IF pc = "up" THEN Built(declared) ELSE NoTable
    /\ pc \in {"up", "down", "refused"}
    /\ pc = "refused" => OddColumns

-----------------------------------------------------------------------------
(***************************************************************************)
(* Columns.                                                                *)
(***************************************************************************)
LEMMA Kinds ==
    ASSUME NEW kind, KnownType(kind)
    PROVE  /\ TypeInfo[kind].expects_len \in BOOLEAN
           /\ TypeInfo[kind].expects_len =>
                 TypeInfo[kind].min_len = 1 /\ TypeInfo[kind].max_len \in 1..255
           /\ ~TypeInfo[kind].expects_len => TypeInfo[kind].fixed_size = 4
<1>1. kind \in {"int", "float", "varchar", "char", "binary"}
  BY DEF KnownType, TypeInfo
<1>2. /\ TypeInfo["int"] = Fixed("int") /\ TypeInfo["float"] = Fixed("float")
      /\ TypeInfo["varchar"] = Sized("string", 255)
      /\ TypeInfo["char"] = Sized("string", 128)
      /\ TypeInfo["binary"] = Sized("binary", 128)
  BY DEF TypeInfo
<1>3. ASSUME NEW k \in {"int", "float"}
      PROVE  TypeInfo[k].expects_len = FALSE /\ TypeInfo[k].fixed_size = 4
  <2>1. PICK value : TypeInfo[k] = Fixed(value)
    BY <1>2
  <2>2. QED
    BY <2>1 DEF Fixed
<1>4. ASSUME NEW k \in {"varchar", "char", "binary"}
      PROVE  /\ TypeInfo[k].expects_len = TRUE
             /\ TypeInfo[k].min_len = 1 /\ TypeInfo[k].max_len \in 1..255
  <2>1. PICK value, max : TypeInfo[k] = Sized(value, max) /\ max \in {128, 255}
    BY <1>2
  <2>2. QED
    BY <2>1 DEF Sized
<1>5. CASE kind \in {"int", "float"}
  <2>1. TypeInfo[kind].expects_len = FALSE /\ TypeInfo[kind].fixed_size = 4
    BY <1>3, <1>5
  <2>2. QED
    BY <2>1
<1>6. CASE kind \in {"varchar", "char", "binary"}
  <2>1. /\ TypeInfo[kind].expects_len = TRUE
        /\ TypeInfo[kind].min_len = 1 /\ TypeInfo[kind].max_len \in 1..255
    BY <1>4, <1>6
  <2>2. QED
    BY <2>1
<1>7. QED
  BY <1>1, <1>5, <1>6

\* The cast to a byte changes no length that was checked.
LEMMA ByteIs ==
    ASSUME NEW len, LengthInByte(len)
    PROVE  AsByte(len) = len
<1>1. CASE len = NoLen
  BY <1>1 DEF AsByte
<1>2. CASE len \in 0..255
  BY <1>2 DEF AsByte, NoLen
<1>3. QED
  BY <1>1, <1>2 DEF LengthInByte

\* A column has between one byte and 255, and those the statement gave it.
LEMMA ColumnBytes ==
    ASSUME NEW def, AcceptedColumn(def)
    PROVE  /\ PlanColumn(def).byte_len \in 1..255
           /\ PlanColumn(def).byte_len = IF def.len = NoLen THEN 4 ELSE def.len
           /\ KnownType(def.kind)
           /\ TypeInfo[def.kind].expects_len =>
                 def.len \in 1..255 /\ def.len # NoLen
           /\ ~TypeInfo[def.kind].expects_len => def.len = NoLen
<1>0. LengthInByte(def.len) /\ AsByte(def.len) = def.len
  BY ByteIs DEF AcceptedColumn, PlansColumn
<1>1. Resolves(def.kind, def.len) /\ KnownType(def.kind) /\ def.len \in Int
  BY <1>0 DEF AcceptedColumn, PlansColumn, Resolves, ColumnDef
<1>2. /\ TypeInfo[def.kind].expects_len \in BOOLEAN
      /\ TypeInfo[def.kind].expects_len =>
            TypeInfo[def.kind].min_len = 1 /\ TypeInfo[def.kind].max_len \in 1..255
      /\ ~TypeInfo[def.kind].expects_len => TypeInfo[def.kind].fixed_size = 4
  BY <1>1, Kinds
<1>3. PlanColumn(def).byte_len = ByteLen(def.kind, def.len)
  BY <1>0 DEF PlanColumn
<1>4. CASE TypeInfo[def.kind].expects_len
  <2>1. def.len \in 1..255 /\ def.len # NoLen
    BY <1>1, <1>2, <1>4 DEF Resolves, NoLen
  <2>2. QED
    BY <1>1, <1>3, <1>4, <2>1 DEF ByteLen
<1>5. CASE ~TypeInfo[def.kind].expects_len
  BY <1>1, <1>2, <1>3, <1>5 DEF ByteLen, Resolves
<1>6. QED
  BY <1>2, <1>4, <1>5

\* What is written of a column is read back as that column.
LEMMA ColumnBack ==
    ASSUME NEW def, AcceptedColumn(def)
    PROVE  LET text == ColumnText(PlanColumn(def))
           IN  /\ PlanColumn(text) = PlanColumn(def)
               /\ LengthInByte(text.len)
               /\ Resolves(text.kind, AsByte(text.len))
               /\ text.name = def.name
<1> DEFINE column == PlanColumn(def)
           text == ColumnText(column)
<1>1. /\ column.name = def.name /\ column.kind = def.kind
      /\ column.default = def.default
      /\ column.byte_len = ByteLen(def.kind, AsByte(def.len))
  BY DEF PlanColumn
<1>2. /\ text.name = def.name /\ text.kind = def.kind /\ text.default = def.default
      /\ text.len = IF TypeInfo[def.kind].expects_len THEN column.byte_len ELSE NoLen
  BY <1>1 DEF ColumnText
<1>3. text.len = def.len
  BY <1>1, <1>2, ColumnBytes
<1>4. PlanColumn(text) = PlanColumn(def)
  BY <1>2, <1>3 DEF PlanColumn
<1>5. LengthInByte(def.len) /\ Resolves(def.kind, AsByte(def.len))
  BY DEF AcceptedColumn, PlansColumn
<1>6. QED
  BY <1>2, <1>3, <1>4, <1>5

(***************************************************************************)
(* Places of names.                                                        *)
(***************************************************************************)
LEMMA Least ==
    ASSUME NEW S \in SUBSET Nat, S # {}
    PROVE  \E x \in S : \A y \in S : x =< y
<1>1. PICK x \in S : \A y \in S : ~(<<y, x>> \in OpToRel(<, Nat))
  BY NatLessThanWellFounded, WFMin
<1>2. \A y \in S : ~(y < x)
  BY <1>1 DEF OpToRel
<1>3. QED
  BY <1>2

LEMMA MinIs ==
    ASSUME NEW S \in SUBSET Nat, S # {}
    PROVE  Min(S) \in S
<1>1. \E x \in S : \A y \in S : x =< y
  BY Least
<1>2. QED
  BY <1>1 DEF Min

LEMMA ColumnPlace ==
    ASSUME NEW columns, NEW n \in Nat, Len(columns) = n, NEW name
    PROVE  LET pos == ColumnPos(columns, name)
           IN  /\ pos \in 0..n
               /\ pos # 0 => columns[pos].name = name
<1> DEFINE S == {i \in 1..n : columns[i].name = name}
<1>1. ColumnPos(columns, name) = IF S # {} THEN Min(S) ELSE 0
  BY DEF ColumnPos, SelectInSeq
<1>2. S \in SUBSET Nat /\ S \subseteq 1..n
  OBVIOUS
<1>3. S # {} => Min(S) \in S
  BY <1>2, MinIs
<1>4. QED
  BY <1>1, <1>2, <1>3

LEMMA IndexPlace ==
    ASSUME NEW indexes, NEW n \in Nat, Len(indexes) = n, NEW name
    PROVE  LET pos == IndexNamed(indexes, name)
           IN  /\ pos \in 0..n
               /\ pos # 0 => indexes[pos].name = name
               /\ pos = 0 => \A i \in 1..n : indexes[i].name # name
<1> DEFINE S == {i \in 1..n : indexes[i].name = name}
<1>1. IndexNamed(indexes, name) = IF S # {} THEN Min(S) ELSE 0
  BY DEF IndexNamed, SelectInSeq
<1>2. S \in SUBSET Nat /\ S \subseteq 1..n
  OBVIOUS
<1>3. S # {} => Min(S) \in S
  BY <1>2, MinIs
<1>4. QED
  BY <1>1, <1>2, <1>3

(***************************************************************************)
(* Sums.                                                                   *)
(***************************************************************************)
\* The first sums of lens, up to n.
Sums(f, lens, n) == f = [m \in 0..n |-> IF m = 0 THEN 0 ELSE f[m - 1] + lens[m]]

LEMMA SumsExist ==
    ASSUME NEW lens, NEW n \in Nat
    PROVE  \E f : Sums(f, lens, n)
<1> DEFINE S == {m \in Nat : ~ \E f : Sums(f, lens, m)}
<1>1. SUFFICES ASSUME S # {} PROVE FALSE
  OBVIOUS
<1>2. PICK m \in S : \A k \in S : m =< k
  BY <1>1, Least
<1>3. m # 0
  <2>1. Sums([k \in 0..0 |-> 0], lens, 0)
    BY DEF Sums
  <2>2. QED
    BY <2>1
<1>4. m - 1 \in Nat /\ m - 1 \notin S
  BY <1>2, <1>3
<1>5. PICK f : Sums(f, lens, m - 1)
  BY <1>4
<1> DEFINE g == [k \in 0..m |-> IF k = m THEN f[m - 1] + lens[m] ELSE f[k]]
<1>6. \A k \in 0..m : g[k] = IF k = 0 THEN 0 ELSE g[k - 1] + lens[k]
  <2>1. TAKE k \in 0..m
  <2>2. CASE k = m
    BY <1>3, <2>2
  <2>3. CASE k # m
    <3>1. k \in 0..(m - 1) /\ g[k] = f[k]
      BY <2>3, <1>2
    <3>2. f[k] = IF k = 0 THEN 0 ELSE f[k - 1] + lens[k]
      BY <1>5, <3>1 DEF Sums
    <3>3. k # 0 => g[k - 1] = f[k - 1]
      BY <3>1
    <3>4. QED
      BY <3>1, <3>2, <3>3
  <2>4. QED
    BY <2>2, <2>3
<1>7. g = [k \in 0..m |-> IF k = 0 THEN 0 ELSE g[k - 1] + lens[k]]
  <2>1. g = [k \in 0..m |-> g[k]]
    OBVIOUS
  <2> HIDE DEF g
  <2>2. QED
    BY <1>6, <2>1
<1>8. Sums(g, lens, m)
  BY <1>7 DEF Sums
<1>9. QED
  BY <1>2, <1>8

LEMMA OneMore ==
    ASSUME NEW m \in Nat, NEW x \in Int, NEW y \in Int,
           m - 1 =< x, x =< 255 * (m - 1), 1 =< y, y =< 255
    PROVE  x + y \in m..(255 * m)
  BY Z3

\* A sum of n numbers between 1 and 255.
LEMMA TotalBounds ==
    ASSUME NEW lens, NEW n \in Nat, Len(lens) = n,
           \A k \in 1..n : lens[k] \in 1..255
    PROVE  \E total \in Nat : /\ total = Total(lens)
                              /\ n =< total /\ total =< 255 * n
<1> DEFINE f == CHOOSE f : Sums(f, lens, n)
<1>1. Sums(f, lens, n)
  BY SumsExist
<1>2. Total(lens) = f[n]
  BY DEF Total, Sums
<1>3. f = [m \in 0..n |-> IF m = 0 THEN 0 ELSE f[m - 1] + lens[m]]
  BY <1>1 DEF Sums
<1> HIDE DEF f
<1> DEFINE S == {m \in 0..n : f[m] \notin m..(255 * m)}
<1>4. S = {}
  <2>1. SUFFICES ASSUME S # {} PROVE FALSE
    OBVIOUS
  <2>2. S \in SUBSET Nat
    OBVIOUS
  <2>3. PICK m \in 0..n : f[m] \notin m..(255 * m) /\ \A k \in S : m =< k
    <3>1. PICK m \in S : \A k \in S : m =< k
      BY <2>1, <2>2, Least
    <3>2. m \in 0..n /\ f[m] \notin m..(255 * m)
      OBVIOUS
    <3>3. QED
      BY <3>1, <3>2
  <2>4. f[0] = 0
    BY <1>3
  <2>5. m # 0 /\ m - 1 \in 0..n /\ m \in 1..n /\ m - 1 \notin S
    BY <2>3, <2>4
  <2>6. PICK x \in (m - 1)..(255 * (m - 1)) : x = f[m - 1]
    BY <2>5
  <2>7. PICK y \in 1..255 : y = lens[m]
    BY <2>5
  <2>8. f[m] = x + y
    BY <1>3, <2>5, <2>6, <2>7
  <2>9. x + y \in m..(255 * m)
    BY OneMore
  <2>10. QED
    BY <2>3, <2>8, <2>9
<1>5. f[n] \in n..(255 * n)
  BY <1>4
<1>6. QED
  BY <1>2, <1>5

(***************************************************************************)
(* Indexes.                                                                *)
(***************************************************************************)
\* A list of columns in memory.
ColumnList(columns, n) ==
    /\ Len(columns) = n /\ DOMAIN columns = 1..n
    /\ \A i \in 1..n : columns[i].byte_len \in 1..255

\* A place per part, in the list, and not more bytes than the column has there.
LEMMA PartBytes ==
    ASSUME NEW columns, NEW n \in Nat, ColumnList(columns, n),
           NEW part, part.len \in Int,
           ColumnPos(columns, part.column) # 0,
           KeyPartFits(part, columns[ColumnPos(columns, part.column)])
    PROVE  LET pos == ColumnPos(columns, part.column)
           IN  /\ pos \in 1..n /\ columns[pos].name = part.column
               /\ KeyPartLength(part, columns[pos]) \in 1..columns[pos].byte_len
               /\ KeyPartLength(part, columns[pos]) \in 1..255
<1> DEFINE pos == ColumnPos(columns, part.column)
<1>1. pos \in 1..n /\ columns[pos].name = part.column
  BY ColumnPlace DEF ColumnList
<1> HIDE DEF pos
<1>2. PICK b \in 1..255 : b = columns[pos].byte_len
  BY <1>1 DEF ColumnList
<1>3. part.len = NoLen \/ part.len \in 1..b
  BY <1>2 DEF KeyPartFits, pos
<1>4. KeyPartLength(part, columns[pos]) = IF part.len = NoLen THEN b ELSE part.len
  <2>1. part.len \in 1..b => LengthInByte(part.len)
    BY <1>2 DEF LengthInByte
  <2>2. QED
    BY <1>2, <1>3, <2>1, ByteIs DEF KeyPartLength
<1>5. KeyPartLength(part, columns[pos]) \in 1..b
  BY <1>2, <1>3, <1>4
<1>6. KeyPartLength(part, columns[pos]) \in 1..255
  BY <1>2, <1>5
<1>7. QED
  BY <1>1, <1>2, <1>5, <1>6 DEF pos

LEMMA Parts ==
    ASSUME NEW columns, NEW stmt, AcceptedIndex(columns, stmt)
    PROVE  /\ Len(stmt.parts) \in Nat /\ Len(stmt.parts) # 0
           /\ DOMAIN stmt.parts = 1..Len(stmt.parts)
           /\ \A i \in 1..Len(stmt.parts) : stmt.parts[i].len \in Int
<1>1. stmt.parts \in Seq(PartDef) /\ stmt.parts # <<>>
  BY DEF AcceptedIndex, IndexDef
<1>2. \A i \in 1..Len(stmt.parts) : stmt.parts[i] \in PartDef
  BY <1>1
<1>3. QED
  BY <1>1, <1>2, EmptySeq DEF PartDef

\* What the planner makes of a part.
PartPlanned(columns, stmt_part, part) ==
    LET pos == ColumnPos(columns, stmt_part.column)
    IN  /\ pos \in DOMAIN columns
        /\ columns[pos].name = stmt_part.column
        /\ part.column = stmt_part.column
        /\ part.pos = pos
        /\ part.type = TypeInfo[columns[pos].kind].value
        /\ part.len = KeyPartLength(stmt_part, columns[pos])
        /\ part.len \in 1..columns[pos].byte_len
        /\ part.len \in 1..255

IndexPlanned(columns, stmt, index) ==
    /\ index.name = stmt.name
    /\ index.is_unique = stmt.is_unique /\ index.node_size = NodeSize
    /\ Len(index.parts) = Len(stmt.parts)
    /\ DOMAIN index.parts = 1..Len(stmt.parts)
    /\ \A i \in 1..Len(stmt.parts) :
          PartPlanned(columns, stmt.parts[i], index.parts[i])

LEMMA IndexIs ==
    ASSUME NEW columns, NEW n \in Nat, ColumnList(columns, n),
           NEW stmt, AcceptedIndex(columns, stmt), NEW type, NEW index,
           index = PlanIndex(columns, stmt.name, type, stmt.is_unique, stmt.parts)
    PROVE  IndexPlanned(columns, stmt, index)
<1>1. PICK m \in Nat : m = Len(stmt.parts) /\ DOMAIN stmt.parts = 1..m
  BY Parts
<1>2. /\ index.name = stmt.name /\ index.type = type
      /\ index.is_unique = stmt.is_unique /\ index.node_size = NodeSize
      /\ index.parts = [i \in 1..m |->
            LET pos == ColumnPos(columns, stmt.parts[i].column)
            IN  [column |-> stmt.parts[i].column, pos |-> pos,
                 type |-> TypeInfo[columns[pos].kind].value,
                 len |-> KeyPartLength(stmt.parts[i], columns[pos])]]
  BY <1>1 DEF PlanIndex
<1>3. Len(index.parts) = m /\ DOMAIN index.parts = 1..m
  BY <1>2
<1>4. ASSUME NEW i \in 1..m
      PROVE  LET pos == ColumnPos(columns, stmt.parts[i].column)
             IN  /\ pos \in 1..n
                 /\ columns[pos].name = stmt.parts[i].column
                 /\ KeyPartLength(stmt.parts[i], columns[pos])
                        \in 1..columns[pos].byte_len
                 /\ KeyPartLength(stmt.parts[i], columns[pos]) \in 1..255
  <2>1. stmt.parts[i].len \in Int
    BY <1>1, Parts
  <2>2. /\ ColumnPos(columns, stmt.parts[i].column) # 0
        /\ KeyPartFits(stmt.parts[i], columns[ColumnPos(columns, stmt.parts[i].column)])
    BY <1>1 DEF AcceptedIndex
  <2>3. QED
    BY <2>1, <2>2, PartBytes
<1>5. ASSUME NEW i \in 1..m
      PROVE  PartPlanned(columns, stmt.parts[i], index.parts[i])
  <2> DEFINE part == stmt.parts[i]
             pos == ColumnPos(columns, part.column)
             planned == index.parts[i]
  <2>1. planned = [column |-> part.column, pos |-> pos,
                   type |-> TypeInfo[columns[pos].kind].value,
                   len |-> KeyPartLength(part, columns[pos])]
    BY <1>2
  <2>2. /\ pos \in DOMAIN columns /\ columns[pos].name = part.column
        /\ KeyPartLength(part, columns[pos]) \in 1..columns[pos].byte_len
        /\ KeyPartLength(part, columns[pos]) \in 1..255
    BY <1>4 DEF ColumnList
  <2> HIDE DEF part, planned
  <2>3. PartPlanned(columns, part, planned)
    BY <2>1, <2>2 DEF PartPlanned
  <2>4. QED
    BY <2>3 DEF part, planned
<1>6. QED
  BY <1>1, <1>2, <1>3, <1>5 DEF IndexPlanned

\* A block of a node takes three keys of the greatest size and what goes with
\* them, as 4096 bytes do: 4 * 255 bytes.
BlocksHoldKeys == Room(NodeSize, MaxParts * 255)

\* The number the planner adds up is that of the lengths of the parts, and
\* between one byte and MaxParts * 255.
LEMMA KeySize ==
    ASSUME NEW columns, NEW n \in Nat, ColumnList(columns, n),
           NEW stmt, AcceptedIndex(columns, stmt), NEW type, NEW index,
           index = PlanIndex(columns, stmt.name, type, stmt.is_unique, stmt.parts),
           BlocksHoldKeys
    PROVE  /\ index.key_size =
                 Total([p \in DOMAIN index.parts |-> index.parts[p].len])
           /\ index.key_size \in 1..(MaxParts * 255)
<1> DEFINE lens == [p \in DOMAIN index.parts |-> index.parts[p].len]
           planned == [i \in DOMAIN stmt.parts |->
              KeyPartLength(stmt.parts[i],
                            columns[ColumnPos(columns, stmt.parts[i].column)])]
<1>1. PICK m \in Nat : m = Len(stmt.parts) /\ DOMAIN stmt.parts = 1..m /\ m # 0
  BY Parts
<1>2. MaxParts \in Nat /\ m =< MaxParts
  BY <1>1, DefinitionsAssumption DEF AcceptedIndex
<1>3. index.key_size = W16(Total(planned))
  BY DEF PlanIndex
<1>4. /\ DOMAIN index.parts = 1..m
      /\ \A i \in 1..m : PartPlanned(columns, stmt.parts[i], index.parts[i])
  <2>1. IndexPlanned(columns, stmt, index)
    BY IndexIs
  <2>2. QED
    BY <1>1, <2>1 DEF IndexPlanned
<1>5. lens = planned
  <2>1. lens = [i \in 1..m |-> index.parts[i].len]
    BY <1>4
  <2>2. planned = [i \in 1..m |->
           KeyPartLength(stmt.parts[i], columns[ColumnPos(columns, stmt.parts[i].column)])]
    BY <1>1
  <2>3. \A i \in 1..m : index.parts[i].len =
           KeyPartLength(stmt.parts[i], columns[ColumnPos(columns, stmt.parts[i].column)])
    BY <1>4 DEF PartPlanned
  <2>4. QED
    BY <2>1, <2>2, <2>3
<1>6. Len(lens) = m /\ \A k \in 1..m : lens[k] \in 1..255
  <2>1. lens = [i \in 1..m |-> index.parts[i].len]
    BY <1>4
  <2>2. \A k \in 1..m : index.parts[k].len \in 1..255
    BY <1>4 DEF PartPlanned
  <2> HIDE DEF lens
  <2>3. Len(lens) = m
    BY <2>1
  <2>4. \A k \in 1..m : lens[k] = index.parts[k].len
    BY <2>1
  <2>5. QED
    BY <2>2, <2>3, <2>4
<1> HIDE DEF lens, planned
<1>7. PICK total \in Nat : /\ total = Total(lens)
                           /\ m =< total /\ total =< 255 * m
  BY <1>6, TotalBounds
<1>8. total \in 1..(MaxParts * 255) /\ total < 65536
  <2>1. 255 * m =< MaxParts * 255
    BY <1>2, Z3
  <2>2. NodeSize < 65536 /\ NodeSize \in Nat /\ NodeSize >= 11 + 3 * (MaxParts * 255 + 16)
    BY DEF BlocksHoldKeys, Room
  <2>3. QED
    BY <1>1, <1>2, <1>7, <2>1, <2>2
<1>9. W16(total) = total
  BY <1>8, Fits
<1>10. QED
  BY <1>3, <1>5, <1>7, <1>8, <1>9 DEF lens

\* What is written of an index is read back as that index.
LEMMA IndexBack ==
    ASSUME NEW columns, NEW n \in Nat, ColumnList(columns, n),
           NEW stmt, AcceptedIndex(columns, stmt), NEW index,
           index = PlanIndex(columns, stmt.name, "btree", stmt.is_unique, stmt.parts),
           NEW text, text = IndexText(index)
    PROVE  /\ LoadsIndex(columns, text)
           /\ PlanIndex(columns, text.name, text.type, text.is_unique, text.parts) = index
<1>1. PICK m \in Nat : m = Len(stmt.parts) /\ DOMAIN stmt.parts = 1..m
  BY Parts
<1>2. /\ index.name = stmt.name /\ index.type = "btree"
      /\ index.is_unique = stmt.is_unique /\ index.node_size = NodeSize
      /\ DOMAIN index.parts = 1..m /\ Len(index.parts) = m
      /\ \A i \in 1..m : PartPlanned(columns, stmt.parts[i], index.parts[i])
  <2>1. IndexPlanned(columns, stmt, index)
    BY IndexIs
  <2>2. index.type = "btree"
    BY DEF PlanIndex
  <2>3. QED
    BY <1>1, <2>1, <2>2 DEF IndexPlanned
<1>3. /\ text.name = stmt.name /\ text.type = "btree"
      /\ text.is_unique = stmt.is_unique
      /\ text.parts = [i \in 1..m |-> [column |-> index.parts[i].column,
                                       len |-> index.parts[i].len]]
  BY <1>2 DEF IndexText
<1>4. Len(text.parts) = m /\ DOMAIN text.parts = 1..m
  BY <1>3
<1>5. ASSUME NEW i \in 1..m
      PROVE  /\ text.parts[i].column = stmt.parts[i].column
             /\ ColumnPos(columns, stmt.parts[i].column) # 0
             /\ LET column == columns[ColumnPos(columns, stmt.parts[i].column)]
                IN  /\ KeyPartLength(text.parts[i], column)
                           = KeyPartLength(stmt.parts[i], column)
                    /\ LoadsPart(text.parts[i], column)
  <2> DEFINE part == index.parts[i]
             pos == ColumnPos(columns, stmt.parts[i].column)
  <2>1. PartPlanned(columns, stmt.parts[i], part)
    BY <1>2
  <2>2. /\ part.column = stmt.parts[i].column /\ pos \in DOMAIN columns
        /\ part.len = KeyPartLength(stmt.parts[i], columns[pos])
        /\ part.len \in 1..columns[pos].byte_len /\ part.len \in 1..255
    BY <2>1 DEF PartPlanned
  <2>3. text.parts[i].column = part.column /\ text.parts[i].len = part.len
    BY <1>3
  <2> HIDE DEF part, pos
  <2>4. part.len # NoLen
    BY <2>2 DEF NoLen
  <2>5. KeyPartLength(text.parts[i], columns[pos]) = part.len
    <3>1. LengthInByte(part.len)
      BY <2>2 DEF LengthInByte
    <3>2. QED
      BY <2>3, <2>4, <3>1, ByteIs DEF KeyPartLength
  <2>6. LoadsPart(text.parts[i], columns[pos])
    BY <2>2, <2>3 DEF LoadsPart
  <2>7. pos # 0
    BY <2>2 DEF ColumnList
  <2>8. QED
    BY <2>2, <2>3, <2>5, <2>6, <2>7 DEF pos
<1>6. m =< MaxParts
  BY <1>1 DEF AcceptedIndex
<1>7. LoadsIndex(columns, text)
  <2>1. KnownIndexType(text.type)
    BY <1>3 DEF KnownIndexType
  <2>2. ASSUME NEW i \in DOMAIN text.parts
        PROVE  LET pos == ColumnPos(columns, text.parts[i].column)
               IN  pos # 0 /\ LoadsPart(text.parts[i], columns[pos])
    <3>1. i \in 1..m
      BY <1>4
    <3>2. QED
      BY <1>5, <3>1
  <2>3. QED
    BY <1>4, <1>6, <2>1, <2>2 DEF LoadsIndex
<1>8. ASSUME NEW i \in 1..m
      PROVE  LET spos == ColumnPos(columns, stmt.parts[i].column)
                 tpos == ColumnPos(columns, text.parts[i].column)
             IN  /\ spos = tpos
                 /\ KeyPartLength(text.parts[i], columns[tpos])
                        = KeyPartLength(stmt.parts[i], columns[spos])
  BY <1>5
<1>9. [i \in 1..m |-> KeyPartLength(text.parts[i],
                          columns[ColumnPos(columns, text.parts[i].column)])]
      = [i \in 1..m |-> KeyPartLength(stmt.parts[i],
                          columns[ColumnPos(columns, stmt.parts[i].column)])]
  BY <1>8
<1>10. [i \in 1..m |->
          LET pos == ColumnPos(columns, text.parts[i].column)
          IN  [column |-> text.parts[i].column, pos |-> pos,
               type |-> TypeInfo[columns[pos].kind].value,
               len |-> KeyPartLength(text.parts[i], columns[pos])]]
      = [i \in 1..m |->
          LET pos == ColumnPos(columns, stmt.parts[i].column)
          IN  [column |-> stmt.parts[i].column, pos |-> pos,
               type |-> TypeInfo[columns[pos].kind].value,
               len |-> KeyPartLength(stmt.parts[i], columns[pos])]]
  BY <1>5, <1>8
<1>11. PlanIndex(columns, text.name, text.type, text.is_unique, text.parts) = index
  BY <1>1, <1>3, <1>4, <1>9, <1>10 DEF PlanIndex
<1>12. QED
  BY <1>7, <1>11

(***************************************************************************)
(* The table that statements make, and its file.                           *)
(***************************************************************************)
LEMMA BuiltIs ==
    ASSUME NEW d, Accepted(d), NEW t, t = Built(d)
    PROVE  /\ Len(d.columns) \in Nat /\ DOMAIN d.columns = 1..Len(d.columns)
           /\ Len(d.indexes) \in Nat /\ DOMAIN d.indexes = 1..Len(d.indexes)
           /\ t = [columns |-> t.columns, indexes |-> t.indexes]
           /\ ColumnList(t.columns, Len(d.columns))
           /\ \A i \in 1..Len(d.columns) :
                 /\ AcceptedColumn(d.columns[i])
                 /\ t.columns[i] = PlanColumn(d.columns[i])
           /\ Len(t.indexes) = Len(d.indexes) /\ DOMAIN t.indexes = 1..Len(d.indexes)
           /\ \A i \in 1..Len(d.indexes) :
                 /\ AcceptedIndex(t.columns, d.indexes[i])
                 /\ t.indexes[i] =
                       PlanIndex(t.columns, d.indexes[i].name, "btree",
                                 d.indexes[i].is_unique, d.indexes[i].parts)
<1>1. d.columns \in Seq(ColumnDef) /\ d.indexes \in Seq(IndexDef)
  BY DEF Accepted
<1>2. PICK n \in Nat : n = Len(d.columns) /\ DOMAIN d.columns = 1..n
  BY <1>1
<1>3. PICK m \in Nat : m = Len(d.indexes) /\ DOMAIN d.indexes = 1..m
  BY <1>1
<1>4. /\ t.columns = [i \in 1..n |-> PlanColumn(d.columns[i])]
      /\ t.indexes = [i \in 1..m |->
            PlanIndex(t.columns, d.indexes[i].name, "btree",
                      d.indexes[i].is_unique, d.indexes[i].parts)]
      /\ t = [columns |-> t.columns, indexes |-> t.indexes]
  BY <1>2, <1>3 DEF Built
<1>5. \A i \in 1..n : AcceptedColumn(d.columns[i])
  BY <1>2 DEF Accepted
<1>6. \A i \in 1..m : AcceptedIndex(t.columns, d.indexes[i])
  BY <1>3 DEF Accepted
<1>7. \A i \in 1..n : t.columns[i] = PlanColumn(d.columns[i])
  BY <1>4
<1>8. ColumnList(t.columns, n)
  <2>1. \A i \in 1..n : t.columns[i].byte_len \in 1..255
    BY <1>5, <1>7, ColumnBytes
  <2>2. QED
    BY <1>4, <2>1 DEF ColumnList
<1>9. Len(t.indexes) = m /\ DOMAIN t.indexes = 1..m
  BY <1>4
<1>10. \A i \in 1..m : t.indexes[i] =
          PlanIndex(t.columns, d.indexes[i].name, "btree",
                    d.indexes[i].is_unique, d.indexes[i].parts)
  BY <1>4
<1>11. QED
  BY <1>2, <1>3, <1>4, <1>5, <1>6, <1>7, <1>8, <1>9, <1>10

\* What a start makes of the file is the table that was saved, and it makes
\* something of it unless a column's name is not plain.
LEMMA RoundTrip ==
    ASSUME NEW d, Accepted(d)
    PROVE  /\ Loaded(Saved(Built(d))) = Built(d)
           /\ (\A i \in DOMAIN d.columns : d.columns[i].name \in Plain)
                 => Loads(Saved(Built(d)))
<1>1. PICK t : t = Built(d)
  OBVIOUS
<1>2. PICK f : f = Saved(t)
  OBVIOUS
<1>3. PICK n \in Nat : n = Len(d.columns) /\ DOMAIN d.columns = 1..n
  BY <1>1, BuiltIs
<1>4. PICK m \in Nat : m = Len(d.indexes) /\ DOMAIN d.indexes = 1..m
  BY <1>1, BuiltIs
<1>5. /\ t = [columns |-> t.columns, indexes |-> t.indexes]
      /\ ColumnList(t.columns, n)
      /\ \A i \in 1..n : AcceptedColumn(d.columns[i])
                         /\ t.columns[i] = PlanColumn(d.columns[i])
      /\ Len(t.indexes) = m /\ DOMAIN t.indexes = 1..m
      /\ \A i \in 1..m :
            /\ AcceptedIndex(t.columns, d.indexes[i])
            /\ t.indexes[i] =
                  PlanIndex(t.columns, d.indexes[i].name, "btree",
                            d.indexes[i].is_unique, d.indexes[i].parts)
  BY <1>1, <1>3, <1>4, BuiltIs
<1>6. /\ Len(t.columns) = n /\ DOMAIN t.columns = 1..n
      /\ t.columns = [i \in 1..n |-> t.columns[i]]
      /\ t.indexes = [i \in 1..m |-> t.indexes[i]]
  <2>1. t.columns = [i \in DOMAIN d.columns |-> PlanColumn(d.columns[i])]
    BY <1>1 DEF Built
  <2>2. \E c : t.indexes = [i \in DOMAIN d.indexes |->
            PlanIndex(c, d.indexes[i].name, "btree",
                      d.indexes[i].is_unique, d.indexes[i].parts)]
    BY <1>1 DEF Built
  <2>3. t.columns = [i \in 1..n |-> t.columns[i]]
    BY <1>3, <2>1
  <2>4. t.indexes = [i \in 1..m |-> t.indexes[i]]
    BY <1>4, <2>2
  <2>5. QED
    BY <1>5, <2>3, <2>4 DEF ColumnList
<1>7. /\ f.columns = [i \in 1..n |-> ColumnText(t.columns[i])]
      /\ f.indexes = [i \in 1..m |-> IndexText(t.indexes[i])]
  BY <1>2, <1>5, <1>6 DEF Saved
<1>8. /\ Len(f.columns) = n /\ DOMAIN f.columns = 1..n
      /\ Len(f.indexes) = m /\ DOMAIN f.indexes = 1..m
  BY <1>7
<1>9. ASSUME NEW i \in 1..n
      PROVE  /\ PlanColumn(f.columns[i]) = t.columns[i]
             /\ LengthInByte(f.columns[i].len)
             /\ Resolves(f.columns[i].kind, AsByte(f.columns[i].len))
             /\ f.columns[i].name = d.columns[i].name
  BY <1>5, <1>7, ColumnBack
<1>10. LoadedColumns(f) = t.columns
  <2>1. LoadedColumns(f) = [i \in 1..n |-> PlanColumn(f.columns[i])]
    BY <1>8 DEF LoadedColumns
  <2>2. QED
    BY <1>6, <1>9, <2>1
<1>11. ASSUME NEW i \in 1..m
       PROVE  /\ LoadsIndex(t.columns, f.indexes[i])
              /\ PlanIndex(t.columns, f.indexes[i].name, f.indexes[i].type,
                           f.indexes[i].is_unique, f.indexes[i].parts) = t.indexes[i]
  <2>1. PICK stmt, index, text :
           /\ stmt = d.indexes[i] /\ index = t.indexes[i] /\ text = f.indexes[i]
           /\ AcceptedIndex(t.columns, stmt)
           /\ index = PlanIndex(t.columns, stmt.name, "btree", stmt.is_unique, stmt.parts)
           /\ text = IndexText(index)
    BY <1>5, <1>7
  <2>2. QED
    BY <1>5, <2>1, IndexBack
<1>12. Loaded(f) = t
  <2>1. Loaded(f) = [columns |-> t.columns,
           indexes |-> [i \in 1..m |->
              PlanIndex(t.columns, f.indexes[i].name, f.indexes[i].type,
                        f.indexes[i].is_unique, f.indexes[i].parts)]]
    BY <1>8, <1>10 DEF Loaded
  <2>2. [i \in 1..m |->
            PlanIndex(t.columns, f.indexes[i].name, f.indexes[i].type,
                      f.indexes[i].is_unique, f.indexes[i].parts)] = t.indexes
    BY <1>6, <1>11
  <2>3. QED
    BY <1>5, <2>1, <2>2
<1>13. ASSUME \A i \in DOMAIN d.columns : d.columns[i].name \in Plain
       PROVE  Loads(f)
  <2>1. n =< MaxColumns /\ m =< MaxIndexes
    BY <1>3, <1>4 DEF Accepted
  <2>2. \A i \in 1..n : LoadsColumn(f.columns[i])
    BY <1>3, <1>9, <1>13 DEF LoadsColumn, PlainName
  <2>3. QED
    BY <1>8, <1>10, <1>11, <2>1, <2>2 DEF Loads
<1>14. QED
  BY <1>1, <1>2, <1>12, <1>13

(***************************************************************************)
(* The steps.                                                              *)
(***************************************************************************)
LEMMA NothingAccepted ==
    Accepted(NoTable) /\ Built(NoTable) = NoTable /\ Saved(NoTable) = NoTable
<1>1. /\ NoTable.columns = <<>> /\ NoTable.indexes = <<>>
      /\ NoTable \in [columns : Seq(ColumnDef), indexes : Seq(IndexDef)]
  BY DEF NoTable
<1>2. Len(<<>>) = 0 /\ DOMAIN <<>> = {}
  OBVIOUS
<1>3. MaxColumns \in Nat /\ MaxIndexes \in Nat
  BY DefinitionsAssumption
<1>4. Accepted(NoTable)
  BY <1>1, <1>2, <1>3 DEF Accepted
<1>5. Built(NoTable) = NoTable /\ Saved(NoTable) = NoTable
  BY <1>1, <1>2 DEF Built, Saved, NoTable
<1>6. QED
  BY <1>4, <1>5

LEMMA InitDefinitions == Init => DefinitionsInv
  BY NothingAccepted DEF Init, DefinitionsInv

LEMMA StartDefinitions == ASSUME DefinitionsInv, Start PROVE DefinitionsInv'
<1>1. Accepted(declared) /\ file = Saved(Built(declared))
  BY DEF DefinitionsInv
<1>2. Loaded(file) = Built(declared)
  BY <1>1, RoundTrip
<1>3. ~Loads(file) => OddColumns
  <2>1. SUFFICES ASSUME ~Loads(file) PROVE OddColumns
    OBVIOUS
  <2>2. PICK i \in DOMAIN declared.columns : declared.columns[i].name \notin Plain
    BY <1>1, <2>1, RoundTrip
  <2>3. declared.columns[i] \in ColumnDef /\ declared.columns[i].name \notin Long
    BY <1>1 DEF Accepted, AcceptedColumn
  <2>4. declared.columns[i].name \in Odd
    BY <2>2, <2>3 DEF ColumnDef, Name
  <2>5. QED
    BY <2>4 DEF OddColumns
<1>4. declared' = declared
  BY DEF Start
<1>5. Accepted(declared') /\ (OddColumns' <=> OddColumns)
  BY <1>1, <1>4 DEF Accepted, OddColumns
<1>6. file' = Saved(Built(declared'))
  BY <1>1, <1>2, <1>4 DEF Start
<1>7. table' = IF pc' = "up" THEN Built(declared') ELSE NoTable
  BY <1>2, <1>4 DEF Start, DefinitionsInv
<1>8. pc' \in {"up", "down", "refused"} /\ (pc' = "refused" => OddColumns')
  BY <1>3, <1>5 DEF Start
<1>9. QED
  BY <1>5, <1>6, <1>7, <1>8 DEF DefinitionsInv

\* A list of whatever.
IsList(s, n) == s = [i \in 1..n |-> s[i]]

LEMMA Appended ==
    ASSUME NEW s, NEW n \in Nat, IsList(s, n), NEW e
    PROVE  Append(s, e) = [i \in 1..(n + 1) |-> IF i = n + 1 THEN e ELSE s[i]]
<1> DEFINE S == {s[i] : i \in 1..n} \cup {e}
<1>1. s \in Seq(S) /\ Len(s) = n
  BY DEF IsList
<1>2. e \in S
  OBVIOUS
<1> HIDE DEF S
<1>3. PICK r \in Seq(S) : r = Append(s, e)
  BY <1>1, <1>2, AppendProperties
<1>4. Len(r) = n + 1 /\ \A i \in 1..(n + 1) : r[i] = IF i = n + 1 THEN e ELSE s[i]
  BY <1>1, <1>2, <1>3, AppendProperties
<1>5. r = [i \in 1..(n + 1) |-> r[i]]
  BY <1>4
<1>6. QED
  BY <1>3, <1>4, <1>5

LEMMA Removed ==
    ASSUME NEW s, NEW n \in Nat, IsList(s, n), NEW k \in 1..n
    PROVE  RemoveAt(s, k) = [i \in 1..(n - 1) |-> IF i < k THEN s[i] ELSE s[i + 1]]
<1> DEFINE S == {s[i] : i \in 1..n}
<1>1. s \in Seq(S) /\ Len(s) = n
  BY DEF IsList
<1> HIDE DEF S
<1> DEFINE before == SubSeq(s, 1, k - 1)
           after == SubSeq(s, k + 1, n)
<1>2. /\ before \in Seq(S) /\ Len(before) = k - 1
      /\ \A i \in 1..(k - 1) : before[i] = s[i]
  BY <1>1
<1>3. /\ after \in Seq(S) /\ Len(after) = n - k
      /\ \A i \in 1..(n - k) : after[i] = s[i + k]
  BY <1>1
<1>4. RemoveAt(s, k) = before \o after
  BY <1>1 DEF RemoveAt
<1> HIDE DEF before, after
<1>5. PICK r \in Seq(S) : r = before \o after
  BY <1>2, <1>3, ConcatProperties
<1>6. Len(r) = n - 1
  <2>1. Len(before \o after) = Len(before) + Len(after)
    BY <1>2, <1>3
  <2>2. QED
    BY <1>2, <1>3, <1>5, <2>1
<1>7. ASSUME NEW i \in 1..(n - 1)
      PROVE  r[i] = IF i < k THEN s[i] ELSE s[i + 1]
  <2>1. i \in 1..(Len(before) + Len(after))
    BY <1>2, <1>3
  <2>2. (before \o after)[i]
           = IF i =< Len(before) THEN before[i] ELSE after[i - Len(before)]
    BY <1>2, <1>3, <2>1
  <2>3. r[i] = IF i < k THEN before[i] ELSE after[i - (k - 1)]
    BY <1>2, <1>5, <2>2
  <2>4. CASE i < k
    BY <1>2, <2>3, <2>4
  <2>5. CASE ~(i < k)
    <3>1. PICK j \in 1..(n - k) : j = i - (k - 1)
      BY <2>5
    <3>2. after[j] = s[j + k] /\ j + k = i + 1
      BY <1>3, <3>1
    <3>3. QED
      BY <2>3, <2>5, <3>1, <3>2
  <2>6. QED
    BY <2>4, <2>5
<1>8. r = [i \in 1..(n - 1) |-> r[i]]
  BY <1>6
<1>9. QED
  BY <1>4, <1>5, <1>7, <1>8

LEMMA UpStep ==
    ASSUME pc' = "up", Accepted(declared'), table' = Built(declared'),
           file' = Saved(table')
    PROVE  DefinitionsInv'
  BY DEF DefinitionsInv

LEMMA CreateTableDefinitions ==
    ASSUME NEW defs \in Tables, CreateTable(defs)
    PROVE  DefinitionsInv'
<1>1. /\ pc' = "up" /\ declared' = [columns |-> defs, indexes |-> <<>>]
      /\ table' = [columns |-> [i \in DOMAIN defs |-> PlanColumn(defs[i])],
                   indexes |-> <<>>]
      /\ file' = Saved(table')
      /\ ValidTable(defs) /\ \A i \in DOMAIN defs : PlansColumn(defs[i])
  BY DEF CreateTable
<1>2. PICK d : d = [columns |-> defs, indexes |-> <<>>]
  OBVIOUS
<1>3. defs \in Seq(ColumnDef) /\ MaxIndexes \in Nat
  BY DefinitionsAssumption
<1>4. /\ d.columns = defs /\ d.indexes = <<>>
      /\ d \in [columns : Seq(ColumnDef), indexes : Seq(IndexDef)]
  BY <1>2, <1>3
<1>5. Len(<<>>) = 0 /\ DOMAIN <<>> = {}
  OBVIOUS
<1>6. Len(defs) =< MaxColumns
  BY <1>1 DEF ValidTable
<1>7. \A i \in DOMAIN defs : AcceptedColumn(defs[i])
  <2>1. \A i \in DOMAIN defs : defs[i] \in ColumnDef
    BY <1>3
  <2>2. QED
    BY <1>1, <2>1 DEF AcceptedColumn, ValidTable
<1>8. Accepted(d)
  BY <1>3, <1>4, <1>5, <1>6, <1>7 DEF Accepted
<1>9. Built(d) = [columns |-> [i \in DOMAIN defs |-> PlanColumn(defs[i])],
                  indexes |-> <<>>]
  BY <1>4, <1>5 DEF Built
<1>10. QED
  BY <1>1, <1>2, <1>8, <1>9, UpStep

LEMMA BuiltLists ==
    ASSUME NEW d, Accepted(d)
    PROVE  /\ d = [columns |-> d.columns, indexes |-> d.indexes]
           /\ Len(d.indexes) \in Nat
           /\ IsList(d.indexes, Len(d.indexes))
           /\ IsList(Built(d).indexes, Len(d.indexes))
<1>1. d \in [columns : Seq(ColumnDef), indexes : Seq(IndexDef)]
  BY DEF Accepted
<1>2. d = [columns |-> d.columns, indexes |-> d.indexes]
  BY <1>1
<1>3. PICK m \in Nat : m = Len(d.indexes) /\ DOMAIN d.indexes = 1..m
  BY <1>1
<1>4. IsList(d.indexes, m)
  BY <1>1, <1>3 DEF IsList
<1>5. \E c : Built(d).indexes = [i \in 1..m |->
          PlanIndex(c, d.indexes[i].name, "btree",
                    d.indexes[i].is_unique, d.indexes[i].parts)]
  BY <1>3 DEF Built
<1>6. IsList(Built(d).indexes, m)
  BY <1>5 DEF IsList
<1>7. QED
  BY <1>2, <1>3, <1>4, <1>6

\* Another list of index statements on the same columns.
IndexList(columns, indexes, m) ==
    /\ indexes \in Seq(IndexDef) /\ Len(indexes) = m /\ m =< MaxIndexes
    /\ \A i \in 1..m : AcceptedIndex(columns, indexes[i])
    /\ \A i, j \in 1..m : indexes[i].name = indexes[j].name => i = j

Planned(columns, indexes, m) ==
    [i \in 1..m |-> PlanIndex(columns, indexes[i].name, "btree",
                              indexes[i].is_unique, indexes[i].parts)]

LEMMA OtherIndexes ==
    ASSUME NEW d, Accepted(d), NEW columns, columns = Built(d).columns,
           NEW m \in Nat, NEW indexes, IndexList(columns, indexes, m),
           NEW other, other = [columns |-> d.columns, indexes |-> indexes]
    PROVE  /\ Accepted(other)
           /\ Built(other) = [columns |-> columns,
                              indexes |-> Planned(columns, indexes, m)]
<1>1. /\ other.columns = d.columns /\ other.indexes = indexes
      /\ DOMAIN indexes = 1..m
  BY DEF IndexList
<1>2. PICK c : c = [i \in DOMAIN d.columns |-> PlanColumn(d.columns[i])]
  OBVIOUS
<1>3. Built(d).columns = c /\ Built(other).columns = c
  BY <1>1, <1>2 DEF Built
<1>4. Built(other) = [columns |-> c, indexes |-> Planned(c, indexes, m)]
  BY <1>1, <1>2 DEF Built, Planned
<1>5. Accepted(other)
  <2>1. other \in [columns : Seq(ColumnDef), indexes : Seq(IndexDef)]
    BY DEF Accepted, IndexList
  <2>2. /\ Len(other.columns) =< MaxColumns
        /\ \A i \in DOMAIN other.columns : AcceptedColumn(other.columns[i])
    BY <1>1 DEF Accepted
  <2>3. \A i \in DOMAIN other.indexes :
           AcceptedIndex(Built(other).columns, other.indexes[i])
    BY <1>1, <1>3 DEF IndexList
  <2>4. QED
    BY <1>1, <2>1, <2>2, <2>3 DEF Accepted, IndexList
<1>6. QED
  BY <1>3, <1>4, <1>5

LEMMA PlannedName ==
    ASSUME NEW columns, NEW name, NEW type, NEW is_unique, NEW parts
    PROVE  PlanIndex(columns, name, type, is_unique, parts).name = name
  BY DEF PlanIndex

LEMMA CreateIndexDefinitions ==
    ASSUME DefinitionsInv, NEW stmt \in Indexes, CreateIndex(stmt)
    PROVE  DefinitionsInv'
<1>1. PICK d : d = declared /\ Accepted(d)
  BY DEF DefinitionsInv
<1>2. PICK t : t = table /\ t = Built(d)
  BY <1>1 DEF DefinitionsInv, CreateIndex
<1>3. PICK m \in Nat : m = Len(d.indexes) /\ DOMAIN d.indexes = 1..m
  BY <1>1, BuiltIs
<1>4. /\ pc' = "up" /\ file' = Saved(table')
      /\ ValidIndex(stmt) /\ PlansIndex(stmt)
  BY DEF CreateIndex
<1>5. /\ IsList(d.indexes, m) /\ IsList(t.indexes, m)
      /\ d = [columns |-> d.columns, indexes |-> d.indexes]
  BY <1>1, <1>2, <1>3, BuiltLists
<1>6. /\ t = [columns |-> t.columns, indexes |-> t.indexes]
      /\ Len(t.indexes) = m
      /\ \A i \in 1..m :
            /\ AcceptedIndex(t.columns, d.indexes[i])
            /\ t.indexes[i] =
                  PlanIndex(t.columns, d.indexes[i].name, "btree",
                            d.indexes[i].is_unique, d.indexes[i].parts)
  BY <1>1, <1>2, <1>3, BuiltIs
<1>7. PICK indexes : indexes = Append(d.indexes, stmt)
  OBVIOUS
<1>8. stmt \in IndexDef
  BY DefinitionsAssumption
<1>9. AcceptedIndex(t.columns, stmt)
  BY <1>2, <1>4, <1>8 DEF AcceptedIndex, ValidIndex, PlansIndex
<1>10. indexes = [i \in 1..(m + 1) |-> IF i = m + 1 THEN stmt ELSE d.indexes[i]]
  BY <1>5, <1>7, Appended
<1>11. d.indexes \in Seq(IndexDef)
  BY <1>1 DEF Accepted
<1>12. indexes \in Seq(IndexDef) /\ Len(indexes) = m + 1
  BY <1>3, <1>7, <1>8, <1>11, AppendProperties
<1>13. m + 1 =< MaxIndexes
  <2>1. m < MaxIndexes /\ MaxIndexes \in Nat
    BY <1>2, <1>4, <1>6, DefinitionsAssumption DEF PlansIndex
  <2>2. QED
    BY <2>1
<1>14. \A i \in 1..(m + 1) : AcceptedIndex(t.columns, indexes[i])
  BY <1>6, <1>9, <1>10
<1>15. \A i, j \in 1..(m + 1) : indexes[i].name = indexes[j].name => i = j
  <2>1. \A i \in 1..m : t.indexes[i].name # stmt.name
    <3>1. IndexNamed(t.indexes, stmt.name) = 0
      BY <1>2, <1>4 DEF PlansIndex
    <3>2. QED
      BY <1>6, <3>1, IndexPlace
  <2>2. \A i \in 1..m : t.indexes[i].name = d.indexes[i].name
    BY <1>6, PlannedName
  <2>3. \A i, j \in 1..m : d.indexes[i].name = d.indexes[j].name => i = j
    BY <1>1, <1>3 DEF Accepted
  <2>4. \A i \in 1..m : d.indexes[i].name # stmt.name
    BY <2>1, <2>2
  <2>5. QED
    BY <1>10, <2>3, <2>4
<1>16. PICK other : other = [columns |-> d.columns, indexes |-> indexes]
  OBVIOUS
<1>17. Accepted(other) /\ Built(other) = [columns |-> t.columns,
                                            indexes |-> Planned(t.columns, indexes, m + 1)]
  <2>1. PICK k \in Nat : k = m + 1
    OBVIOUS
  <2>2. IndexList(t.columns, indexes, k)
    BY <1>12, <1>13, <1>14, <1>15, <2>1 DEF IndexList
  <2>3. PICK columns : columns = t.columns /\ columns = Built(d).columns
    BY <1>2
  <2>4. QED
    BY <1>1, <1>16, <2>1, <2>2, <2>3, OtherIndexes
<1>18. declared' = other
  <2>1. declared' = [d EXCEPT !.indexes = Append(d.indexes, stmt)]
    BY <1>1 DEF CreateIndex
  <2>2. declared' = [columns |-> d.columns, indexes |-> Append(d.indexes, stmt)]
    BY <1>5, <2>1
  <2>3. QED
    BY <1>7, <1>16, <2>2
<1>19. table' = Built(other)
  <2>1. PICK new : new = PlanIndex(t.columns, stmt.name, "btree",
                                   stmt.is_unique, stmt.parts)
    OBVIOUS
  <2>2. Append(t.indexes, new)
           = [i \in 1..(m + 1) |-> IF i = m + 1 THEN new ELSE t.indexes[i]]
    BY <1>5, Appended
  <2>3. \A i \in 1..(m + 1) :
           (IF i = m + 1 THEN new ELSE t.indexes[i])
              = PlanIndex(t.columns, indexes[i].name, "btree",
                          indexes[i].is_unique, indexes[i].parts)
    BY <1>6, <1>10, <2>1
  <2>4. Append(t.indexes, new) = Planned(t.columns, indexes, m + 1)
    BY <2>2, <2>3 DEF Planned
  <2>5. table' = [columns |-> t.columns, indexes |-> Append(t.indexes, new)]
    <3>1. table' = [t EXCEPT !.indexes = Append(t.indexes, new)]
      BY <1>2, <2>1 DEF CreateIndex
    <3>2. QED
      BY <1>6, <3>1
  <2>6. QED
    BY <1>17, <2>4, <2>5
<1>20. QED
  BY <1>4, <1>17, <1>18, <1>19, UpStep

LEMMA DropIndexDefinitions ==
    ASSUME DefinitionsInv, NEW name, DropIndex(name)
    PROVE  DefinitionsInv'
<1>1. PICK d : d = declared /\ Accepted(d)
  BY DEF DefinitionsInv
<1>2. PICK t : t = table /\ t = Built(d)
  BY <1>1 DEF DefinitionsInv, DropIndex
<1>3. PICK m \in Nat : m = Len(d.indexes) /\ DOMAIN d.indexes = 1..m
  BY <1>1, BuiltIs
<1>4. /\ IsList(d.indexes, m) /\ IsList(t.indexes, m)
      /\ d = [columns |-> d.columns, indexes |-> d.indexes]
  BY <1>1, <1>2, <1>3, BuiltLists
<1>5. /\ t = [columns |-> t.columns, indexes |-> t.indexes]
      /\ Len(t.indexes) = m
      /\ \A i \in 1..m :
            /\ AcceptedIndex(t.columns, d.indexes[i])
            /\ t.indexes[i] =
                  PlanIndex(t.columns, d.indexes[i].name, "btree",
                            d.indexes[i].is_unique, d.indexes[i].parts)
  BY <1>1, <1>2, <1>3, BuiltIs
<1>6. PICK pos, k \in DOMAIN d.indexes :
         /\ pc' = "up" /\ file' = Saved(table')
         /\ d.indexes[k].name = name
         /\ table' = [columns |-> t.columns, indexes |-> RemoveAt(t.indexes, pos)]
         /\ declared' = [columns |-> d.columns, indexes |-> RemoveAt(d.indexes, k)]
         /\ pos = IndexNamed(t.indexes, name) /\ pos # 0
  <2>1. PICK k \in DOMAIN d.indexes :
           /\ d.indexes[k].name = name
           /\ declared' = [d EXCEPT !.indexes = RemoveAt(d.indexes, k)]
    BY <1>1 DEF DropIndex
  <2>2. PICK pos : /\ pos = IndexNamed(t.indexes, name) /\ pos # 0
                   /\ table' = [t EXCEPT !.indexes = RemoveAt(t.indexes, pos)]
    BY <1>2 DEF DropIndex, WithoutIndex
  <2>3. pc' = "up" /\ file' = Saved(table')
    BY DEF DropIndex
  <2>4. pos \in 0..m
    BY <1>3, <1>5, <2>2, IndexPlace
  <2>5. pos \in DOMAIN d.indexes
    BY <1>3, <2>2, <2>4
  <2>6. declared' = [columns |-> d.columns, indexes |-> RemoveAt(d.indexes, k)]
    BY <1>4, <2>1
  <2>7. table' = [columns |-> t.columns, indexes |-> RemoveAt(t.indexes, pos)]
    BY <1>5, <2>2
  <2>8. QED
    BY <2>1, <2>2, <2>3, <2>5, <2>6, <2>7
<1>7. \A i, j \in 1..m : d.indexes[i].name = d.indexes[j].name => i = j
  BY <1>1, <1>3 DEF Accepted
<1>8. pos = k /\ k \in 1..m
  <2>1. t.indexes[pos].name = name
    <3>1. IndexNamed(t.indexes, name) # 0 /\ pos = IndexNamed(t.indexes, name)
      BY <1>6
    <3>2. QED
      BY <1>5, <3>1, IndexPlace
  <2>2. t.indexes[pos].name = d.indexes[pos].name
    BY <1>3, <1>5, <1>6, PlannedName
  <2>3. QED
    BY <1>3, <1>6, <1>7, <2>1, <2>2
<1>9. PICK indexes : indexes = RemoveAt(d.indexes, k)
  OBVIOUS
<1>10. indexes = [i \in 1..(m - 1) |-> IF i < k THEN d.indexes[i] ELSE d.indexes[i + 1]]
  BY <1>4, <1>8, <1>9, Removed
<1>11. \A i \in 1..m : d.indexes[i] \in IndexDef
  BY <1>5 DEF AcceptedIndex
<1>12. PICK n \in Nat : n = m - 1 /\ n =< m
  BY <1>8
<1>13. indexes \in Seq(IndexDef) /\ Len(indexes) = n
  <2>1. \A i \in 1..n : indexes[i] \in IndexDef
    BY <1>8, <1>10, <1>11, <1>12
  <2>2. indexes = [i \in 1..n |-> indexes[i]]
    BY <1>10, <1>12
  <2>3. QED
    BY <2>1, <2>2
<1>14. n =< MaxIndexes
  <2>1. m =< MaxIndexes /\ MaxIndexes \in Nat
    BY <1>1, <1>3, DefinitionsAssumption DEF Accepted
  <2>2. QED
    BY <1>12, <2>1
<1>15. ASSUME NEW i \in 1..n
       PROVE  \E x \in 1..m : /\ x = IF i < k THEN i ELSE i + 1
                              /\ indexes[i] = d.indexes[x]
  BY <1>8, <1>10, <1>12
<1>16. /\ \A i \in 1..n : AcceptedIndex(Built(d).columns, indexes[i])
       /\ \A i, j \in 1..n : indexes[i].name = indexes[j].name => i = j
  <2>1. ASSUME NEW i \in 1..n PROVE AcceptedIndex(Built(d).columns, indexes[i])
    BY <1>2, <1>5, <1>15
  <2>2. ASSUME NEW i \in 1..n, NEW j \in 1..n, indexes[i].name = indexes[j].name
        PROVE  i = j
    <3>1. PICK x \in 1..m : indexes[i] = d.indexes[x] /\ x = IF i < k THEN i ELSE i + 1
      BY <1>15
    <3>2. PICK y \in 1..m : indexes[j] = d.indexes[y] /\ y = IF j < k THEN j ELSE j + 1
      BY <1>15
    <3>3. x = y
      BY <1>7, <2>2, <3>1, <3>2
    <3>4. QED
      BY <1>8, <3>1, <3>2, <3>3
  <2>3. QED
    BY <2>1, <2>2
<1>17. PICK other : other = [columns |-> d.columns, indexes |-> indexes]
  OBVIOUS
<1>18. Accepted(other) /\ Built(other) = [columns |-> t.columns,
                                            indexes |-> Planned(t.columns, indexes, n)]
  <2>1. PICK columns : columns = t.columns /\ columns = Built(d).columns
    BY <1>2
  <2>2. IndexList(columns, indexes, n)
    BY <1>2, <1>13, <1>14, <1>16, <2>1 DEF IndexList
  <2>3. QED
    BY <1>1, <1>17, <2>1, <2>2, OtherIndexes
<1>19. declared' = other
  BY <1>6, <1>4, <1>9, <1>17
<1>20. table' = Built(other)
  <2>1. RemoveAt(t.indexes, k)
           = [i \in 1..n |-> IF i < k THEN t.indexes[i] ELSE t.indexes[i + 1]]
    BY <1>4, <1>8, <1>12, Removed
  <2>2. \A i \in 1..n :
           (IF i < k THEN t.indexes[i] ELSE t.indexes[i + 1])
              = PlanIndex(t.columns, indexes[i].name, "btree",
                          indexes[i].is_unique, indexes[i].parts)
    BY <1>5, <1>8, <1>10, <1>12
  <2>3. RemoveAt(t.indexes, k) = Planned(t.columns, indexes, n)
    BY <2>1, <2>2 DEF Planned
  <2>4. table' = [columns |-> t.columns, indexes |-> RemoveAt(t.indexes, k)]
    BY <1>6, <1>8
  <2>5. QED
    BY <1>18, <2>3, <2>4
<1>21. QED
  BY <1>6, <1>18, <1>19, <1>20, UpStep

LEMMA DropTableDefinitions == ASSUME DropTable PROVE DefinitionsInv'
<1>1. /\ pc' = "up" /\ table' = NoTable /\ file' = NoTable /\ declared' = NoTable
  BY DEF DropTable
<1>2. QED
  BY <1>1, NothingAccepted, UpStep

LEMMA QuitDefinitions == ASSUME DefinitionsInv, Quit PROVE DefinitionsInv'
<1>1. /\ pc' = "down" /\ table' = NoTable /\ file' = file /\ declared' = declared
  BY DEF Quit
<1>2. QED
  BY <1>1 DEF DefinitionsInv

\* The statements that made a table have all been accepted, the file says what
\* they say, and the process in memory what the file says.
THEOREM DefinitionsInductive == Spec => []DefinitionsInv
<1>1. Init => DefinitionsInv
  BY InitDefinitions
<1>2. DefinitionsInv /\ [Next]_vars => DefinitionsInv'
  <2> SUFFICES ASSUME DefinitionsInv, [Next]_vars PROVE DefinitionsInv'
    OBVIOUS
  <2>1. ASSUME NEW defs \in Tables, CreateTable(defs) PROVE DefinitionsInv'
    BY <2>1, CreateTableDefinitions
  <2>2. CASE DropTable
    BY <2>2, DropTableDefinitions
  <2>3. ASSUME NEW stmt \in Indexes, CreateIndex(stmt) PROVE DefinitionsInv'
    BY <2>3, CreateIndexDefinitions
  <2>4. ASSUME NEW stmt \in Indexes, DropIndex(stmt.name) PROVE DefinitionsInv'
    BY <2>4, DropIndexDefinitions
  <2>5. CASE Quit
    BY <2>5, QuitDefinitions
  <2>6. CASE Start
    BY <2>6, StartDefinitions
  <2>7. CASE UNCHANGED vars
    <3>1. /\ pc' = pc /\ table' = table /\ file' = file /\ declared' = declared
      BY <2>7 DEF vars
    <3>2. OddColumns' <=> OddColumns
      BY <3>1 DEF OddColumns
    <3>3. QED
      BY <3>1, <3>2 DEF DefinitionsInv
  <2>8. QED
    BY <2>1, <2>2, <2>3, <2>4, <2>5, <2>6, <2>7 DEF Next
<1>3. QED
  BY <1>1, <1>2, PTL DEF Spec

(***************************************************************************)
(* What the invariant says.                                                *)
(***************************************************************************)
LEMMA SamePlace ==
    ASSUME NEW columns, NEW others, NEW n \in Nat,
           Len(columns) = n, Len(others) = n,
           \A i \in 1..n : columns[i].name = others[i].name,
           NEW name
    PROVE  ColumnPos(columns, name) = ColumnPos(others, name)
<1>1. {i \in 1..n : columns[i].name = name} = {i \in 1..n : others[i].name = name}
  OBVIOUS
<1>2. QED
  BY <1>1 DEF ColumnPos, SelectInSeq

LEMMA ColumnSame ==
    ASSUME NEW def, AcceptedColumn(def)
    PROVE  SameColumn(PlanColumn(def), def)
<1>1. TypeInfo[def.kind].expects_len => PlanColumn(def).byte_len = def.len
  BY ColumnBytes
<1>2. /\ PlanColumn(def).name = def.name /\ PlanColumn(def).kind = def.kind
      /\ PlanColumn(def).default = def.default
  BY DEF PlanColumn
<1>3. QED
  BY <1>1, <1>2 DEF SameColumn

LEMMA IndexSame ==
    ASSUME Accepted(declared), NEW t, t = Built(declared),
           NEW k \in 1..Len(declared.indexes)
    PROVE  SameIndex(t.indexes[k], declared.indexes[k])
<1>1. PICK n \in Nat : /\ n = Len(declared.columns) /\ DOMAIN declared.columns = 1..n
                       /\ ColumnList(t.columns, n)
                       /\ \A i \in 1..n : /\ AcceptedColumn(declared.columns[i])
                                          /\ t.columns[i] = PlanColumn(declared.columns[i])
  BY BuiltIs
<1>2. PICK stmt, index, type :
         /\ stmt = declared.indexes[k] /\ index = t.indexes[k]
         /\ type = "btree" /\ AcceptedIndex(t.columns, stmt)
         /\ index = PlanIndex(t.columns, stmt.name, type, stmt.is_unique, stmt.parts)
  BY BuiltIs
<1>3. PICK m \in Nat : m = Len(stmt.parts) /\ DOMAIN stmt.parts = 1..m
  BY <1>2, Parts
<1>4. /\ index.name = stmt.name /\ index.is_unique = stmt.is_unique
      /\ Len(index.parts) = m
      /\ \A i \in 1..m : PartPlanned(t.columns, stmt.parts[i], index.parts[i])
  <2>1. IndexPlanned(t.columns, stmt, index)
    BY <1>1, <1>2, IndexIs
  <2>2. QED
    BY <1>3, <2>1 DEF IndexPlanned
<1>5. \A i \in 1..n : t.columns[i].name = declared.columns[i].name
  <2>1. \A def : PlanColumn(def).name = def.name
    BY DEF PlanColumn
  <2>2. QED
    BY <1>1, <2>1
<1>6. ASSUME NEW i \in 1..m
      PROVE  LET column == declared.columns[
                              ColumnPos(declared.columns, stmt.parts[i].column)]
             IN  /\ index.parts[i].column = stmt.parts[i].column
                 /\ index.parts[i].len =
                       IF stmt.parts[i].len # NoLen THEN stmt.parts[i].len
                       ELSE IF column.len # NoLen THEN column.len ELSE 4
  <2>1. PICK pos : pos = ColumnPos(t.columns, stmt.parts[i].column)
    OBVIOUS
  <2>2. pos = ColumnPos(declared.columns, stmt.parts[i].column)
    <3>1. Len(t.columns) = n /\ Len(declared.columns) = n
      BY <1>1 DEF ColumnList
    <3>2. QED
      BY <1>5, <2>1, <3>1, SamePlace
  <2>3. /\ index.parts[i].column = stmt.parts[i].column
        /\ index.parts[i].len = KeyPartLength(stmt.parts[i], t.columns[pos])
        /\ pos \in DOMAIN t.columns
    BY <1>4, <2>1 DEF PartPlanned
  <2>4. PICK def : def = declared.columns[pos] /\ AcceptedColumn(def)
                   /\ t.columns[pos] = PlanColumn(def)
    BY <1>1, <2>3 DEF ColumnList
  <2>5. t.columns[pos].byte_len = IF def.len = NoLen THEN 4 ELSE def.len
    BY <2>4, ColumnBytes
  <2>6. index.parts[i].len = IF stmt.parts[i].len # NoLen THEN stmt.parts[i].len
                             ELSE IF def.len # NoLen THEN def.len ELSE 4
    <3>1. PICK b \in 1..255 : b = t.columns[pos].byte_len
      BY <2>4, ColumnBytes
    <3>2. KeyPartFits(stmt.parts[i], t.columns[pos])
      BY <1>2, <1>3, <2>1 DEF AcceptedIndex
    <3>3. PICK len : len = stmt.parts[i].len
      OBVIOUS
    <3>4. len = NoLen \/ len \in 1..b
      BY <3>1, <3>2, <3>3 DEF KeyPartFits
    <3>5. len \in 1..b => LengthInByte(len)
      BY DEF LengthInByte
    <3>6. len # NoLen => AsByte(len) = len
      BY <3>4, <3>5, ByteIs
    <3>7. index.parts[i].len = IF len = NoLen THEN t.columns[pos].byte_len ELSE AsByte(len)
      BY <2>3, <3>3 DEF KeyPartLength
    <3>8. QED
      BY <2>5, <3>3, <3>6, <3>7
  <2>7. QED
    BY <2>2, <2>3, <2>4, <2>6
<1>7. SameIndex(index, stmt)
  <2>1. stmt.is_unique
    BY <1>2 DEF AcceptedIndex
  <2>2. QED
    BY <1>3, <1>4, <1>6, <2>1 DEF SameIndex
<1>8. QED
  BY <1>2, <1>7

\* However often the process ends and starts, and whatever indexes were dropped
\* in between, the table is what the statements declared, and only a column
\* name that is not plain keeps the database closed (schema_load_table,
\* index_resolve, plan_create_table, plan_create_index).
THEOREM DefinitionsSurvive == Spec => []DefinitionsKept
<1>1. DefinitionsInv => DefinitionsKept
  <2> SUFFICES ASSUME DefinitionsInv PROVE DefinitionsKept
    OBVIOUS
  <2>1. pc = "refused" => OddColumns
    BY DEF DefinitionsInv
  <2>2. ASSUME pc = "up"
        PROVE  /\ Len(table.columns) = Len(declared.columns)
               /\ Len(table.indexes) = Len(declared.indexes)
               /\ \A i \in DOMAIN declared.columns :
                     SameColumn(table.columns[i], declared.columns[i])
               /\ \A i \in DOMAIN declared.indexes :
                     SameIndex(table.indexes[i], declared.indexes[i])
    <3>1. Accepted(declared) /\ table = Built(declared)
      BY <2>2 DEF DefinitionsInv
    <3>2. /\ Len(table.columns) = Len(declared.columns)
          /\ Len(table.indexes) = Len(declared.indexes)
          /\ DOMAIN declared.columns = 1..Len(declared.columns)
          /\ DOMAIN declared.indexes = 1..Len(declared.indexes)
          /\ \A i \in 1..Len(declared.columns) :
                /\ AcceptedColumn(declared.columns[i])
                /\ table.columns[i] = PlanColumn(declared.columns[i])
      BY <3>1, BuiltIs DEF ColumnList
    <3>3. \A i \in 1..Len(declared.columns) :
             SameColumn(table.columns[i], declared.columns[i])
      BY <3>2, ColumnSame
    <3>4. \A i \in 1..Len(declared.indexes) :
             SameIndex(table.indexes[i], declared.indexes[i])
      BY <3>1, IndexSame
    <3>5. QED
      BY <3>2, <3>3, <3>4
  <2>3. QED
    BY <2>1, <2>2 DEF DefinitionsKept
<1>2. QED
  BY <1>1, DefinitionsInductive, PTL

\* A key with less than the most bytes leaves a block more room.
LEMMA RoomForLess ==
    ASSUME BlocksHoldKeys, NEW key_size \in 1..(MaxParts * 255)
    PROVE  Room(NodeSize, key_size)
<1>1. /\ NodeSize \in Nat /\ NodeSize < 65536 /\ MaxParts * 255 \in Nat
      /\ NodeSize >= 11 + 3 * (MaxParts * 255 + 16)
  BY DEF BlocksHoldKeys, Room
<1>2. PICK most \in Nat : most = MaxParts * 255
  BY <1>1
<1>3. NodeSize >= 11 + 3 * (most + 16) /\ key_size \in 1..most
  BY <1>1, <1>2
<1>4. key_size \in Nat \ {0} /\ NodeSize >= 11 + 3 * (key_size + 16)
  BY <1>1, <1>3
<1>5. QED
  BY <1>1, <1>4 DEF Room

\* Every index that a statement or a start has defined can work: its parts are
\* of its columns and fill its key, and btree_layout_create finds a layout for
\* it with room for splits and merges, whatever the columns are.
THEOREM KeysAlwaysFit ==
    ASSUME BlocksHoldKeys
    PROVE  Spec => []KeysFitNodes
<1>1. ASSUME DefinitionsInv PROVE KeysFitNodes
  <2>1. CASE pc # "up"
    <3>1. table.indexes = <<>>
      BY <1>1, <2>1 DEF DefinitionsInv, NoTable
    <3>2. DOMAIN table.indexes = {}
      BY <3>1
    <3>3. QED
      BY <3>2 DEF KeysFitNodes
  <2>2. CASE pc = "up"
    <3>1. Accepted(declared) /\ table = Built(declared)
      BY <1>1, <2>2 DEF DefinitionsInv
    <3>2. PICK n \in Nat : ColumnList(table.columns, n)
      BY <3>1, BuiltIs
    <3>3. ASSUME NEW k \in DOMAIN table.indexes
          PROVE  LET index == table.indexes[k]
                 IN  /\ \A p \in DOMAIN index.parts :
                         LET part == index.parts[p]
                             column == table.columns[part.pos]
                         IN  /\ part.pos \in DOMAIN table.columns
                             /\ column.name = part.column
                             /\ part.type = TypeInfo[column.kind].value
                             /\ part.len \in 1..column.byte_len
                     /\ index.key_size =
                           Total([p \in DOMAIN index.parts |-> index.parts[p].len])
                     /\ SectionsFit(index.node_size, index.key_size)
                     /\ CountsFit(index.node_size, index.key_size)
      <4>1. k \in 1..Len(declared.indexes)
        BY <3>1, BuiltIs
      <4>2. PICK stmt, index, type :
               /\ stmt = declared.indexes[k] /\ index = table.indexes[k]
               /\ type = "btree" /\ AcceptedIndex(table.columns, stmt)
               /\ index = PlanIndex(table.columns, stmt.name, type,
                                    stmt.is_unique, stmt.parts)
        BY <3>1, <4>1, BuiltIs
      <4>3. PICK m \in Nat : m = Len(stmt.parts)
        BY <4>2, Parts
      <4>4. /\ index.node_size = NodeSize /\ DOMAIN index.parts = 1..m
            /\ \A i \in 1..m :
                  PartPlanned(table.columns, stmt.parts[i], index.parts[i])
        <5>1. IndexPlanned(table.columns, stmt, index)
          BY <3>2, <4>2, IndexIs
        <5>2. QED
          BY <4>3, <5>1 DEF IndexPlanned
      <4>5. ASSUME NEW p \in DOMAIN index.parts
            PROVE  LET part == index.parts[p]
                       column == table.columns[part.pos]
                   IN  /\ part.pos \in DOMAIN table.columns
                       /\ column.name = part.column
                       /\ part.type = TypeInfo[column.kind].value
                       /\ part.len \in 1..column.byte_len
        <5>1. PartPlanned(table.columns, stmt.parts[p], index.parts[p])
          BY <4>4
        <5>2. QED
          BY <5>1 DEF PartPlanned
      <4>6. /\ index.key_size =
                  Total([p \in DOMAIN index.parts |-> index.parts[p].len])
            /\ index.key_size \in 1..(MaxParts * 255)
        BY <3>2, <4>2, KeySize
      <4>7. Room(NodeSize, index.key_size)
        BY <4>6, RoomForLess
      <4>8. SectionsFit(NodeSize, index.key_size) /\ CountsFit(NodeSize, index.key_size)
        BY <4>7, SectionsAlwaysFit, CountsAlwaysFit
      <4>9. QED
        BY <4>2, <4>4, <4>5, <4>6, <4>8
    <3>4. QED
      BY <3>3 DEF KeysFitNodes
  <2>3. QED
    BY <2>1, <2>2
<1>2. QED
  BY <1>1, DefinitionsInductive, PTL
=============================================================================
